CONSTANTS
    Clients = {c1, c2}
    MaxIds = 1
SPECIFICATION Spec
INVARIANTS
    TypeOK
    LiveMatchesDisk
PROPERTIES
    OnlyACompletedSetChangesTheDisk
    BlockedStoreKeepsItsDocument
    MainIsNeverTorn
    IsARegister
