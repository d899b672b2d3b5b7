CONSTANTS
    w = w
    e = e
    h = h
    None = None
    Addons = {w, e}
    Maps = {w, e, None}
    Community = {e}
    SharedNames = {w}
    LegacyItems = {}
    NotFound = {}
    SingleFile = {}
    Lists <- WithMap
    MountDownload = TRUE
    Startable <- SomeOrAll
    Results = {TRUE, FALSE}
    InOrder = TRUE
    Calm = TRUE
    MaxCommands = 1
    Events = {"cvar", "list", "unlist", "refresh", "download", "map", "reload"}
SPECIFICATION Spec
INVARIANTS
    TypeOK
    MountOrderIsSearchOrder
    QueueFollowsSteam
PROPERTIES
    LevelHasItsAddon
    ServerMountsWhatItTells
    ServesDownloads
