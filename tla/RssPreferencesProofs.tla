------------------------ MODULE RssPreferencesProofs ------------------------
(***************************************************************************)
(* Machine-checked theorems about the RSS asset preference store, for any  *)
(* set of clients and any document limit.                                  *)
(***************************************************************************)
EXTENDS RssPreferences, TLAPS

\* Who is in the middle of saving, and what holds until the call returns.
Saver ==
    /\ pc \in {"down", "idle"} => saving = NoSave
    /\ pc \in {"open", "write", "rename"} => saving.caller \in {"load", "set"}

\* A save by the loader runs before any main document exists, and writes what
\* the next start would read anyway.
LoaderSaves ==
    saving.caller = "load" =>
        /\ main = Absent
        /\ ~writable
        /\ DiskView = Doc(saving.members)
        /\ optOut = saving.members

Toggled(S, c) == IF c \in S THEN S \ {c} ELSE S \cup {c}

\* A save by the setter moves exactly one client.
SetterSaves ==
    saving.caller = "set" =>
        /\ writable
        /\ \E c \in Clients : saving.members = Toggled(optOut, c)

\* The temporary document is whole by the time it is renamed.
TempIsWhole == pc = "rename" => temp = Doc(saving.members)

DownIsBlank == pc = "down" => optOut = {} /\ ~writable

IInv ==
    /\ TypeOK
    /\ Saver
    /\ LoaderSaves
    /\ SetterSaves
    /\ TempIsWhole
    /\ DownIsBlank
    /\ LiveMatchesDisk

-----------------------------------------------------------------------------
\* A document is told by its kind and its IDs.
LEMMA DocFacts ==
    ASSUME NEW S \in SUBSET Clients
    PROVE  /\ Doc(S) \in Documents
           /\ Doc(S).kind = "valid"
           /\ Doc(S).ids = S
           /\ Doc(S) # Absent
           /\ Doc(S) # Torn
BY DEF Documents, Doc, Absent, Torn

\* Every document has a kind and a set of IDs, and an accepted one is the
\* document of its own IDs.
LEMMA DocumentFacts ==
    ASSUME NEW d \in Documents
    PROVE  /\ d.kind \in {"absent", "torn", "valid"}
           /\ d.ids \in SUBSET Clients
           /\ d.kind = "valid" => d = Doc(d.ids)
           /\ d.kind = "valid" => d # Absent
BY DEF Documents, Doc, Absent, Torn

LEMMA InitInv == Init => IInv
<1> SUFFICES ASSUME Init PROVE IInv
  OBVIOUS
<1>1. TypeOK
  BY DEF Init, TypeOK, NoSave, Steps
<1>2. Saver /\ LoaderSaves /\ SetterSaves
  BY DEF Init, NoSave, Saver, LoaderSaves, SetterSaves
<1>3. TempIsWhole /\ DownIsBlank /\ LiveMatchesDisk
  BY DEF Init, TempIsWhole, DownIsBlank, LiveMatchesDisk
<1> QED
  BY <1>1, <1>2, <1>3 DEF IInv

LEMMA NextInv == IInv /\ [Next]_vars => IInv'
<1> SUFFICES ASSUME IInv, [Next]_vars PROVE IInv'
  OBVIOUS
<1> USE DEF IInv, TypeOK, Steps
<1> DEFINE Conclusion == TypeOK' /\ Saver' /\ LoaderSaves' /\ SetterSaves'
                          /\ TempIsWhole' /\ DownIsBlank' /\ LiveMatchesDisk'
<1>1. CASE LoadMain
  <2>1. PICK readOk \in BOOLEAN :
          LET accepted == readOk /\ main.kind = "valid" /\ Fits(main.ids)
          IN  Return(IF accepted THEN main.ids ELSE {}, accepted)
    BY <1>1 DEF LoadMain
  <2>2. UNCHANGED <<main, temp, legacy>> /\ main.ids \in SUBSET Clients
    BY <1>1, DocumentFacts DEF LoadMain
  <2>3. writable' => main.kind = "valid" /\ optOut' = main.ids
    BY <2>1 DEF Return
  <2>4. writable' => main' = Doc(optOut')
    BY <2>2, <2>3, DocumentFacts
  <2> QED
    BY <2>1, <2>2, <2>4 DEF Return, NoSave, Saver, LoaderSaves, SetterSaves,
        TempIsWhole, DownIsBlank, LiveMatchesDisk, Fits
<1>2. CASE LoadLegacy
  <2>1. UNCHANGED <<main, temp, legacy>> /\ main = Absent /\ legacy # Absent
        /\ legacy.ids \in SUBSET Clients
    BY <1>2, DocumentFacts DEF LoadLegacy, CollectLegacyOptOutIds
  <2>2. CASE legacy.kind = "valid" /\ optOut' = legacy.ids /\ writable' = FALSE
              /\ Save("load", legacy.ids)
    <3>1. DiskView' = Doc(legacy.ids)
      BY <2>1, <2>2, DocumentFacts DEF DiskView
    <3> QED
      BY <2>1, <2>2, <3>1 DEF Save, Saver, LoaderSaves, SetterSaves,
          TempIsWhole, DownIsBlank, LiveMatchesDisk
  <2>3. CASE Return({}, FALSE)
    BY <2>1, <2>3 DEF Return, NoSave, Saver, LoaderSaves, SetterSaves,
        TempIsWhole, DownIsBlank, LiveMatchesDisk
  <2> QED
    BY <1>2, <2>2, <2>3 DEF LoadLegacy, CollectLegacyOptOutIds
<1>3. CASE LoadFresh
  BY <1>3 DEF LoadFresh, Save, Saver, LoaderSaves, SetterSaves, TempIsWhole,
      DownIsBlank, LiveMatchesDisk, DiskView
<1>4. ASSUME NEW c \in Clients, NEW enabled \in BOOLEAN,
             SetClientRssAssetsEnabled(c, enabled)
      PROVE  IInv'
  <2>1. /\ saving' = [caller |-> "set",
                      members |-> IF enabled THEN optOut \ {c} ELSE optOut \cup {c}]
        /\ pc' = "open"
        /\ writable
        /\ (c \notin optOut) # enabled
        /\ UNCHANGED <<optOut, writable, main, temp, legacy>>
    BY <1>4 DEF SetClientRssAssetsEnabled, Changes, Save
  <2>2. saving'.members = Toggled(optOut, c)
    BY <2>1 DEF Toggled
  <2>3. TypeOK' /\ Saver' /\ LoaderSaves' /\ TempIsWhole' /\ DownIsBlank' /\ LiveMatchesDisk'
    BY <2>1 DEF Saver, LoaderSaves, TempIsWhole, DownIsBlank, LiveMatchesDisk
  <2>4. SetterSaves'
    BY <2>1, <2>2 DEF SetterSaves, Toggled
  <2> QED
    BY <2>3, <2>4
<1>5. ASSUME SaveFails, pc \in {"open", "write", "rename"},
             temp' \in Documents, UNCHANGED <<main, legacy>>
      PROVE  IInv'
  BY <1>5 DEF SaveFails, Return, NoSave, Saver, LoaderSaves, SetterSaves,
      TempIsWhole, DownIsBlank, LiveMatchesDisk
<1>6. CASE OpenTemp
  <2>1. CASE SaveFails /\ UNCHANGED temp
    BY <1>5, <1>6, <2>1 DEF OpenTemp
  <2>2. CASE temp' = Torn /\ pc' = "write" /\ UNCHANGED <<optOut, writable, saving>>
    BY <1>6, <2>2 DEF OpenTemp, Documents, Saver, LoaderSaves, SetterSaves,
        TempIsWhole, DownIsBlank, LiveMatchesDisk, DiskView, Toggled
  <2> QED
    BY <1>6, <2>1, <2>2 DEF OpenTemp
<1>7. CASE WriteTemp
  <2>1. CASE SaveFails /\ temp' \in {Absent, Torn, Doc(saving.members)}
    <3>1. temp' \in Documents
      BY <2>1, DocFacts DEF Documents
    <3> QED
      BY <1>5, <1>7, <2>1, <3>1 DEF WriteTemp
  <2>2. CASE temp' = Doc(saving.members) /\ pc' = "rename"
              /\ UNCHANGED <<optOut, writable, saving>>
    BY <1>7, <2>2, DocFacts DEF WriteTemp, ShortWrite, Saver, LoaderSaves, SetterSaves,
        TempIsWhole, DownIsBlank, LiveMatchesDisk, DiskView, Toggled
  <2> QED
    BY <1>7, <2>1, <2>2 DEF WriteTemp, ShortWrite
<1>8. CASE RenameTemp
  <2>1. CASE SaveFails /\ temp' \in {Absent, temp} /\ UNCHANGED main
    BY <1>5, <1>8, <2>1 DEF RenameTemp, Documents
  <2>2. CASE main' = temp /\ temp' = Absent /\ Return(saving.members, TRUE)
    <3>1. temp = Doc(saving.members) /\ temp' \in Documents
      BY <1>8, <2>2 DEF RenameTemp, TempIsWhole, Documents
    <3> QED
      BY <1>8, <2>2, <3>1 DEF RenameTemp, Return, NoSave, Saver, LoaderSaves,
          SetterSaves, TempIsWhole, DownIsBlank, LiveMatchesDisk
  <2> QED
    BY <1>8, <2>1, <2>2 DEF RenameTemp
<1>9. CASE Crash
  BY <1>9 DEF Crash, NoSave, Saver, LoaderSaves, SetterSaves, TempIsWhole,
      DownIsBlank, LiveMatchesDisk
<1>10. CASE OperatorEdits
  BY <1>10 DEF OperatorEdits, NoSave, Saver, LoaderSaves, SetterSaves,
      TempIsWhole, DownIsBlank, LiveMatchesDisk
<1>11. CASE UNCHANGED vars
  BY <1>11 DEF vars, Saver, LoaderSaves, SetterSaves, TempIsWhole, DownIsBlank,
      LiveMatchesDisk, DiskView, Toggled
<1> QED
  BY <1>1, <1>2, <1>3, <1>4, <1>6, <1>7, <1>8, <1>9, <1>10, <1>11 DEF Next

LEMMA Invariance == Spec => []IInv
BY InitInv, NextInv, PTL DEF Spec

-----------------------------------------------------------------------------
\* Every variable keeps its type, through saves, failures and crashes.
THEOREM TypeCorrect == Spec => []TypeOK
BY Invariance, PTL DEF IInv

\* Memory and disk agree whenever SetClientRssAssetsEnabled may still succeed.
THEOREM MemoryAndDiskAgree == Spec => []LiveMatchesDisk
BY Invariance, PTL DEF IInv

\* Failures, crashes and the migration of the legacy list never change what
\* the next start reads; a completed SetClientRssAssetsEnabled does.
THEOREM DiskChangesOnlyBySet == Spec => OnlyACompletedSetChangesTheDisk
<1> DEFINE A == pc # "down" /\ DiskView' # DiskView =>
                  /\ pc = "rename"
                  /\ saving.caller = "set"
                  /\ DiskView' = Doc(saving.members)
<1>1. IInv /\ [Next]_vars => [A]_vars
  <2> SUFFICES ASSUME IInv, Next, pc # "down", DiskView' # DiskView
               PROVE  /\ pc = "rename"
                      /\ saving.caller = "set"
                      /\ DiskView' = Doc(saving.members)
    BY DEF vars, DiskView
  <2>1. pc = "rename" /\ main' = temp /\ UNCHANGED legacy
    BY DEF Next, LoadMain, LoadLegacy, CollectLegacyOptOutIds, LoadFresh,
        SetClientRssAssetsEnabled, Changes,
        OpenTemp, WriteTemp, ShortWrite, RenameTemp, Crash, OperatorEdits, DiskView
  <2>2. temp = Doc(saving.members) /\ saving.members \in SUBSET Clients
    BY <2>1 DEF IInv, TempIsWhole, TypeOK
  <2>3. DiskView' = Doc(saving.members)
    BY <2>1, <2>2, DocFacts DEF DiskView
  <2>4. saving.caller = "set"
    BY <2>1, <2>3 DEF IInv, Saver, LoaderSaves
  <2> QED
    BY <2>1, <2>3, <2>4
<1> QED
  BY <1>1, Invariance, PTL DEF Spec, OnlyACompletedSetChangesTheDisk

\* A document the loader refused is still there for the operator to repair,
\* whatever is called until the server stops.
THEOREM RefusedDocumentIsKept == Spec => BlockedStoreKeepsItsDocument
<1> DEFINE A == pc # "down" /\ ~writable /\ main # Absent => main' = main
<1>1. IInv /\ [Next]_vars => [A]_vars
  BY DEF IInv, Saver, LoaderSaves, SetterSaves, vars, Next, LoadMain, LoadLegacy,
      CollectLegacyOptOutIds,
      LoadFresh, SetClientRssAssetsEnabled, Changes, OpenTemp, WriteTemp,
      ShortWrite, RenameTemp,
      Crash, OperatorEdits
<1> QED
  BY <1>1, Invariance, PTL DEF Spec, BlockedStoreKeepsItsDocument

\* The plugin only ever replaces the main document by a whole one.
THEOREM MainStaysWhole == Spec => MainIsNeverTorn
<1> DEFINE A == pc # "down" /\ main' # main => main'.kind = "valid"
<1>1. IInv /\ [Next]_vars => [A]_vars
  BY DocFacts DEF IInv, TypeOK, TempIsWhole, vars, Next, LoadMain, LoadLegacy,
      CollectLegacyOptOutIds,
      LoadFresh, SetClientRssAssetsEnabled, Changes, OpenTemp, WriteTemp,
      ShortWrite, RenameTemp,
      Crash, OperatorEdits
<1> QED
  BY <1>1, Invariance, PTL DEF Spec, MainIsNeverTorn

-----------------------------------------------------------------------------
(* Refinement: every step of the store is a step of the register or leaves *)
(* it alone.                                                               *)

LEMMA DiskViewFacts ==
    ASSUME TypeOK
    PROVE  DiskView \in Documents
BY DocFacts DEF TypeOK, DiskView

LEMMA RegisterInit == Init => Register!Init
<1> SUFFICES ASSUME Init PROVE Register!Init
  OBVIOUS
<1>1. DiskView \in Documents
  BY DocFacts DEF Init, DiskView
<1>2. DiskView.ids \in SUBSET Clients
  BY <1>1, DocumentFacts
<1> QED
  BY <1>2 DEF Init, Register!Init, Register!Values, Serving, NoSave

\* The file operations of one call that fails: the register loses its
\* writability if it was serving, and starts read-only if it was loading.
LEMMA RegisterSaveFails ==
    ASSUME IInv, SaveFails, pc \in {"open", "write", "rename"},
           UNCHANGED <<main, legacy>>
    PROVE  Register!Next
<1>1. DiskView' = DiskView /\ Serving'
  BY DEF DiskView, SaveFails, Return, NoSave, Serving
<1>2. CASE saving.caller = "load"
  BY <1>1, <1>2 DEF SaveFails, Return, Serving, IInv, LoaderSaves,
      Register!Next, Register!StartReadOnly
<1>3. CASE saving.caller = "set"
  BY <1>1, <1>3 DEF SaveFails, Return, Serving, IInv, SetterSaves,
      Register!Next, Register!SetFails
<1> QED
  BY <1>2, <1>3 DEF IInv, Saver

LEMMA RegisterNext == IInv /\ [Next]_vars => [Register!Next]_(Register!vars)
<1> SUFFICES ASSUME IInv, [Next]_vars PROVE [Register!Next]_(Register!vars)
  OBVIOUS
<1> USE DEF IInv
<1>1. CASE LoadMain
  <2>1. PICK readOk \in BOOLEAN :
          LET accepted == readOk /\ main.kind = "valid" /\ Fits(main.ids)
          IN  Return(IF accepted THEN main.ids ELSE {}, accepted)
    BY <1>1 DEF LoadMain
  <2>2. ~Serving /\ Serving' /\ DiskView = main /\ DiskView' = DiskView
    BY <1>1, <2>1 DEF LoadMain, Return, NoSave, Serving, DiskView
  <2>3. CASE readOk /\ main.kind = "valid" /\ Fits(main.ids)
    <3>1. optOut' = main.ids /\ writable' = TRUE
      BY <2>1, <2>3 DEF Return
    <3> QED
      BY <2>2, <2>3, <3>1 DEF Register!Next, Register!Start
  <2>4. CASE ~(readOk /\ main.kind = "valid" /\ Fits(main.ids))
    <3>1. optOut' = {} /\ writable' = FALSE
      BY <2>1, <2>4 DEF Return
    <3> QED
      BY <2>2, <3>1 DEF Register!Next, Register!StartReadOnly
  <2> QED
    BY <2>3, <2>4
<1>2. CASE LoadLegacy
  <2>1. ~Serving /\ DiskView' = DiskView /\ writable = FALSE
    BY <1>2 DEF LoadLegacy, CollectLegacyOptOutIds, Serving, DiskView, DownIsBlank,
        TypeOK
  <2>2. CASE Return({}, FALSE)
    BY <2>1, <2>2 DEF Return, NoSave, Serving, Register!Next, Register!StartReadOnly
  <2>3. CASE writable' = FALSE /\ Save("load", legacy.ids)
    BY <2>1, <2>3 DEF Save, Serving, Register!vars
  <2> QED
    BY <1>2, <2>2, <2>3 DEF LoadLegacy, CollectLegacyOptOutIds
<1>3. CASE LoadFresh
  BY <1>3 DEF LoadFresh, Save, Serving, DiskView, DownIsBlank, TypeOK, Register!vars
<1>4. ASSUME NEW c \in Clients, NEW enabled \in BOOLEAN,
             SetClientRssAssetsEnabled(c, enabled)
      PROVE  UNCHANGED Register!vars
  BY <1>4 DEF SetClientRssAssetsEnabled, Changes, Save, Serving, DiskView, Saver,
      NoSave,
      Register!vars
<1>5. CASE OpenTemp
  <2>1. CASE SaveFails
    BY <1>5, <2>1, RegisterSaveFails DEF OpenTemp
  <2>2. CASE pc' = "write" /\ UNCHANGED <<optOut, writable, saving>>
    BY <1>5, <2>2 DEF OpenTemp, Serving, DiskView, Register!vars
  <2> QED
    BY <1>5, <2>1, <2>2 DEF OpenTemp
<1>6. CASE WriteTemp
  <2>1. CASE SaveFails
    BY <1>6, <2>1, RegisterSaveFails DEF WriteTemp, ShortWrite
  <2>2. CASE pc' = "rename" /\ UNCHANGED <<optOut, writable, saving>>
    BY <1>6, <2>2 DEF WriteTemp, ShortWrite, Serving, DiskView, Register!vars
  <2> QED
    BY <1>6, <2>1, <2>2 DEF WriteTemp, ShortWrite
<1>7. CASE RenameTemp
  <2>1. CASE SaveFails /\ UNCHANGED main
    BY <1>7, <2>1, RegisterSaveFails DEF RenameTemp
  <2>2. CASE main' = temp /\ Return(saving.members, TRUE)
    <3>1. /\ temp = Doc(saving.members)
          /\ saving.members \in SUBSET Clients
      BY <1>7 DEF RenameTemp, TempIsWhole, TypeOK
    <3>2. DiskView' = Doc(saving.members) /\ Serving'
      BY <1>7, <2>2, <3>1, DocFacts DEF RenameTemp, DiskView, Return, NoSave, Serving
    <3>3. DiskView'.kind = "valid" /\ DiskView'.ids = saving.members
      BY <3>1, <3>2, DocFacts
    <3>4. CASE saving.caller = "load"
      <4>1. ~Serving /\ DiskView' = DiskView
        BY <3>2, <3>4 DEF Serving, LoaderSaves
      <4> QED
        BY <2>2, <3>2, <3>3, <4>1 DEF Return, Register!Next, Register!Start
    <3>5. CASE saving.caller = "set"
      <4>1. Serving /\ writable
        BY <1>7, <3>5 DEF RenameTemp, Serving, SetterSaves
      <4>2. PICK c \in Clients : saving.members = Toggled(optOut, c)
        BY <3>5 DEF SetterSaves
      <4>3. Register!Set(c)
        BY <2>2, <3>2, <3>3, <4>1, <4>2 DEF Return, Toggled, Register!Set, TypeOK
      <4> QED
        BY <4>3 DEF Register!Next
    <3> QED
      BY <1>7, <3>4, <3>5 DEF RenameTemp, Saver
  <2> QED
    BY <1>7, <2>1, <2>2 DEF RenameTemp
<1>8. CASE Crash
  <2>1. ~Serving' /\ DiskView' = DiskView
    BY <1>8 DEF Crash, Serving, DiskView
  <2>2. CASE Serving
    BY <1>8, <2>1, <2>2 DEF Crash, Register!Next, Register!Stop
  <2>3. CASE ~Serving
    <3>1. writable = FALSE
      BY <1>8, <2>3 DEF Crash, Serving, LoaderSaves, TypeOK
    <3> QED
      BY <1>8, <2>1, <2>3, <3>1 DEF Crash, Serving, Register!vars
  <2> QED
    BY <2>2, <2>3
<1>9. CASE OperatorEdits
  <2>1. TypeOK'
    BY <1>9 DEF OperatorEdits, TypeOK, Steps
  <2>2. DiskView' \in Documents
    BY <2>1, DocFacts DEF TypeOK, DiskView
  <2>3. DiskView'.ids \in SUBSET Clients
    BY <2>2, DocumentFacts
  <2> QED
    BY <1>9, <2>3 DEF OperatorEdits, Serving, Register!Next, Register!Edit,
        Register!Values
<1>10. CASE UNCHANGED vars
  BY <1>10 DEF vars, Serving, DiskView, Register!vars
<1> QED
  BY <1>1, <1>2, <1>3, <1>4, <1>5, <1>6, <1>7, <1>8, <1>9, <1>10 DEF Next

\* The store implements the abstract register: atomic, durable changes.
THEOREM StoreIsARegister == Spec => IsARegister
BY Invariance, RegisterInit, RegisterNext, PTL DEF Spec, IsARegister, Register!Spec
=============================================================================
