--------------------------- MODULE RssPreferences ---------------------------
(***************************************************************************)
(* The RSS asset preference store of multiaddonmanager.cpp:                *)
(* LoadRssAssetOptOutClients, SaveRssAssetOptOutClientsLocked and          *)
(* SetClientRssAssetsEnabled with rss_prefs::ApplyRssPreferenceChange.     *)
(*                                                                         *)
(* Everything runs on the game thread, so no two calls interleave; what    *)
(* can come between two file operations is the death of the process.       *)
(* The text of a document is abstracted to whether the parser accepts it   *)
(* and to the IDs it maps to true.                                         *)
(***************************************************************************)
EXTENDS Naturals, FiniteSets

CONSTANTS Clients,   \* the Steam IDs (never 0) that may opt out
          MaxIds     \* how many IDs fit in the 1 MiB the loader accepts

ASSUME MaxIdsAssumption == MaxIds \in Nat

VARIABLES optOut,    \* m_RssAssetOptOutClients
          writable,  \* m_bRssAssetPreferencesWritable
          main,      \* the document at g_RssAssetPreferencesPath
          temp,      \* the document at g_RssAssetPreferencesTempPath
          legacy,    \* the document at g_RssAssetLegacyOptOutPath
          pc,        \* the file operation the running call does next
          saving     \* the call that is saving, and the set it saves

vars == <<optOut, writable, main, temp, legacy, pc, saving>>

-----------------------------------------------------------------------------
(* Documents: missing, rejected by the reader, or accepted with these IDs. *)

Absent == [kind |-> "absent", ids |-> {}]
Torn   == [kind |-> "torn", ids |-> {}]
Doc(S) == [kind |-> "valid", ids |-> S]

Documents == {Absent, Torn} \cup {Doc(S) : S \in SUBSET Clients}

\* The loader ignores a document of more than 1 MiB; the writer has no limit.
Fits(S) == Cardinality(S) <= MaxIds

Steps == {"down", "idle", "open", "write", "rename"}

NoSave == [caller |-> "none", members |-> {}]

\* What a restart that reads without error would find; missing means all ON.
DiskView ==
    IF main # Absent THEN main
    ELSE IF legacy # Absent THEN legacy
    ELSE Doc({})

-----------------------------------------------------------------------------
Init ==
    /\ optOut = {}
    /\ writable = FALSE
    /\ main \in Documents
    /\ temp \in Documents
    /\ legacy \in Documents
    /\ pc = "down"
    /\ saving = NoSave

\* Mutant: the caller's set is not published.
ReturnUnpublished(members, latch) ==
    /\ UNCHANGED optOut
    /\ writable' = latch
    /\ pc' = "idle"
    /\ saving' = NoSave

\* The call is over: what the memory, the latch and the program counter become.
Return(members, latch) ==
    /\ optOut' = members
    /\ writable' = latch
    /\ pc' = "idle"
    /\ saving' = NoSave

Save(caller, members) ==
    /\ pc' = "open"
    /\ saving' = [caller |-> caller, members |-> members]

\* Mutant: the change is not rolled back, nor the latch cleared.
SaveFailsUnnoticed == Return(saving.members, saving.caller = "set")

\* A failed save leaves the set as it was before the call and clears the latch;
\* while loading, the set before the call is the empty one.
SaveFails == Return(IF saving.caller = "set" THEN optOut ELSE {}, FALSE)

\* The main document exists: it alone decides, and nothing is written.
LoadMain ==
    /\ pc = "down"
    /\ main # Absent
    /\ \E readOk \in BOOLEAN :
          LET accepted == readOk /\ main.kind = "valid" /\ Fits(main.ids)
          IN  Return(IF accepted THEN main.ids ELSE {}, accepted)
    /\ UNCHANGED <<main, temp, legacy>>

\* Mutants: the legacy list is dropped; its zero ID is taken for a client.
CollectNothing == {}
CollectZero == legacy.ids \cup {0}

CollectLegacyOptOutIds == legacy.ids

\* Only the legacy list exists: it is collected and saved as the main document.
LoadLegacy ==
    /\ pc = "down"
    /\ main = Absent
    /\ legacy # Absent
    /\ \/ /\ legacy.kind = "valid"
          /\ optOut' = CollectLegacyOptOutIds
          /\ writable' = FALSE
          /\ Save("load", CollectLegacyOptOutIds)
       \/ Return({}, FALSE)
    /\ UNCHANGED <<main, temp, legacy>>

\* Neither exists: an empty main document is created.
LoadFresh ==
    /\ pc = "down"
    /\ main = Absent
    /\ legacy = Absent
    /\ optOut' = {}
    /\ writable' = FALSE
    /\ Save("load", {})
    /\ UNCHANGED <<main, temp, legacy>>

\* Mutant: the latch is not looked at.
ChangesBlocked(c, enabled) == (c \notin optOut) # enabled

\* A blocked latch, or a value that does not change, returns at once and
\* changes nothing: only a real change of a writable store saves.
Changes(c, enabled) == writable /\ (c \notin optOut) # enabled

SetClientRssAssetsEnabled(c, enabled) ==
    /\ pc = "idle"
    /\ Changes(c, enabled)
    /\ Save("set", IF enabled THEN optOut \ {c} ELSE optOut \cup {c})
    /\ UNCHANGED <<optOut, writable, main, temp, legacy>>

-----------------------------------------------------------------------------
(* SaveRssAssetOptOutClientsLocked, one action per file operation that can *)
(* fail.  RemoveFile's own failure is ignored by the code: the temporary   *)
(* document may survive a failed save.                                     *)

OpenTemp ==
    /\ pc = "open"
    /\ \/ /\ temp' = Torn                        \* "wt" truncates
          /\ pc' = "write"
          /\ UNCHANGED <<optOut, writable, saving>>
       \/ /\ SaveFails
          /\ UNCHANGED temp
    /\ UNCHANGED <<main, legacy>>

\* Mutant: a short write goes unnoticed.
ShortWriteRenamed ==
    /\ temp' = Torn
    /\ pc' = "rename"
    /\ UNCHANGED <<optOut, writable, saving>>

\* Not everything was written, or the file is not IsOk for all that it was.
ShortWrite == SaveFails /\ temp' \in {Absent, Torn, Doc(saving.members)}

WriteTemp ==
    /\ pc = "write"
    /\ \/ /\ temp' = Doc(saving.members)
          /\ pc' = "rename"
          /\ UNCHANGED <<optOut, writable, saving>>
       \/ ShortWrite
    /\ UNCHANGED <<main, legacy>>

\* After the rename the caller publishes the set in memory and returns true.
RenameTemp ==
    /\ pc = "rename"
    /\ \/ /\ main' = temp
          /\ temp' = Absent
          /\ Return(saving.members, TRUE)
       \/ /\ SaveFails
          /\ temp' \in {Absent, temp}
          /\ UNCHANGED main
    /\ UNCHANGED legacy

-----------------------------------------------------------------------------
\* The process dies, or the server is shut down, between any two operations.
Crash ==
    /\ pc # "down"
    /\ optOut' = {}
    /\ writable' = FALSE
    /\ pc' = "down"
    /\ saving' = NoSave
    /\ UNCHANGED <<main, temp, legacy>>

\* The operator restores, edits or deletes files while the server is down.
OperatorEdits ==
    /\ pc = "down"
    /\ main' \in Documents
    /\ legacy' \in Documents
    /\ UNCHANGED <<optOut, writable, temp, pc, saving>>

Next ==
    \/ LoadMain \/ LoadLegacy \/ LoadFresh
    \/ \E c \in Clients, enabled \in BOOLEAN : SetClientRssAssetsEnabled(c, enabled)
    \/ OpenTemp \/ WriteTemp \/ RenameTemp
    \/ Crash \/ OperatorEdits

Spec == Init /\ [][Next]_vars

-----------------------------------------------------------------------------
(* Properties *)

TypeOK ==
    /\ optOut \in SUBSET Clients
    /\ writable \in BOOLEAN
    /\ main \in Documents
    /\ temp \in Documents
    /\ legacy \in Documents
    /\ pc \in Steps
    /\ saving \in [caller : {"none", "load", "set"}, members : SUBSET Clients]

\* README "Persistence failure rolls membership back": whenever the store
\* still accepts changes, memory and disk agree, also in the middle of a
\* save that may yet fail or be cut short by a crash.
LiveMatchesDisk ==
    writable => main = Doc(optOut)

\* Neither a crash, nor a failed save, nor the migration of the legacy list
\* changes what the next start will read; only a completed change does, and
\* then by exactly that change.
OnlyACompletedSetChangesTheDisk ==
    [][pc # "down" /\ DiskView' # DiskView =>
          /\ pc = "rename"
          /\ saving.caller = "set"
          /\ DiskView' = Doc(saving.members)]_vars

\* A document the loader rejected, or could not read, is evidence the operator
\* may still repair: the plugin never replaces it, whatever calls follow, and
\* after one failed save it writes no more until it is restarted.
BlockedStoreKeepsItsDocument ==
    [][pc # "down" /\ ~writable /\ main # Absent => main' = main]_vars

\* At no moment does the plugin leave a document on disk that its own reader
\* would reject: the main path goes from one whole document to the next.
MainIsNeverTorn ==
    [][pc # "down" /\ main' # main => main'.kind = "valid"]_vars

-----------------------------------------------------------------------------
(* The store implements the abstract register.                             *)

Serving == pc # "down" /\ saving.caller # "load"

Register == INSTANCE PreferenceRegister WITH
    durable <- [readable |-> DiskView.kind = "valid", ids |-> DiskView.ids],
    live    <- IF Serving THEN optOut ELSE {},
    open    <- Serving

\* Whatever fails and whenever the process dies, callers see one register
\* whose changes are atomic and survive a restart.
IsARegister == Register!Spec
=============================================================================
