------------------------- MODULE PreferenceRegister -------------------------
(***************************************************************************)
(* What the RSS preference store promises to the rest of the plugin: one   *)
(* durable register holding the set of opted-out clients.  A change takes  *)
(* effect on disk and in memory together or not at all; a restart reads    *)
(* back exactly what the register holds, or starts with everybody opted in *)
(* and refuses to write.  No files, no temporary document, no intermediate *)
(* steps: module RssPreferences is shown to implement this.                *)
(***************************************************************************)
CONSTANT Clients        \* the Steam IDs (never 0) that may opt out

VARIABLES durable,      \* the opt-out set a restart would find, if readable
          live,         \* the opt-out set the handlers consult
          open,         \* is the plugin serving?
          writable      \* may preferences still be changed?

vars == <<durable, live, open, writable>>

Values == [readable : BOOLEAN, ids : SUBSET Clients]

Init ==
    /\ durable \in Values
    /\ live = {}
    /\ open = FALSE
    /\ writable = FALSE

\* The plugin starts from the durable set...
Start ==
    /\ ~open
    /\ durable.readable
    /\ live' = durable.ids
    /\ open' = TRUE
    /\ writable' = TRUE
    /\ UNCHANGED durable

\* ... or, when it cannot be read or written, with every client opted in.
StartReadOnly ==
    /\ ~open
    /\ live' = {}
    /\ open' = TRUE
    /\ writable' = FALSE
    /\ UNCHANGED durable

Set(c) ==
    /\ open
    /\ writable
    /\ live' = IF c \in live THEN live \ {c} ELSE live \cup {c}
    /\ durable' = [readable |-> TRUE, ids |-> live']
    /\ UNCHANGED <<open, writable>>

\* A change that could not be stored: nothing moves, and no later one is tried.
SetFails ==
    /\ open
    /\ writable' = FALSE
    /\ UNCHANGED <<durable, live, open>>

Stop ==
    /\ open
    /\ live' = {}
    /\ open' = FALSE
    /\ writable' = FALSE
    /\ UNCHANGED durable

\* Somebody edits the files of a stopped server.
Edit ==
    /\ ~open
    /\ durable' \in Values
    /\ UNCHANGED <<live, open, writable>>

Next ==
    \/ Start \/ StartReadOnly \/ SetFails \/ Stop \/ Edit
    \/ \E c \in Clients : Set(c)

Spec == Init /\ [][Next]_vars
=============================================================================
