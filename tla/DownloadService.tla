-------------------------- MODULE DownloadService --------------------------
(***************************************************************************)
(* What the download queue promises to whoever asks for an addon: an item  *)
(* stays outstanding until Steam has ended the download of this very item, *)
(* however it ended, and the map is reloaded when the last of the          *)
(* important items is done, and not before.  No order, no queue, no        *)
(* mounting: module ServerAddons is shown to implement this while Steam    *)
(* ends downloads in the order they began.                                 *)
(***************************************************************************)
CONSTANT Items

VARIABLES serving,      \* is the plugin there?
          running,      \* the downloads Steam works on
          outstanding,  \* those the plugin waits for
          urgent,       \* those of them that a reload waits for
          reload        \* is a reload on its way?

vars == <<serving, running, outstanding, urgent, reload>>

Init ==
    /\ serving \in BOOLEAN
    /\ running = {}
    /\ outstanding = {}
    /\ urgent = {}
    /\ reload = FALSE

\* New items are asked for, some of them urgent; a reload may be ordered, but
\* not together with an urgent item.
Ask ==
    /\ serving
    /\ \E new \in SUBSET (Items \ outstanding) : \E hurry \in SUBSET new :
          /\ outstanding' = outstanding \cup new
          /\ urgent' = urgent \cup hurry
          /\ running' = running \cup new
          /\ reload' # reload => reload' /\ hurry = {}
    /\ UNCHANGED serving

\* Somebody else has Steam download an item.
Begin(a) ==
    /\ running' = running \cup {a}
    /\ UNCHANGED <<serving, outstanding, urgent, reload>>

End(a) ==
    /\ a \in running
    /\ running' = running \ {a}
    /\ outstanding' = outstanding \ {a}
    /\ urgent' = urgent \ {a}
    /\ reload' = (reload \/ urgent = {a})
    /\ UNCHANGED serving

Reload ==
    /\ reload
    /\ reload' = FALSE
    /\ UNCHANGED <<serving, running, outstanding, urgent>>

\* The plugin goes and forgets what it asked for.
Leave ==
    /\ serving
    /\ serving' = FALSE
    /\ outstanding' = {}
    /\ urgent' = {}
    /\ UNCHANGED <<running, reload>>

Return ==
    /\ ~serving
    /\ serving' = TRUE
    /\ UNCHANGED <<running, outstanding, urgent, reload>>

Next ==
    \/ Ask \/ Reload \/ Leave \/ Return
    \/ \E a \in Items : Begin(a) \/ End(a)

Spec == Init /\ [][Next]_vars
=============================================================================
