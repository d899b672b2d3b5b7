--------------------------- MODULE ServerAddons ---------------------------
(***************************************************************************)
(* The server side of multiaddonmanager.cpp: the list of extra addons, the *)
(* addons mounted in the file system, the downloads asked of Steam, and    *)
(* the map reloads and host state requests that bring them together.       *)
(*                                                                         *)
(* Every handler is one action on the game thread.  External are Steam,    *)
(* which completes downloads; the engine, which runs server commands, takes *)
(* host state requests and starts servers; and whoever calls the interface.*)
(* A level is identified with the addon it lives in, a shipped map with    *)
(* None.                                                                   *)
(***************************************************************************)
EXTENDS Naturals, Sequences, FiniteSets, SequencesExt

CONSTANTS
    Addons,         \* workshop IDs and community map names
    None,           \* the empty string: no addon, or a shipped map
    Maps,           \* the levels the server may be asked to run
    Community,      \* those of Maps under OFFICIAL_ADDONS
    SharedNames,    \* the workshop maps that are named like a shipped map
    LegacyItems,    \* items with k_EItemStateLegacyItem
    NotFound,       \* items whose file is not where BuildAddonPath looks
    SingleFile,     \* items without the "_dir" suffix on the disk
    Lists,          \* the values mm_extra_addons may be given
    MountDownload,  \* mm_addon_mount_download
    Startable,      \* the possible sets of items DownloadItem accepts
    Results,        \* how a download may end: TRUE is k_EResultOK
    InOrder,        \* does Steam end downloads in the order they began?
    Calm,           \* does nothing come between a reload's command and its end?
    MaxCommands,    \* bound: the server commands waiting to be run
    Events          \* the events of the environment this instance allows

ASSUME AddonsAssumption ==
    /\ None \notin Addons
    /\ Maps \subseteq Addons \cup {None}
    /\ Community \subseteq Maps \cap Addons
    /\ SharedNames \subseteq (Maps \cap Addons) \ Community
    /\ SharedNames # {} => None \in Maps
    /\ {LegacyItems, NotFound, SingleFile} \subseteq SUBSET Addons
    /\ Lists \subseteq Seq(Addons)

ASSUME SteamAssumption ==
    /\ Startable \subseteq SUBSET Addons
    /\ Results \subseteq BOOLEAN
    /\ {InOrder, Calm, MountDownload} \subseteq BOOLEAN
    /\ MaxCommands \in Nat

VARIABLES
    loaded,         \* is the plugin loaded, its hooks and its callback in place?
    astray,         \* history: no request has named its map to the plugin since it
                    \* was loaded into a running server, or since one it took to
                    \* stay on its map led elsewhere
    steamUp,        \* is GetSteamUGC() there, and OnAddonDownloaded registered?
    extra,          \* m_ExtraAddons
    mounted,        \* m_MountedAddons
    paths,          \* the addons on the GAME search path, the first searched last
    queue,          \* m_DownloadQueue
    important,      \* m_ImportantDownloads
    downloading,    \* the downloads Steam is working on
    installed,      \* the items with k_EItemStateInstalled
    wsMap,          \* m_sCurrentWorkshopMap
    level,          \* gpGlobals->mapname
    serverAddons,   \* the addons the running server was started with
    request,        \* the pending host state request, or NoRequest
    commands        \* the server commands waiting to be run

fileVars == <<mounted, paths>>
loadVars == <<queue, important, downloading>>
hostVars == <<wsMap, level, serverAddons, request>>
pluginVars == <<loaded, astray, steamUp>>
vars == <<pluginVars, extra, fileVars, loadVars, installed, hostVars, commands>>

NoRequest == [level |-> None, addons |-> <<>>, pending |-> FALSE]

\* Mutant: the empty string is taken for an addon.
OwnUnchecked(m) == <<m>>

\* The addons the engine itself gives a level.
Own(m) == IF m = None THEN <<>> ELSE <<m>>

\* What a library that is loaded knows, and one that is gone leaves.
Fresh ==
    [extra |-> <<>>, mounted |-> <<>>, queue |-> <<>>, important |-> {}, wsMap |-> None]

\* A server starts with the plugin and runs its configuration before Steam comes
\* up, or it has been running without the plugin.
Init ==
    /\ loaded \in BOOLEAN
    /\ "reload" \in Events \/ loaded
    /\ astray = FALSE
    /\ steamUp = ~loaded
    /\ IF loaded THEN extra \in Lists ELSE extra = Fresh.extra
    /\ mounted = Fresh.mounted /\ paths = <<>>
    /\ queue = Fresh.queue /\ important = Fresh.important /\ downloading = <<>>
    /\ installed \in SUBSET Addons
    /\ level \in Maps
    /\ wsMap = IF loaded THEN level ELSE Fresh.wsMap
    /\ serverAddons = Own(level)
    /\ request = NoRequest
    /\ commands = <<>>

\* The environment acts only while there is room for one more command and, if
\* it is calm, no reload is under way.
Free ==
    /\ Len(commands) < MaxCommands
    /\ Calm => commands = <<>> /\ ~request.pending

\* Somebody calls the plugin.
Called(event) == event \in Events /\ loaded /\ Free

\* The elements of a list that are in S, in their order.
Kept(s, S) ==
    LET kept[n \in 0..Len(s)] ==
            IF n = 0 THEN <<>>
            ELSE IF s[n] \in S THEN Append(kept[n - 1], s[n]) ELSE kept[n - 1]
    IN  kept[Len(s)]

-----------------------------------------------------------------------------
(* DownloadAddon, MountAddon, UnmountAddon, RefreshAddons as functions of the *)
(* state they change; "starts" is what DownloadItem accepts meanwhile.        *)

Files == [mounted |-> mounted, paths |-> paths, queue |-> queue,
          important |-> important, downloading |-> downloading, all |-> TRUE]

\* DownloadAddon: nothing is asked twice, and nothing without need.
StartDownload(f, a, bImportant, bForce, starts) ==
    IF \/ a \in Range(f.queue)
       \/ a \in installed /\ ~bForce
       \/ a \notin starts
    THEN f
    ELSE [f EXCEPT
             !.queue = Append(@, a),
             !.important = IF bImportant THEN @ \cup {a} ELSE @,
             !.downloading = IF a \in Range(@) THEN @ ELSE Append(@, a)]

\* Mutant: an update of an installed addon reloads the map as well.
UpdateDownloadImportant(f, a, starts) == StartDownload(f, a, TRUE, TRUE, starts)

\* The update that mm_addon_mount_download asks for.
UpdateDownload(f, a, starts) ==
    IF MountDownload THEN StartDownload(f, a, FALSE, TRUE, starts) ELSE f

\* Mutant: the search path goes to the tail.
OnPathTail(f, a) ==
    [f EXCEPT !.paths = <<a>> \o @, !.mounted = Append(@, a)]

OnPath(f, a) ==
    [f EXCEPT !.paths = Append(@, a), !.mounted = Append(@, a)]

\* MountAddon; "all" records whether every call so far has returned true.
MountAddon(f, a, starts) ==
    LET failed == [f EXCEPT !.all = FALSE]
    IN  IF a = wsMap \/ a \in LegacyItems
        THEN failed
        ELSE IF a \notin installed
        THEN StartDownload(failed, a, TRUE, TRUE, starts)
        ELSE LET g == UpdateDownload(f, a, starts)
             IN  IF a \in NotFound \/ a \in Range(f.mounted)
                 THEN [g EXCEPT !.all = FALSE]
                 ELSE OnPath(g, a)

\* FindAndFastRemove: the last element takes the place of the one removed.
FastRemove(s, a) ==
    LET i == CHOOSE k \in DOMAIN s : s[k] = a
        n == Len(s)
    IN  SubSeq([s EXCEPT ![i] = s[n]], 1, n - 1)

\* UnmountAddon: RemoveSearchPath fails for a path without the "_dir" suffix.
UnmountAddon(f, a) ==
    IF a \in SingleFile THEN f
    ELSE [f EXCEPT !.paths = Kept(@, Addons \ {a}),
                   !.mounted = FastRemove(@, a)]

\* The loop runs from the back of the list.
UnmountAll(f) ==
    LET n == Len(f.mounted)
        after[k \in 0..n] ==
            IF k = 0 THEN f ELSE UnmountAddon(after[k - 1], f.mounted[n + 1 - k])
    IN  after[n]

\* RefreshAddons mounts the list in its order on a cleared search path.
Remounted(list, starts) ==
    LET after[k \in 0..Len(list)] ==
            IF k = 0 THEN UnmountAll(Files) ELSE MountAddon(after[k - 1], list[k], starts)
    IN  after[Len(list)]

\* ReloadMap: a workshop map is loaded afresh, any other by a level change.
ReloadMap ==
    IF wsMap = None \/ wsMap \in Community
    THEN [name |-> "changelevel", level |-> level]
    ELSE [name |-> "host_workshop_map", level |-> wsMap]

Become(f) ==
    /\ mounted' = f.mounted
    /\ paths' = f.paths
    /\ queue' = f.queue
    /\ important' = f.important
    /\ downloading' = f.downloading

\* RefreshAddons, of the list as it is by then.
Refresh(list, bReloadMap) ==
    IF ~steamUp'
    THEN UNCHANGED <<fileVars, loadVars, commands>>
    ELSE \E starts \in Startable :
            LET f == Remounted(list, starts)
            IN  /\ Become(f)
                /\ commands' = IF f.all /\ bReloadMap THEN Append(commands, ReloadMap)
                               ELSE commands

-----------------------------------------------------------------------------
(* The interface, the console commands and the mm_extra_addons callback      *)

SetExtraAddons(list) ==
    /\ Called("cvar")
    /\ extra' = list
    /\ UNCHANGED <<pluginVars, installed, hostVars>>
    /\ Refresh(list, FALSE)

AddAddon(a, bRefresh) ==
    /\ Called("list")
    /\ a \notin Range(extra)
    /\ extra' = Append(extra, a)
    /\ UNCHANGED <<pluginVars, installed, hostVars>>
    /\ IF bRefresh THEN Refresh(extra', FALSE)
       ELSE UNCHANGED <<fileVars, loadVars, commands>>

RemoveAddon(a, bRefresh) ==
    /\ Called("unlist")
    /\ a \in Range(extra)
    /\ LET i == CHOOSE k \in DOMAIN extra :
                    extra[k] = a /\ \A j \in 1..(k - 1) : extra[j] # a
       IN  extra' = RemoveAt(extra, i)
    /\ UNCHANGED <<pluginVars, installed, hostVars>>
    /\ IF bRefresh THEN Refresh(extra', FALSE)
       ELSE UNCHANGED <<fileVars, loadVars, commands>>

ClearAddons ==
    /\ Called("unlist")
    /\ extra' = <<>>
    /\ Become(UnmountAll(Files))
    /\ UNCHANGED <<pluginVars, installed, hostVars, commands>>

RefreshAddons(bReloadMap) ==
    /\ Called("refresh")
    /\ UNCHANGED <<pluginVars, extra, installed, hostVars>>
    /\ Refresh(extra, bReloadMap)

\* Called by other plugins, and by mm_download_addon.
DownloadAddon(a, bImportant, bForce) ==
    /\ Called("download")
    /\ steamUp
    /\ \E starts \in Startable : Become(StartDownload(Files, a, bImportant, bForce, starts))
    /\ UNCHANGED <<pluginVars, extra, installed, hostVars, commands>>

-----------------------------------------------------------------------------
(* Steam *)

Hook_GameServerSteamAPIActivated ==
    /\ Free
    /\ ~steamUp
    /\ steamUp' = TRUE
    /\ UNCHANGED <<loaded, astray, extra, installed, hostVars>>
    /\ IF loaded THEN Refresh(extra, TRUE) ELSE UNCHANGED <<fileVars, loadVars, commands>>

\* The engine downloads an item by itself: a map it was asked to host.
EngineDownloads(a) ==
    /\ "engine" \in Events
    /\ steamUp
    /\ a \in Maps \ Range(downloading)
    /\ downloading' = Append(downloading, a)
    /\ UNCHANGED <<pluginVars, extra, fileVars, queue, important, installed, hostVars, commands>>

\* Mutant: the last important download goes unnoticed.
LastNeverDone(a) == FALSE

\* Was this the last important download?
LastImportantDone(a) == a \in important /\ important \ {a} = {}

\* Mutant: only a successful download leaves the queue.
DequeueSuccess(a, ok) == IF ok THEN Tail(queue) ELSE queue

\* m_DownloadQueue.RemoveAtHead, whatever was downloaded.
Dequeue(a, ok) == Tail(queue)

\* A download ends; the callback runs if the plugin is there, whoever asked for
\* the item and however it ended.
OnAddonDownloaded(a, ok) ==
    /\ Free
    /\ steamUp
    /\ a \in Range(downloading)
    /\ InOrder => a = Head(downloading)
    /\ downloading' = Kept(downloading, Addons \ {a})
    /\ installed' = IF ok THEN installed \cup {a} ELSE installed
    /\ IF ~loaded \/ a \notin Range(queue)
       THEN UNCHANGED <<queue, important, commands>>
       ELSE /\ queue' = Dequeue(a, ok)
            /\ important' = important \ {a}
            /\ commands' = IF LastImportantDone(a) THEN Append(commands, ReloadMap)
                           ELSE commands
    /\ UNCHANGED <<pluginVars, extra, fileVars, hostVars>>

-----------------------------------------------------------------------------
(* The host state manager *)

\* m_Addons as the engine sets it: a vote that reloads the current workshop map
\* leaves it empty.
EngineAddons(kind, m) ==
    IF kind = "vote" /\ m = level /\ m \notin Community THEN <<>> ELSE Own(m)

\* A changelevel keeps m_sCurrentWorkshopMap, wherever it leads, except for
\* community maps; so does a vote that reloads the current map, if no shipped map
\* has its name.
KeepsMap(kind, m) ==
    \/ kind = "changelevel" /\ m \notin Community
    \/ kind = "vote" /\ m = level /\ m \notin Community \cup SharedNames \cup {None}

\* Mutant: a shipped map keeps the last workshop map's addon.
WorkshopMapSticks(kind, m) == IF m = None THEN wsMap ELSE m

\* What a request leaves in m_sCurrentWorkshopMap.
WorkshopMap(kind, m) ==
    IF KeepsMap(kind, m) THEN wsMap
    ELSE IF EngineAddons(kind, m) = <<>> THEN None ELSE m

\* The requests whose map the plugin gets wrong: a changelevel to another level,
\* and a reload of a workshop map it takes for the shipped map of that name.
Strays(kind, m) ==
    \/ kind = "changelevel" /\ m # level /\ m \notin Community
    \/ kind = "vote" /\ m = level /\ m \in SharedNames

\* m_Addons as the hook leaves it: the extra addons, if there are any, behind the
\* workshop map, which is not named twice.
HostAddons(given, map) ==
    IF extra = <<>> THEN given
    ELSE IF map = None THEN extra
    ELSE <<map>> \o
         (IF map \in Range(extra)
          THEN RemoveAt(extra, CHOOSE i \in DOMAIN extra :
                   extra[i] = map /\ \A j \in 1..(i - 1) : extra[j] # map)
          ELSE extra)

Hook_SetPendingHostStateRequest(kind, m) ==
    /\ wsMap' = WorkshopMap(kind, m)
    /\ astray' = (Strays(kind, m) \/ (astray /\ KeepsMap(kind, m)))
    /\ request' = [level |-> m, addons |-> HostAddons(EngineAddons(kind, m), wsMap'),
                   pending |-> TRUE]

\* The engine takes a request, through the hook if the plugin is there.
Ask(kind, m) ==
    /\ \/ loaded /\ Hook_SetPendingHostStateRequest(kind, m)
       \/ /\ ~loaded
          /\ request' = [level |-> m, addons |-> EngineAddons(kind, m), pending |-> TRUE]
          /\ UNCHANGED <<wsMap, astray>>
    /\ UNCHANGED <<loaded, steamUp, extra, fileVars, loadVars, installed, level, serverAddons>>

\* The engine runs the next server command.
RunCommand ==
    /\ commands # <<>>
    /\ Calm => ~request.pending
    /\ commands' = Tail(commands)
    /\ LET c == Head(commands)
       IN  Ask(IF c.name = "changelevel" THEN "changelevel" ELSE "map", c.level)

\* An operator, the players or the end of the match choose a map, which may be
\* the current one again.
ChooseMap(kind, m) ==
    /\ "map" \in Events
    /\ Free
    /\ Ask(kind, m)
    /\ UNCHANGED commands

\* Mutant: the extra addons are not mounted afresh.
StartupServerKeepsMounts == UNCHANGED <<fileVars, loadVars, commands>>

\* What Hook_StartupServer does to the file system.
StartupServerMounts == Refresh(extra, FALSE)

Hook_StartupServer ==
    /\ request.pending
    /\ level' = request.level
    /\ serverAddons' = request.addons
    /\ request' = NoRequest
    /\ UNCHANGED <<pluginVars, extra, installed, wsMap>>
    /\ IF loaded THEN StartupServerMounts ELSE UNCHANGED <<fileVars, loadVars, commands>>

-----------------------------------------------------------------------------
(* Load and Unload *)

\* The plugin is loaded into a running server: its hooks are in place from now
\* on, but what it has missed it does not ask for.  A Load that cannot find its
\* functions and tables leaves all as it was.
Load ==
    /\ "reload" \in Events
    /\ Free
    /\ ~loaded
    /\ loaded' = TRUE
    /\ astray' = TRUE
    /\ UNCHANGED <<steamUp, extra, fileVars, loadVars, installed, hostVars, commands>>

\* Mutant: the addons stay mounted when the plugin goes.
UnloadKeepsPaths == paths

\* ClearAddons unmounts what it can.
UnloadedPaths == UnmountAll(Files).paths

\* The library goes with all it knew, the callback included; a calm operator
\* waits for Steam.
Unload ==
    /\ Called("reload")
    /\ Calm => downloading = <<>>
    /\ loaded' = FALSE
    /\ astray' = FALSE
    /\ paths' = UnloadedPaths
    /\ extra' = Fresh.extra
    /\ mounted' = Fresh.mounted
    /\ queue' = Fresh.queue
    /\ important' = Fresh.important
    /\ wsMap' = Fresh.wsMap
    /\ UNCHANGED <<steamUp, downloading, installed, level, serverAddons, request, commands>>

Interface ==
    \/ \E list \in Lists : SetExtraAddons(list)
    \/ \E a \in Addons, b \in BOOLEAN : AddAddon(a, b) \/ RemoveAddon(a, b)
    \/ ClearAddons
    \/ \E b \in BOOLEAN : RefreshAddons(b)
    \/ \E a \in Addons, i \in BOOLEAN, f \in BOOLEAN : DownloadAddon(a, i, f)

Steam ==
    \/ Hook_GameServerSteamAPIActivated
    \/ \E a \in Addons : EngineDownloads(a)
    \/ \E a \in Addons, ok \in Results : OnAddonDownloaded(a, ok)

Next ==
    \/ Interface
    \/ Steam
    \/ RunCommand
    \/ \E kind \in {"map", "vote", "changelevel"}, m \in Maps : ChooseMap(kind, m)
    \/ Hook_StartupServer
    \/ Load \/ Unload

Spec == Init /\ [][Next]_vars

\* Steam comes up and ends what it began, and the engine runs its commands and
\* starts the servers it is asked for.
Fairness ==
    /\ WF_vars(Hook_GameServerSteamAPIActivated)
    /\ \A a \in Addons : WF_vars(\E ok \in Results : OnAddonDownloaded(a, ok))
    /\ WF_vars(RunCommand)
    /\ WF_vars(Hook_StartupServer)

FairSpec == Spec /\ Fairness

-----------------------------------------------------------------------------
(* Properties *)

Requests == [level : Maps \cup {None}, addons : Seq(Addons), pending : BOOLEAN]

Commands == [name : {"changelevel", "host_workshop_map"}, level : Maps]

TypeOK ==
    /\ {loaded, astray, steamUp} \subseteq BOOLEAN
    /\ {extra, mounted, paths, queue, downloading, serverAddons} \subseteq Seq(Addons)
    /\ important \in SUBSET Addons
    /\ installed \in SUBSET Addons
    /\ {wsMap, level} \subseteq Maps \cup {None}
    /\ request \in Requests
    /\ commands \in Seq(Commands)

\* m_MountedAddons, from which the clients' lists are made, names the addons in
\* the order the server searches them, through any sequence of list changes and
\* remounts ("to replicate the behavior on clients, where they mount addons in
\* the string order", Hook_StartupServer).
MountOrderIsSearchOrder == mounted = paths

\* The queue follows Steam: an item in it is still being downloaded, and an
\* important one is still in it.  An entry that outlives its download can never
\* be downloaded again ("already queued"), an important one blocks every later
\* reload.
QueueFollowsSteam ==
    /\ important \subseteq Range(queue)
    /\ Range(queue) \subseteq Range(downloading)

\* The queue keeps the promise of module DownloadService: whoever asks for an
\* addon is served when this addon has ended, and the reload that shows the
\* important ones comes with the last of them (DownloadAddon: "bImportant adds
\* downloads to the pending list, which will reload the current map once the
\* list is exhausted").
Service == INSTANCE DownloadService WITH
    Items <- Addons,
    serving <- loaded,
    running <- Range(downloading),
    outstanding <- Range(queue),
    urgent <- important,
    reload <- commands # <<>>

ServesDownloads == Service!Spec

\* A server starts with the workshop map it runs recorded, whether an operator, a
\* vote, the end of the match or a reload asked for it and however often its list
\* changed meanwhile, once a request has named its map and until one leads astray
\* (Hook_SetPendingHostStateRequest).
LevelHasItsAddon == [][Hook_StartupServer /\ loaded /\ ~astray => wsMap' = level']_vars

Usable(a) == a \notin LegacyItems \cup NotFound

\* What the server can mount of a list.
Mountable == {a \in installed : Usable(a) /\ a # wsMap}

\* A start of the server leaves mounted what it tells the clients to mount, in
\* the same order: all but the workshop map and what cannot be mounted yet.  With
\* no extra addons there is nothing to mount.
MountsAsTold ==
    Hook_StartupServer /\ loaded /\ steamUp =>
        mounted' = IF extra = <<>> THEN <<>> ELSE Kept(serverAddons', Mountable)

\* What the server mounts when it starts is what its clients are told.
ServerMountsWhatItTells == [][MountsAsTold]_vars

\* "Addons will be downloaded (if not present) and mounted" (the help text of
\* mm_extra_addons): an addon that stays on the list ends up mounted.
EveryExtraIsMounted ==
    \A a \in Addons :
        <>[](a \in Range(extra) /\ Usable(a)) => <>[](a \in Range(mounted) \/ a = wsMap)

\* Once lists and maps are left alone, the server stops reloading its map.
ReloadsStop == <>[](commands = <<>> /\ ~request.pending)

\* DownloadAddon, multiaddonmanager.cpp:584: "bImportant adds downloads to the
\* pending list, which will reload the current map once the list is exhausted".
\* When Steam has nothing left to do the list is exhausted.  False: the callback
\* takes the head off the queue, whichever item was downloaded.
FinishedListIsExhausted == downloading = <<>> => important = {}
=============================================================================
