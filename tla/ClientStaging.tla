--------------------------- MODULE ClientStaging ---------------------------
(***************************************************************************)
(* The client side of multiaddonmanager.cpp: how every client is brought,  *)
(* one addon at a time, to the list of addons it has to load, and what the *)
(* plugin believes about each client meanwhile (g_ClientAddons).           *)
(*                                                                         *)
(* All hooks and API calls run on the game thread, so each is one action;  *)
(* what interleaves is which hook fires next.  Clients are external: one   *)
(* enters the server only with what it was told to download on its disk,   *)
(* but it may retry, give up or come back at any moment.                   *)
(***************************************************************************)
EXTENDS Naturals, Sequences, FiniteSets, Functions

CONSTANTS
    Clients,        \* Steam IDs of the clients (never 0)
    Global,         \* Steam ID 0, whose record serves the global list
    Addons,         \* workshop IDs
    Rss,            \* g_RssAssetAddonIds
    None,           \* the empty string: no addon
    Maps,           \* the workshop maps the server may run, or None
    ExtraAddons,    \* m_ExtraAddons
    Mountable,      \* those of ExtraAddons the server has on its disk
    GlobalAddons,   \* mm_client_extra_addons when the server starts
    Listable,       \* bound: the addons other plugins list and unlist
    ExtraTimeout,   \* mm_extra_addons_timeout
    ConnTimeout,    \* mm_addon_connection_timeout, 0 disables
    CacheOn,        \* mm_cache_clients_with_addons
    CacheDuration,  \* mm_cache_clients_duration, 0 is forever
    MaxAge,         \* bound: ages are not told apart beyond this
    Prompt,         \* does a client that has everything enter within a tick?
    Events          \* the events of the environment this instance allows

ASSUME AddonsAssumption ==
    /\ Rss \subseteq Addons
    /\ Listable \subseteq Addons
    /\ None \notin Addons
    /\ Maps \subseteq Addons \cup {None}
    /\ {ExtraAddons, Mountable, GlobalAddons} \subseteq Seq(Addons)

ASSUME ClientsAssumption == Global \notin Clients

ASSUME TimeAssumption ==
    /\ {ExtraTimeout, ConnTimeout, CacheDuration, MaxAge} \subseteq Nat
    /\ MaxAge > ExtraTimeout /\ MaxAge > ConnTimeout /\ MaxAge > CacheDuration
    /\ {CacheOn, Prompt} \subseteq BOOLEAN

VARIABLES
    wsMap,          \* m_sCurrentWorkshopMap
    changing,       \* has the host state manager a pending request?
    serverAddons,   \* the addon string of the running CNetworkGameServer
    mounted,        \* m_MountedAddons
    globalAddons,   \* m_GlobalClientAddons
    optOut,         \* m_RssAssetOptOutClients
    timedOut,       \* m_TimedOutClients
    info,           \* g_ClientAddons
    phase,          \* how far each client has got
    told,           \* what the last message asks each client to download
    offer,          \* the addons of each client's last connection response
    installed       \* what each client has on its disk

serverVars == <<wsMap, changing, serverAddons, mounted>>
clientVars == <<phase, told, offer>>
vars == <<serverVars, globalAddons, optOut, timedOut, info, clientVars, installed>>

Phases == {"away", "offered", "ignored", "connected", "spawning", "reloading", "active"}

-----------------------------------------------------------------------------
(* Lists of addons *)

\* FindAndRemove, on lists without duplicates.
Without(s, a) ==
    IF a \in Range(s)
    THEN LET i == CHOOSE k \in DOMAIN s : s[k] = a
         IN  SubSeq(s, 1, i - 1) \o SubSeq(s, i + 1, Len(s))
    ELSE s

\* The first element of s that is in S.
First(s, S) ==
    s[CHOOSE i \in DOMAIN s : s[i] \in S /\ \A j \in 1..(i - 1) : s[j] \notin S]

\* Mutant: the empty workshop map is not told apart.
HostAddonsUnchecked(w) == <<w>> \o Without(ExtraAddons, w)

\* VectorToString(m_ExtraAddons) behind the workshop map of the request.
HostAddons(w) == IF w = None THEN ExtraAddons ELSE <<w>> \o Without(ExtraAddons, w)

\* GetClientAddons with bIncludeOptedOutRssAssets, before it drops duplicates:
\* they matter neither to membership nor to which element comes first.
AddonList(r) ==
    (IF wsMap = None THEN <<>> ELSE <<wsMap>>)
        \o mounted \o globalAddons
        \o (IF r = Global THEN <<>> ELSE info[r].toLoad)

Full(r) == Range(AddonList(r))

\* An opted-out client skips RSS assets, but never the workshop map.
Skips(r, a) == r \in optOut /\ a \in Rss /\ a # wsMap

\* Mutant: an opted-out client is staged like any other.
NeedIgnoresOptOut(r) == Full(r)

\* GetClientAddons.
Need(r) == {a \in Full(r) : ~Skips(r, a)}

Missing(r) == Need(r) \ info[r].downloaded

-----------------------------------------------------------------------------
NewRecord == [idle |-> MaxAge, toLoad |-> <<>>, downloaded |-> {},
              pending |-> None, state |-> "NONE", waiting |-> 0]

Init ==
    /\ wsMap \in Maps
    /\ changing = FALSE
    /\ serverAddons = HostAddons(wsMap)
    /\ mounted = Without(Mountable, wsMap)
    /\ globalAddons = GlobalAddons
    /\ optOut \in SUBSET Clients
    /\ timedOut = {}
    /\ info = [r \in Clients \cup {Global} |-> NewRecord]
    /\ phase = [c \in Clients |-> "away"]
    /\ told = [c \in Clients |-> {}]
    /\ offer = [c \in Clients |-> {}]
    /\ installed \in [Clients -> SUBSET Addons]

\* The clients in the engine's list.
InServer == {c \in Clients : phase[c] # "away"}

\* What the connection handlers leave alone.
Unchanged == UNCHANGED <<serverVars, globalAddons, optOut>>

-----------------------------------------------------------------------------
(* Hook_ReplyConnection, which answers every connection attempt, the retries *)
(* of a client that is downloading and its reconnects included.              *)

Arrives(c) ==
    /\ ~changing
    /\ phase[c] \in {"away", "offered", "ignored", "reloading"}

\* The record once the cache has expired, if it has, and the client was seen.
Seen(c) ==
    IF CacheOn /\ CacheDuration # 0 /\ info[c].idle > CacheDuration
    THEN [info[c] EXCEPT !.pending = None, !.downloaded = {}, !.idle = 0]
    ELSE [info[c] EXCEPT !.idle = 0]

Reply(c, record, staged, all) ==
    /\ info' = [info EXCEPT ![c] = record]
    /\ phase' = [phase EXCEPT ![c] = "offered"]
    /\ told' = [told EXCEPT ![c] = staged]
    /\ offer' = [offer EXCEPT ![c] = all]
    /\ Unchanged
    /\ UNCHANGED <<timedOut, installed>>

\* Nothing is required.  An opted-out client is still given the full list, to
\* mount what it has; any other gets the server's own answer.
ReplyWithoutStaging(c) ==
    /\ Arrives(c)
    /\ Need(c) = {}
    /\ LET record == [Seen(c) EXCEPT !.pending = None]
       IN  IF Full(c) = {}
           THEN Reply(c, record, Range(serverAddons), Range(serverAddons))
           ELSE Reply(c, record, {}, Full(c))

TooLate(c) ==
    /\ ConnTimeout > 0
    /\ info[c].state = "CONNECTING"
    /\ info[c].waiting > ConnTimeout

\* Mutant: the client is not queued for the next frame.
ForgetTimedOutClient(c) == UNCHANGED timedOut

AddTimedOutClient(c) == timedOut' = timedOut \cup {c}

\* The attempt has lasted too long: no answer, and GameFrame disconnects.
ReplyTimesOut(c) ==
    /\ Arrives(c)
    /\ Need(c) # {}
    /\ TooLate(c)
    /\ info' = [info EXCEPT ![c] = Seen(c)]
    /\ AddTimedOutClient(c)
    /\ phase' = [phase EXCEPT ![c] = "ignored"]
    /\ Unchanged
    /\ UNCHANGED <<told, offer, installed>>

\* Mutants of Staged: the pending addon is not named; nothing is held back.
StagedWithoutPending(c, downloaded, pending) == Need(c) \cap downloaded
StagedAll(c, downloaded, pending) == Need(c)

Staged(c, downloaded, pending) ==
    {a \in Need(c) : a \in downloaded \/ a = pending}

\* Mutant: an opted-out client is not given the RSS assets it skips.
FastMountForgotten(c) == {}

FastMount(c) == IF c \in optOut THEN Full(c) \cap Rss ELSE {}

\* The answer names what the client is believed to have and the one addon it
\* is to download now; an opted-out client also mounts the RSS assets it has.
ReplyStages(c) ==
    /\ Arrives(c)
    /\ Need(c) # {}
    /\ ~TooLate(c)
    /\ LET seen    == Seen(c)
           head    == First(AddonList(c), Need(c))
           pending == IF head \in seen.downloaded THEN seen.pending ELSE head
           staged  == Staged(c, seen.downloaded, pending)
       IN  Reply(c, [seen EXCEPT !.pending = pending, !.state = "CONNECTING"],
                 staged, staged \cup FastMount(c))

-----------------------------------------------------------------------------
(* Hook_ClientConnect, CheckClientAddons                                     *)

\* What the opted-out branch marks: the pending addon unless it is an RSS
\* asset, and the skipped assets if nothing at all is left in the full list.
Shortcut(c) ==
    LET p       == info[c].pending
        rest    == Full(c) \ {p}
        skipped == {a \in rest : a \in Rss /\ a # wsMap}
    IN  IF c \in optOut /\ Missing(c) = {}
        THEN ({p} \ Rss) \cup (IF rest = {} THEN skipped ELSE {})
        ELSE {}

\* Mutants of InTime: the timeout, then the opt-out, is not looked at.
AnyTime(c) == {p \in {info[c].pending} : c \notin optOut \/ p \notin Rss}
InTimeIgnoresOptOut(c) == {p \in {info[c].pending} : info[c].idle <= ExtraTimeout}

\* What the pending addon is marked for when the client came back in time.
InTime(c) ==
    {p \in {info[c].pending} : /\ info[c].idle <= ExtraTimeout
                               /\ c \notin optOut \/ p \notin Rss}

ClientConnect(c) ==
    /\ ~changing
    /\ phase[c] = "offered"
    /\ told[c] \subseteq installed[c]
    /\ LET joined == [info[c] EXCEPT !.state = "JOINED", !.waiting = 0]
           marked == IF info[c].pending = None THEN {}
                     ELSE Shortcut(c) \cup InTime(c)
       IN  info' = [info EXCEPT ![c] =
               IF Full(c) = {} THEN joined
               ELSE [joined EXCEPT !.downloaded = @ \cup marked,
                                   !.pending = None, !.idle = 0]]
    /\ phase' = [phase EXCEPT ![c] = "connected"]
    /\ Unchanged
    /\ UNCHANGED <<timedOut, told, offer, installed>>

-----------------------------------------------------------------------------
(* Hook_SendNetMessage                                                       *)

\* Mutant: one addon may still be missing.
NearlyComplete(c) == Cardinality(Missing(c)) <= 1

Complete(c) == Missing(c) = {}

\* A signon message while something is missing becomes a request to reload
\* with the first missing addon...
SendSignonRedirects(c) ==
    /\ ~changing
    /\ phase[c] \in {"connected", "spawning"}
    /\ ~Complete(c)
    /\ LET next == First(AddonList(c), Missing(c))
       IN  /\ info' = [info EXCEPT ![c] =
                          [info[c] EXCEPT !.pending = next, !.idle = 0]]
           /\ told' = [told EXCEPT ![c] = {next}]
    /\ phase' = [phase EXCEPT ![c] = "reloading"]
    /\ Unchanged
    /\ UNCHANGED <<timedOut, offer, installed>>

\* A pending addon left over when nothing is missing counts as downloaded.
Leftover(c) == IF c \in optOut THEN {} ELSE {info[c].pending} \ {None}

\* ... and passes unchanged when nothing is.
SendSignonPasses(c) ==
    /\ ~changing
    /\ phase[c] \in {"connected", "spawning"}
    /\ Complete(c)
    /\ info' = [info EXCEPT ![c] =
           [info[c] EXCEPT !.pending = None, !.idle = 0,
                           !.downloaded = @ \cup Leftover(c)]]
    /\ phase' = [phase EXCEPT ![c] = "spawning"]
    /\ Unchanged
    /\ UNCHANGED <<timedOut, told, offer, installed>>

\* Any other message shows that the client is alive.
SendMessage(c) ==
    /\ phase[c] # "away"
    /\ info' = [info EXCEPT ![c] = [info[c] EXCEPT !.idle = 0]]
    /\ Unchanged
    /\ UNCHANGED <<timedOut, clientVars, installed>>

\* Hook_SetPendingHostStateRequest: a map with or without a workshop ID, or a
\* changelevel that keeps the one there is.
RequestMap(w) ==
    /\ "map" \in Events
    /\ ~changing
    /\ wsMap' = w
    /\ changing' = TRUE
    /\ UNCHANGED <<serverAddons, mounted, globalAddons, optOut, timedOut, info,
                   clientVars, installed>>

\* Mutant: the message goes out unfiltered.
LevelAddonsUnfiltered(list, c) == Range(list)

\* What the hook leaves of the list in a CHANGELEVEL message, of which the first
\* is sent and becomes pending.
LevelAddons(list, c) == {a \in Range(list) : ~Skips(c, a)}

LevelHead(list, c) ==
    IF LevelAddons(list, c) = {} THEN None ELSE First(list, LevelAddons(list, c))

\* Every client in the server is told to change level.
TellLevel(list) ==
    /\ info' = [r \in Clients \cup {Global} |->
           IF r \in InServer
           THEN [info[r] EXCEPT !.pending = LevelHead(list, r), !.idle = 0]
           ELSE info[r]]
    /\ phase' = [c \in Clients |-> IF c \in InServer THEN "reloading" ELSE phase[c]]
    /\ told' = [c \in Clients |->
           IF c \in InServer THEN {LevelHead(list, c)} \ {None} ELSE told[c]]

\* Mutant: the timed-out clients of the last server are kept.
StartupServerKeepsTimedOut ==
    /\ serverAddons' = HostAddons(wsMap)
    /\ mounted' = Without(Mountable, wsMap)
    /\ UNCHANGED timedOut

StartupServer ==
    /\ serverAddons' = HostAddons(wsMap)
    /\ mounted' = Without(Mountable, wsMap)
    /\ timedOut' = {}

\* The engine tells every client to change level, and Hook_StartupServer runs
\* for the next server; no connection is served in between.
ChangeLevel ==
    /\ changing
    /\ TellLevel(HostAddons(wsMap))
    /\ changing' = FALSE
    /\ StartupServer
    /\ UNCHANGED <<wsMap, globalAddons, optOut, offer, installed>>

-----------------------------------------------------------------------------
(* The other hooks of the game server                                        *)

Leaves(c, record) ==
    /\ info' = [info EXCEPT ![c] = record]
    /\ phase' = [phase EXCEPT ![c] = "away"]
    /\ told' = [told EXCEPT ![c] = {}]
    /\ offer' = [offer EXCEPT ![c] = {}]

\* Mutant: the connection attempt is not closed.
DisconnectedStillConnecting(c) == [info[c] EXCEPT !.idle = 0]

Disconnected(c) == [info[c] EXCEPT !.state = "NONE", !.waiting = 0, !.idle = 0]

\* Hook_ClientActive.
ClientActive(c) ==
    /\ ~changing
    /\ phase[c] = "spawning"
    /\ info' = [info EXCEPT ![c] =
           [info[c] EXCEPT !.downloaded = IF CacheOn THEN @ ELSE {}]]
    /\ phase' = [phase EXCEPT ![c] = "active"]
    /\ Unchanged
    /\ UNCHANGED <<timedOut, told, offer, installed>>

\* Hook_ClientDisconnect.
ClientDisconnect(c) ==
    /\ "leave" \in Events
    /\ phase[c] # "away"
    /\ Leaves(c, Disconnected(c))
    /\ Unchanged
    /\ UNCHANGED <<timedOut, installed>>

\* A client that never reached ClientConnect gives up, and no hook fires.
Abandon(c) ==
    /\ "leave" \in Events
    /\ phase[c] \in {"offered", "ignored"}
    /\ Leaves(c, info[c])
    /\ Unchanged
    /\ UNCHANGED <<timedOut, installed>>

\* Hook_GameFrame disconnects every timed-out client it finds in the list, upon
\* which the engine calls Hook_ClientDisconnect; the others stay in
\* m_TimedOutClients.
GameFrame ==
    /\ timedOut \cap InServer # {}
    /\ LET kicked == timedOut \cap InServer
       IN  /\ info' = [r \in Clients \cup {Global} |->
                  IF r \in kicked THEN Disconnected(r) ELSE info[r]]
           /\ phase' = [c \in Clients |-> IF c \in kicked THEN "away" ELSE phase[c]]
           /\ told' = [c \in Clients |-> IF c \in kicked THEN {} ELSE told[c]]
           /\ offer' = [c \in Clients |-> IF c \in kicked THEN {} ELSE offer[c]]
           /\ timedOut' = timedOut \ kicked
    /\ Unchanged
    /\ UNCHANGED installed

-----------------------------------------------------------------------------
(* The interface of imultiaddonmanager.h and the console commands            *)

OwnList(r) == IF r = Global THEN globalAddons ELSE info[r].toLoad

Relist(r, list, pending) ==
    /\ globalAddons' = IF r = Global THEN list ELSE globalAddons
    /\ info' = [info EXCEPT ![r] =
           [info[r] EXCEPT !.toLoad = IF r = Global THEN @ ELSE list,
                           !.pending = pending]]

\* AddClientAddon of an addon that is not listed yet, whose refresh, if it was
\* asked for, reaches nobody.
AddClientAddon(a, r) ==
    /\ "add" \in Events
    /\ a \notin Range(OwnList(r))
    /\ Relist(r, Append(OwnList(r), a), info[r].pending)
    /\ UNCHANGED <<serverVars, optOut, timedOut, clientVars, installed>>

\* What record r still misses once a is at the tail of its list.
MissingWith(r, a) ==
    Missing(r) \cup (IF Skips(r, a) THEN {} ELSE {a} \ info[r].downloaded)

\* The refresh tells client c, the one named by r or the first of the list, to
\* reload with a; what becomes pending, in record r, is the first missing addon.
\* The loop then stops: at the named client, or at the now pending record 0.
AddClientAddonRefreshes(a, r, c) ==
    /\ "refresh" \in Events
    /\ a \notin Range(OwnList(r))
    /\ r \in {c, Global}
    /\ phase[c] \notin {"away", "reloading"}
    /\ info[r].pending = None
    /\ MissingWith(r, a) # {}
    /\ LET head == IF Missing(r) = {} THEN a ELSE First(AddonList(r), Missing(r))
       IN  Relist(r, Append(OwnList(r), a), head)
    /\ phase' = [phase EXCEPT ![c] = "reloading"]
    /\ told' = [told EXCEPT ![c] = {a}]
    /\ UNCHANGED <<serverVars, optOut, timedOut, offer, installed>>

RemoveClientAddon(a, r) ==
    /\ "remove" \in Events
    /\ Relist(r, Without(OwnList(r), a), info[r].pending)
    /\ UNCHANGED <<serverVars, optOut, timedOut, clientVars, installed>>

ClearClientAddons(r) ==
    /\ "remove" \in Events
    /\ Relist(r, <<>>, info[r].pending)
    /\ UNCHANGED <<serverVars, optOut, timedOut, clientVars, installed>>

\* What ON forgets; the mutant leaves the pending addon.
ForgetsOnlyDownloads(record) == [record EXCEPT !.downloaded = @ \ Rss]

ForgetRss(record) ==
    [record EXCEPT !.downloaded = @ \ Rss, !.pending = IF @ \in Rss THEN None ELSE @]

\* A change the preference store has persisted (module RssPreferences): ON
\* forgets what was believed of the RSS assets.
SetClientRssAssetsEnabled(c, enabled) ==
    /\ "prefer" \in Events
    /\ enabled # (c \notin optOut)
    /\ optOut' = IF enabled THEN optOut \ {c} ELSE optOut \cup {c}
    /\ info' = IF enabled THEN [info EXCEPT ![c] = ForgetRss(info[c])] ELSE info
    /\ UNCHANGED <<serverVars, globalAddons, timedOut, clientVars, installed>>

-----------------------------------------------------------------------------
(* The environment: Steam on the client's side, and time                     *)

Download(c, a) ==
    /\ a \in told[c] \ installed[c]
    /\ installed' = [installed EXCEPT ![c] = @ \cup {a}]
    /\ Unchanged
    /\ UNCHANGED <<timedOut, info, clientVars>>

Older(age) == IF age < MaxAge THEN age + 1 ELSE age

\* A client that is prompt enters the server before it is late.
Tick ==
    /\ "time" \in Events
    /\ Prompt => \A c \in Clients : ~(phase[c] = "offered" /\ told[c] \subseteq installed[c])
    /\ info' = [r \in Clients \cup {Global} |->
           [info[r] EXCEPT
               !.idle = Older(@),
               !.waiting = IF info[r].state = "CONNECTING" THEN Older(@) ELSE @]]
    /\ Unchanged
    /\ UNCHANGED <<timedOut, clientVars, installed>>

Connection(c) ==
    \/ ReplyWithoutStaging(c) \/ ReplyTimesOut(c) \/ ReplyStages(c)
    \/ ClientConnect(c)
    \/ SendSignonRedirects(c) \/ SendSignonPasses(c) \/ SendMessage(c)
    \/ ClientActive(c)
    \/ ClientDisconnect(c) \/ Abandon(c)
    \/ \E a \in Addons : Download(c, a)

Api ==
    \/ \E a \in Listable, r \in Clients \cup {Global} :
          \/ AddClientAddon(a, r)
          \/ \E c \in Clients : AddClientAddonRefreshes(a, r, c)
          \/ RemoveClientAddon(a, r)
    \/ \E r \in Clients \cup {Global} : ClearClientAddons(r)
    \/ \E c \in Clients, enabled \in BOOLEAN : SetClientRssAssetsEnabled(c, enabled)

Next ==
    \/ \E c \in Clients : Connection(c)
    \/ Api
    \/ \E w \in Maps : RequestMap(w)
    \/ ChangeLevel
    \/ GameFrame
    \/ Tick

Spec == Init /\ [][Next]_vars

\* A client that keeps trying is answered, enters once it has what it was told
\* to download, is sent its signon messages and becomes active; frames are run
\* and a level change that was announced is carried out.  A download that is
\* asked for again and again, although attempts time out, completes.
Fairness ==
    /\ WF_vars(GameFrame)
    /\ WF_vars(ChangeLevel)
    /\ \A c \in Clients :
        /\ WF_vars(ReplyWithoutStaging(c) \/ ReplyTimesOut(c) \/ ReplyStages(c))
        /\ WF_vars(ClientConnect(c))
        /\ WF_vars(SendSignonRedirects(c) \/ SendSignonPasses(c))
        /\ WF_vars(ClientActive(c))
        /\ \A a \in Addons : SF_vars(Download(c, a))

FairSpec == Spec /\ Fairness

-----------------------------------------------------------------------------
(* Properties *)

Ages == 0..MaxAge

Records ==
    [idle : Ages, toLoad : Seq(Addons), downloaded : SUBSET Addons,
     pending : Addons \cup {None}, state : {"NONE", "CONNECTING", "JOINED"},
     waiting : Ages]

TypeOK ==
    /\ wsMap \in Maps
    /\ changing \in BOOLEAN
    /\ serverAddons \in Seq(Addons)
    /\ mounted \in Seq(Addons)
    /\ globalAddons \in Seq(Addons)
    /\ optOut \in SUBSET Clients
    /\ timedOut \in SUBSET Clients
    /\ info \in [Clients \cup {Global} -> Records]
    /\ phase \in [Clients -> Phases]
    /\ told \in [Clients -> SUBSET Addons]
    /\ offer \in [Clients -> SUBSET Addons]
    /\ installed \in [Clients -> SUBSET Addons]

\* The plugin never sees a client's disk: "downloaded" is inferred from who
\* came back, and when.  While no addon leaves the lists and the map stays, the
\* inference is right, whatever is retried, abandoned, cached or switched
\* (workflow steps 3 and 4, multiaddonmanager.cpp:190-193).
BeliefSound == \A c \in Clients : info[c].downloaded \subseteq installed[c]

\* No client ever has two addons to fetch at once, which "puts the client in
\* limbo" (Hook_SendNetMessage) or fails its signature check
\* (Hook_ReplyConnection): of what it was told, it lacks one addon at most.
AtMostOneToFetch ==
    \A c \in Clients : Cardinality(told[c] \ installed[c]) <= 1

\* A client that becomes active has every addon it needs (the comment of
\* Hook_ClientActive).
ActiveHasAll ==
    [][\A c \in Clients : ClientActive(c) => Need(c) \subseteq installed[c]]_vars

\* ... and the connection response it entered with named the full list, the
\* RSS assets an opted-out client skipped included ("retaining their mounting
\* path", README.md), so that the client mounts what the server mounts.
ActiveMountsAll ==
    [][\A c \in Clients : ClientActive(c) => Full(c) \subseteq offer[c]]_vars

\* A client that reconnects after mm_extra_addons_timeout earns nothing.
LateReconnectEarnsNothing ==
    [][\A c \in Clients :
          ClientConnect(c) /\ info[c].idle > ExtraTimeout
              => info'[c].downloaded \subseteq info[c].downloaded]_vars

\* While a client is opted out nothing makes the plugin believe it acquired an
\* RSS asset, in whichever order toggles, lists and hooks come: the belief
\* would outlive the opt-out and hide the download it is owed when it is ON.
OptedOutNeverCredited ==
    [][\A c \in optOut :
          (info'[c].downloaded \ info[c].downloaded) \cap Rss = {}]_vars

\* No message asks an opted-out client to download an RSS asset other than the
\* workshop map (imultiaddonmanager.h: "OFF skips staged checks").
OptOutRespected ==
    [][\A c \in optOut : \A a \in told'[c] \ told[c] : a \in Rss => a = wsMap]_vars

\* GameFrame disconnects a client because its own attempt was left unanswered,
\* never a later attempt of the same Steam ID.
KickedIsUnanswered ==
    [][\A c \in Clients : c \in timedOut \ timedOut' /\ phase'[c] = "away"
          => phase[c] = "ignored"]_vars

\* A client left without an answer is not left hanging: it is disconnected and
\* can try again.
UnansweredIsDisconnected ==
    \A c \in Clients : phase[c] = "ignored" ~> phase[c] # "ignored"

\* Once maps stop changing, every client that keeps trying gets into the game and
\* stays, whatever attempts timed out and whatever was unlisted before.
EveryoneJoins == <>[]~changing => \A c \in Clients : <>[](phase[c] = "active")

\* imultiaddonmanager.h:54: "Pass a steamID value of 0 to perform the operation
\* on a global list instead, and bRefresh to 'true' to trigger a reconnect if
\* necessary".  False: only the first client of the list is told.
GlobalRefreshReachesEveryone ==
    [][\A a \in Addons, c \in Clients :
          AddClientAddonRefreshes(a, Global, c) =>
              \A d \in InServer : \/ phase'[d] = "reloading"
                                  \/ info[d].pending # None
                                  \/ Missing(d) \cup {a} \subseteq info[d].downloaded]_vars

\* The assertion of Hook_ReplyConnection's zero-list path.  False: the server's
\* own string names extra addons that are not mounted.
ZeroListMeansNoServerAddons ==
    [][\A c \in Clients :
          ReplyWithoutStaging(c) /\ Full(c) = {} => serverAddons = <<>>]_vars
=============================================================================
