------------------------------- MODULE Plugin -------------------------------
(***************************************************************************)
(* The plugin as a whole: the server side of module ServerAddons and the   *)
(* client side of module ClientStaging over the state they share: the      *)
(* mounted addons, from which every client's list is made, the workshop    *)
(* map, the addon string of the server and the pending request.            *)
(*                                                                         *)
(* Each step is a step of one side that leaves the other side's state      *)
(* alone, except that a server start tells the clients of the old server   *)
(* to change level: that is one step of both.                              *)
(***************************************************************************)
EXTENDS Naturals, Sequences, FiniteSets

CONSTANTS
    \* shared
    Addons, None, Maps,
    \* of ServerAddons
    Community, SharedNames, LegacyItems, NotFound, SingleFile, Lists, MountDownload, Startable,
    Results, InOrder, Calm, MaxCommands, ServerEvents,
    \* of ClientStaging
    Clients, Global, Rss, GlobalAddons, Listable, ExtraTimeout, ConnTimeout,
    CacheOn, CacheDuration, MaxAge, Prompt, ClientEvents,
    \* bounds: what may be on the disks before anything is downloaded
    ServerDisks, ClientDisks

VARIABLES
    loaded, astray, steamUp, extra, paths, queue, important, downloading, level,
    commands,           \* the server's side alone
    onServer,           \* the items installed on the server
    mounted, wsMap, serverAddons, request,      \* what both sides use
    globalAddons, optOut, timedOut, info, phase, told, offer,
    onClient,           \* what each client has on its disk
    required,           \* history: what each client needed when its last signon
                        \* message was let through
    misled              \* history: the clients that ever had an addon pending which
                        \* was not, or no longer, on their list

Server == INSTANCE ServerAddons WITH
    Events <- ServerEvents,
    installed <- onServer

\* The lists of ClientStaging's own server start are not used: that start is
\* the one of Server.
Staging == INSTANCE ClientStaging WITH
    Events <- ClientEvents,
    installed <- onClient,
    changing <- request.pending,
    ExtraAddons <- <<>>,
    Mountable <- <<>>

\* What either side assumes of its constants; the plugin is there all along.
ASSUME PluginAssumption ==
    /\ Server!AddonsAssumption /\ Server!SteamAssumption
    /\ Staging!AddonsAssumption /\ Staging!ClientsAssumption /\ Staging!TimeAssumption
    /\ ServerDisks \cup ClientDisks \subseteq SUBSET Addons
    /\ "reload" \notin ServerEvents

serverOnly == <<loaded, astray, steamUp, extra, paths, queue, important, downloading,
                level, commands, onServer>>
shared == <<mounted, wsMap, serverAddons, request>>
clientOnly == <<globalAddons, optOut, timedOut, info, phase, told, offer, onClient, required>>
vars == <<serverOnly, shared, clientOnly, misled>>

\* Nobody has connected to a server that comes up.
Init ==
    /\ Server!Init
    /\ onServer \in ServerDisks
    /\ globalAddons = GlobalAddons
    /\ optOut \in SUBSET Clients
    /\ timedOut = {}
    /\ info = [r \in Clients \cup {Global} |-> Staging!NewRecord]
    /\ phase = [c \in Clients |-> "away"]
    /\ told = [c \in Clients |-> {}]
    /\ offer = [c \in Clients |-> {}]
    /\ onClient \in [Clients -> ClientDisks]
    /\ required = [c \in Clients |-> {}]
    /\ misled = {}

\* Lists, refreshes, downloads and host state requests.
ServerActs ==
    /\ \/ Server!Interface \/ Server!Steam \/ Server!RunCommand
       \/ \E kind \in {"map", "vote", "changelevel"}, m \in Maps : Server!ChooseMap(kind, m)
    /\ UNCHANGED clientOnly

\* The hooks and calls that are about clients.
ClientActs ==
    /\ UNCHANGED <<serverOnly, request>>
    /\ \/ \E c \in Clients : Staging!Connection(c)
       \/ Staging!Api
       \/ Staging!GameFrame
       \/ Staging!Tick
    /\ required' = [c \in Clients |->
           IF Staging!SendSignonPasses(c) THEN Staging!Need(c) ELSE required[c]]

\* The engine carries out a host state request: the clients are told what the
\* request names, and the next server starts.
ChangeLevel ==
    /\ Staging!TellLevel(request.addons)
    /\ timedOut' = {}
    /\ Server!Hook_StartupServer
    /\ UNCHANGED <<globalAddons, optOut, offer, onClient, required>>

OffList == {c \in Clients : info[c].pending \notin Staging!Full(c) \cup {None}}

Next ==
    /\ ServerActs \/ ClientActs \/ ChangeLevel
    /\ misled' = misled \cup OffList'

Spec == Init /\ [][Next]_vars

-----------------------------------------------------------------------------
(* Properties *)

\* What the plugin believes of a client's disk stays true while addons are
\* listed, downloaded and mounted under it, lists are refreshed and the map is
\* changed or reloaded to show them (workflow steps 3 and 4,
\* multiaddonmanager.cpp:190-193), as long as nothing is pending that is not on
\* the client's list.
BeliefSound == \A c \in Clients \ misled : info[c].downloaded \subseteq onClient[c]

\* Such a client becomes active only with everything it was required to have
\* when its last signon message went out, whatever the server mounted while it
\* was on its way.
ActiveHasRequired ==
    [][\A c \in Clients \ misled :
          Staging!ClientActive(c) => required[c] \subseteq onClient[c]]_vars

\* Hook_ClientActive: "When the client reaches this stage, they should already
\* have all the necessary addons downloaded".  False: a level change names an
\* addon the server has not mounted yet, which stays pending and is credited.
EveryoneActiveHasRequired ==
    [][\A c \in Clients : Staging!ClientActive(c) => required[c] \subseteq onClient[c]]_vars

\* While a client is opted out nothing makes the plugin believe it acquired an
\* RSS asset, through level changes and reloads as well.
OptedOutNeverCredited == Staging!OptedOutNeverCredited

\* No message asks an opted-out client to download an RSS asset other than the
\* workshop map: neither an answer, nor a redirect, nor the level change of a
\* request whose list was made before the client opted out.  Left out are the
\* answer of a server that has mounted nothing yet, which is the engine's own,
\* and a refresh, which names what was added to the list.
OptOutRespected ==
    [][\A c \in optOut :
          \/ (told'[c] \ told[c]) \cap Rss \subseteq {wsMap'}
          \/ Staging!ReplyWithoutStaging(c) /\ Staging!Full(c) = {}
          \/ \E a \in Listable, r \in {c, Global} : Staging!AddClientAddonRefreshes(a, r, c)]_vars
=============================================================================
