---------------------------- MODULE PluginProofs ----------------------------
(***************************************************************************)
(* Machine-checked theorems about the plugin as a whole, for any clients,  *)
(* addons, lists, maps, timeouts and events.  What is proved of a step in  *)
(* the modules of the two sides is used here through ServerP and ClientP,  *)
(* the same instances of the modules that hold those proofs.               *)
(***************************************************************************)
EXTENDS Plugin, TLAPS

ServerP == INSTANCE ServerAddonsProofs WITH
    Events <- ServerEvents,
    installed <- onServer

ClientP == INSTANCE ClientStagingProofs WITH
    Events <- ClientEvents,
    installed <- onClient,
    changing <- request.pending,
    ExtraAddons <- <<>>,
    Mountable <- <<>>

-----------------------------------------------------------------------------
(* The instances that hold the proofs say what those of Plugin say: every    *)
(* definition is expanded on both sides, and nothing else is used.           *)

LEMMA SameServer ==
    ASSUME Server!Next
    PROVE  ServerP!Next
BY ZenonT(60)
  DEF Server!fileVars, Server!loadVars, Server!hostVars, Server!pluginVars,
    Server!vars, Server!NoRequest, Server!Own, Server!Fresh, Server!Free,
    Server!Called, Server!Kept, Server!Files, Server!StartDownload,
    Server!UpdateDownload, Server!OnPath, Server!MountAddon, Server!FastRemove,
    Server!UnmountAddon, Server!UnmountAll, Server!Remounted, Server!ReloadMap,
    Server!Become, Server!Refresh, Server!SetExtraAddons, Server!AddAddon,
    Server!RemoveAddon, Server!ClearAddons, Server!RefreshAddons,
    Server!DownloadAddon, Server!Hook_GameServerSteamAPIActivated,
    Server!EngineDownloads, Server!LastImportantDone, Server!Dequeue,
    Server!OnAddonDownloaded, Server!KeepsMap, Server!WorkshopMap,
    Server!EngineAddons, Server!Strays, Server!HostAddons,
    Server!Hook_SetPendingHostStateRequest, Server!Ask,
    Server!RunCommand, Server!ChooseMap, Server!StartupServerMounts,
    Server!Hook_StartupServer, Server!Load, Server!UnloadedPaths, Server!Unload,
    Server!Interface, Server!Steam, Server!Next, Server!Range, Server!RemoveAt,
    ServerP!fileVars, ServerP!loadVars, ServerP!hostVars, ServerP!pluginVars,
    ServerP!vars, ServerP!NoRequest, ServerP!Own, ServerP!Fresh, ServerP!Free,
    ServerP!Called, ServerP!Kept, ServerP!Files, ServerP!StartDownload,
    ServerP!UpdateDownload, ServerP!OnPath, ServerP!MountAddon, ServerP!FastRemove,
    ServerP!UnmountAddon, ServerP!UnmountAll, ServerP!Remounted, ServerP!ReloadMap,
    ServerP!Become, ServerP!Refresh, ServerP!SetExtraAddons, ServerP!AddAddon,
    ServerP!RemoveAddon, ServerP!ClearAddons, ServerP!RefreshAddons,
    ServerP!DownloadAddon, ServerP!Hook_GameServerSteamAPIActivated,
    ServerP!EngineDownloads, ServerP!LastImportantDone, ServerP!Dequeue,
    ServerP!OnAddonDownloaded, ServerP!KeepsMap, ServerP!WorkshopMap,
    ServerP!EngineAddons, ServerP!Strays, ServerP!HostAddons,
    ServerP!Hook_SetPendingHostStateRequest, ServerP!Ask,
    ServerP!RunCommand, ServerP!ChooseMap, ServerP!StartupServerMounts,
    ServerP!Hook_StartupServer, ServerP!Load, ServerP!UnloadedPaths, ServerP!Unload,
    ServerP!Interface, ServerP!Steam, ServerP!Next, ServerP!Range, ServerP!RemoveAt

LEMMA SameServerVars == ServerP!vars = Server!vars /\ ServerP!vars' = Server!vars'
BY DEF Server!vars, ServerP!vars, Server!fileVars, ServerP!fileVars, Server!loadVars,
    ServerP!loadVars, Server!hostVars, ServerP!hostVars, Server!pluginVars, ServerP!pluginVars

LEMMA SameClients ==
    ASSUME \/ \E c \in Clients : Staging!Connection(c)
           \/ Staging!Api \/ Staging!GameFrame \/ Staging!Tick
    PROVE  \/ \E c \in Clients : ClientP!Connection(c)
           \/ ClientP!Api \/ ClientP!GameFrame \/ ClientP!Tick
BY
  DEF Staging!serverVars, Staging!clientVars, Staging!Without, Staging!First,
    Staging!AddonList, Staging!Full, Staging!Skips, Staging!Need, Staging!Missing,
    Staging!InServer, Staging!Unchanged, Staging!Arrives, Staging!Seen,
    Staging!Reply, Staging!ReplyWithoutStaging, Staging!TooLate,
    Staging!AddTimedOutClient, Staging!ReplyTimesOut, Staging!Staged,
    Staging!FastMount, Staging!ReplyStages, Staging!Shortcut, Staging!InTime,
    Staging!ClientConnect, Staging!Complete, Staging!SendSignonRedirects,
    Staging!Leftover, Staging!SendSignonPasses, Staging!SendMessage,
    Staging!LevelAddons, Staging!LevelHead, Staging!TellLevel, Staging!Leaves,
    Staging!Disconnected, Staging!ClientActive, Staging!ClientDisconnect,
    Staging!Abandon, Staging!GameFrame, Staging!OwnList, Staging!Relist,
    Staging!AddClientAddon, Staging!MissingWith, Staging!AddClientAddonRefreshes,
    Staging!RemoveClientAddon, Staging!ClearClientAddons, Staging!ForgetRss,
    Staging!SetClientRssAssetsEnabled, Staging!Download, Staging!Older,
    Staging!Tick, Staging!Connection, Staging!Api, Staging!Range,
    ClientP!serverVars, ClientP!clientVars, ClientP!Without, ClientP!First,
    ClientP!AddonList, ClientP!Full, ClientP!Skips, ClientP!Need, ClientP!Missing,
    ClientP!InServer, ClientP!Unchanged, ClientP!Arrives, ClientP!Seen,
    ClientP!Reply, ClientP!ReplyWithoutStaging, ClientP!TooLate,
    ClientP!AddTimedOutClient, ClientP!ReplyTimesOut, ClientP!Staged,
    ClientP!FastMount, ClientP!ReplyStages, ClientP!Shortcut, ClientP!InTime,
    ClientP!ClientConnect, ClientP!Complete, ClientP!SendSignonRedirects,
    ClientP!Leftover, ClientP!SendSignonPasses, ClientP!SendMessage,
    ClientP!LevelAddons, ClientP!LevelHead, ClientP!TellLevel, ClientP!Leaves,
    ClientP!Disconnected, ClientP!ClientActive, ClientP!ClientDisconnect,
    ClientP!Abandon, ClientP!GameFrame, ClientP!OwnList, ClientP!Relist,
    ClientP!AddClientAddon, ClientP!MissingWith, ClientP!AddClientAddonRefreshes,
    ClientP!RemoveClientAddon, ClientP!ClearClientAddons, ClientP!ForgetRss,
    ClientP!SetClientRssAssetsEnabled, ClientP!Download, ClientP!Older,
    ClientP!Tick, ClientP!Connection, ClientP!Api, ClientP!Range

LEMMA SameLevel ==
    ASSUME Staging!TellLevel(request.addons)
    PROVE  ClientP!TellLevel(request.addons)
BY
  DEF Staging!TellLevel, Staging!LevelHead, Staging!LevelAddons, Staging!Skips,
    Staging!First, Staging!InServer, Staging!Range, ClientP!TellLevel,
    ClientP!LevelHead, ClientP!LevelAddons, ClientP!Skips, ClientP!First,
    ClientP!InServer, ClientP!Range

LEMMA SameLists ==
    ASSUME NEW c
    PROVE  /\ Staging!Full(c) = ClientP!Full(c) /\ Staging!Full(c)' = ClientP!Full(c)'
           /\ Staging!Need(c) = ClientP!Need(c)
           /\ Staging!Missing(c) = ClientP!Missing(c)
BY
  DEF Staging!Missing, Staging!Need, Staging!Skips, Staging!Full, Staging!AddonList,
    Staging!Range, ClientP!Missing, ClientP!Need, ClientP!Skips, ClientP!Full,
    ClientP!AddonList, ClientP!Range

-----------------------------------------------------------------------------
(* What the proofs of either side assume of the constants.                   *)

LEMMA ServerAssumed ==
    /\ None \notin Addons
    /\ Maps \subseteq Addons \cup {None}
    /\ Community \subseteq Maps \cap Addons
    /\ SharedNames \subseteq (Maps \cap Addons) \ Community
    /\ SharedNames # {} => None \in Maps
    /\ {LegacyItems, NotFound, SingleFile} \subseteq SUBSET Addons
    /\ Lists \subseteq Seq(Addons)
BY PluginAssumption DEF Server!AddonsAssumption

LEMMA SteamAssumed ==
    /\ Startable \subseteq SUBSET Addons
    /\ Results \subseteq BOOLEAN
    /\ {InOrder, Calm, MountDownload} \subseteq BOOLEAN
    /\ MaxCommands \in Nat
BY PluginAssumption DEF Server!SteamAssumption

LEMMA ClientsAssumed ==
    /\ Rss \subseteq Addons
    /\ Listable \subseteq Addons
    /\ None \notin Addons
    /\ Maps \subseteq Addons \cup {None}
    /\ {<<>>, <<>>, GlobalAddons} \subseteq Seq(Addons)
BY PluginAssumption DEF Staging!AddonsAssumption

LEMMA GlobalAssumed == Global \notin Clients
BY PluginAssumption DEF Staging!ClientsAssumption

LEMMA TimeAssumed ==
    /\ {ExtraTimeout, ConnTimeout, CacheDuration, MaxAge} \subseteq Nat
    /\ MaxAge > ExtraTimeout /\ MaxAge > ConnTimeout /\ MaxAge > CacheDuration
    /\ {CacheOn, Prompt} \subseteq BOOLEAN
BY PluginAssumption DEF Staging!TimeAssumption

-----------------------------------------------------------------------------
(* Each step of the plugin is one of the server side, or leaves that side as  *)
(* it was.                                                                   *)

LEMMA ClientsLeaveTheServer ==
    ASSUME ClientActs
    PROVE  UNCHANGED Server!vars
<1>1. UNCHANGED ClientP!serverVars
  <2>1. \/ \E c \in Clients : ClientP!Connection(c)
        \/ ClientP!Api \/ ClientP!GameFrame \/ ClientP!Tick
    BY SameClients DEF ClientActs
  <2> QED
    BY <2>1, ClientP!ServerStays, ClientsAssumed, GlobalAssumed, TimeAssumed, Zenon
<1>2. UNCHANGED <<wsMap, serverAddons, mounted>>
  BY <1>1 DEF ClientP!serverVars
<1> QED
  BY <1>2 DEF ClientActs, serverOnly, Server!vars, Server!fileVars, Server!loadVars,
      Server!hostVars, Server!pluginVars

LEMMA ServerStep ==
    ASSUME [Next]_vars
    PROVE  [Server!Next]_Server!vars
<1>1. CASE ServerActs
  BY <1>1 DEF ServerActs, Server!Next
<1>2. CASE ClientActs
  BY <1>2, ClientsLeaveTheServer
<1>3. CASE ChangeLevel
  BY <1>3 DEF ChangeLevel, Server!Next
<1>4. CASE UNCHANGED vars
  BY <1>4 DEF vars, serverOnly, shared, Server!vars, Server!fileVars, Server!loadVars,
      Server!hostVars, Server!pluginVars
<1> QED
  BY <1>1, <1>2, <1>3, <1>4 DEF Next

\* Whatever clients do, the server side of the plugin behaves like the one of
\* module ServerAddons: what is proved of that module holds of the plugin.
THEOREM ServerSideIsTheServer == Spec => Server!Spec
<1>1. Init => Server!Init
  BY DEF Init
<1> QED
  BY <1>1, ServerStep, PTL DEF Spec, Server!Spec

-----------------------------------------------------------------------------
(* Types *)

\* The types of both sides; the plugin is loaded and knows the map.
Types ==
    /\ ServerP!TypeInv
    /\ loaded
    /\ ClientP!TypeOK

LEMMA ServerTyped ==
    ASSUME ServerP!TypeInv, [Server!Next]_Server!vars
    PROVE  ServerP!TypeInv'
<1>1. [ServerP!Next]_ServerP!vars
  BY SameServer, SameServerVars
<1> QED
  BY <1>1, ServerP!NextTyped, ServerAssumed, SteamAssumed, Zenon

LEMMA MapKnown ==
    ASSUME ServerP!TypeInv, [Server!Next]_Server!vars, loaded, wsMap \in Maps
    PROVE  loaded' /\ wsMap' \in Maps
<1>1. [ServerP!Next]_ServerP!vars
  BY SameServer, SameServerVars
<1>2. "reload" \notin ServerEvents
  BY PluginAssumption
<1> QED
  BY <1>1, <1>2, ServerP!MapStaysKnown, ServerAssumed, SteamAssumed, Zenon

LEMMA ClientsTyped ==
    ASSUME ClientP!TypeOK, [ClientP!Next]_ClientP!vars
    PROVE  ClientP!TypeOK'
BY ClientP!NextType, ClientsAssumed, GlobalAssumed, TimeAssumed, Zenon

\* The types of what the clients' side keeps to itself.
OwnTypes ==
    /\ globalAddons \in Seq(Addons)
    /\ optOut \in SUBSET Clients
    /\ timedOut \in SUBSET Clients
    /\ info \in [Clients \cup {Global} -> ClientP!Records]
    /\ phase \in [Clients -> ClientP!Phases]
    /\ told \in [Clients -> SUBSET Addons]
    /\ offer \in [Clients -> SUBSET Addons]
    /\ onClient \in [Clients -> SUBSET Addons]

LEMMA SharedTypes ==
    ASSUME ServerP!TypeInv
    PROVE  /\ mounted \in Seq(Addons) /\ serverAddons \in Seq(Addons)
           /\ request.addons \in Seq(Addons) /\ request.pending \in BOOLEAN
BY DEF ServerP!TypeInv, ServerP!TypeOK, ServerP!Requests

LEMMA SharedTypesPrimed ==
    ASSUME ServerP!TypeInv'
    PROVE  /\ mounted' \in Seq(Addons) /\ serverAddons' \in Seq(Addons)
           /\ request'.pending \in BOOLEAN
BY DEF ServerP!TypeInv, ServerP!TypeOK, ServerP!Requests

LEMMA NextTypes ==
    ASSUME Types, [Next]_vars
    PROVE  Types'
<1>1. ServerP!TypeInv'
  BY ServerStep, ServerTyped DEF Types
<1>2. loaded' /\ wsMap' \in Maps
  BY ServerStep, MapKnown DEF Types, ClientP!TypeOK
<1>3. ASSUME OwnTypes'
      PROVE  ClientP!TypeOK'
  BY <1>1, <1>2, <1>3, SharedTypesPrimed DEF ClientP!TypeOK, OwnTypes
<1>4. OwnTypes
  BY DEF Types, ClientP!TypeOK, OwnTypes
<1>5. CASE ServerActs \/ UNCHANGED vars
  <2>1. UNCHANGED clientOnly
    BY <1>5 DEF ServerActs, vars
  <2> QED
    BY <1>1, <1>2, <1>3, <1>4, <2>1 DEF clientOnly, OwnTypes, Types
<1>6. CASE ClientActs
  <2>1. ClientP!Next
    BY <1>6, SameClients DEF ClientActs, ClientP!Next
  <2> QED
    BY <1>1, <1>2, <2>1, ClientsTyped DEF Types
<1>7. CASE ChangeLevel
  <2>1. request.addons \in Seq(Addons) /\ ClientP!TellLevel(request.addons)
    BY <1>7, SharedTypes, SameLevel DEF ChangeLevel, Types
  <2>2. /\ info' \in [Clients \cup {Global} -> ClientP!Records]
        /\ phase' \in [Clients -> ClientP!Phases]
        /\ told' \in [Clients -> SUBSET Addons]
    BY <2>1, ClientP!TellLevelType, ClientsAssumed, GlobalAssumed, TimeAssumed, Zenon DEF Types
  <2>3. timedOut' = {} /\ UNCHANGED <<globalAddons, optOut, offer, onClient>>
    BY <1>7 DEF ChangeLevel
  <2> QED
    BY <1>1, <1>2, <1>3, <1>4, <2>2, <2>3 DEF OwnTypes, Types
<1> QED
  BY <1>5, <1>6, <1>7 DEF Next

LEMMA InitTypes == Init => Types
<1> SUFFICES ASSUME Init PROVE Types
  OBVIOUS
<1>1. "reload" \notin ServerEvents /\ ServerDisks \cup ClientDisks \subseteq SUBSET Addons
  BY PluginAssumption
<1>2. loaded /\ wsMap \in Maps
  BY <1>1 DEF Init, Server!Init
<1>3. ServerP!Init
  BY DEF Init, Server!Init, ServerP!Init, Server!Fresh, ServerP!Fresh, Server!Own,
      ServerP!Own, Server!NoRequest, ServerP!NoRequest
<1>4. ServerP!TypeInv
  BY <1>3, ServerP!InitTyped, ServerAssumed, SteamAssumed, Zenon
<1>5. Staging!NewRecord \in ClientP!Records
  BY TimeAssumed DEF Staging!NewRecord, ClientP!Records, ClientP!Ages
<1>6. OwnTypes
  BY <1>1, <1>5, ClientsAssumed DEF Init, OwnTypes, ClientP!Phases
<1> QED
  BY <1>2, <1>4, <1>6, SharedTypes DEF Types, OwnTypes, ClientP!TypeOK

LEMMA TypesAlways == Spec => []Types
BY InitTypes, NextTypes, PTL DEF Spec

-----------------------------------------------------------------------------
(* The opt-out, through level changes and lists made before it.              *)

\* What a change of level does to the records.
LEMMA LevelKeepsBelief ==
    ASSUME Types, ChangeLevel, NEW c \in Clients
    PROVE  /\ info'[c].downloaded = info[c].downloaded
           /\ \/ phase'[c] = "reloading"
              \/ info'[c] = info[c] /\ phase'[c] = phase[c] /\ told'[c] = told[c]
<1>1. info[c] \in ClientP!Records
  BY DEF Types, ClientP!TypeOK
<1>2. ClientP!TellLevel(request.addons)
  BY SameLevel DEF ChangeLevel
<1> QED
  BY <1>1, <1>2 DEF ClientP!TellLevel, ClientP!Records

LEMMA CreditRespectsOptOut ==
    ASSUME Types, [Next]_vars, NEW c \in optOut
    PROVE  (info'[c].downloaded \ info[c].downloaded) \cap Rss = {}
<1>1. CASE ServerActs \/ UNCHANGED vars
  BY <1>1 DEF ServerActs, vars, clientOnly
<1>2. CASE ClientActs
  <2>1. ClientP!Next
    BY <1>2, SameClients DEF ClientActs, ClientP!Next
  <2> QED
    BY <2>1, ClientP!CreditRespectsOptOut, ClientsAssumed, GlobalAssumed, TimeAssumed, Zenon
        DEF Types
<1>3. CASE ChangeLevel
  BY <1>3, LevelKeepsBelief DEF Types, ClientP!TypeOK
<1> QED
  BY <1>1, <1>2, <1>3 DEF Next

\* While a client is opted out nothing makes the plugin believe it acquired an RSS
\* asset, whatever the server mounts, asks for and starts meanwhile.
THEOREM OptOutIsNeverCredited == Spec => OptedOutNeverCredited
<1>1. Types /\ [Next]_vars =>
        [\A c \in optOut :
             (info'[c].downloaded \ info[c].downloaded) \cap Rss = {}]_Staging!vars
  BY CreditRespectsOptOut
<1> QED
  BY <1>1, TypesAlways, PTL DEF Spec, OptedOutNeverCredited, Staging!OptedOutNeverCredited

\* The hooks that the properties name.
LEMMA SameHooks ==
    ASSUME NEW c
    PROVE  /\ Staging!ReplyWithoutStaging(c) <=> ClientP!ReplyWithoutStaging(c)
           /\ Staging!SendSignonPasses(c) <=> ClientP!SendSignonPasses(c)
           /\ Staging!ClientActive(c) <=> ClientP!ClientActive(c)
BY
  DEF Staging!ReplyWithoutStaging, Staging!Arrives, Staging!Need, Staging!Full,
    Staging!AddonList, Staging!Skips, Staging!Missing, Staging!Complete,
    Staging!Leftover, Staging!Seen, Staging!Reply, Staging!Unchanged,
    Staging!serverVars, Staging!SendSignonPasses, Staging!ClientActive,
    Staging!Range, ClientP!ReplyWithoutStaging, ClientP!Arrives, ClientP!Need,
    ClientP!Full, ClientP!AddonList, ClientP!Skips, ClientP!Missing,
    ClientP!Complete, ClientP!Leftover, ClientP!Seen, ClientP!Reply,
    ClientP!Unchanged, ClientP!serverVars, ClientP!SendSignonPasses,
    ClientP!ClientActive, ClientP!Range

LEMMA SameRefresh ==
    ASSUME NEW a, NEW r, NEW c, ClientP!AddClientAddonRefreshes(a, r, c)
    PROVE  Staging!AddClientAddonRefreshes(a, r, c)
BY
  DEF Staging!AddClientAddonRefreshes, Staging!OwnList, Staging!MissingWith,
    Staging!Missing, Staging!Need, Staging!Full, Staging!AddonList, Staging!Skips,
    Staging!First, Staging!Relist, Staging!serverVars, Staging!Range,
    ClientP!AddClientAddonRefreshes, ClientP!OwnList, ClientP!MissingWith,
    ClientP!Missing, ClientP!Need, ClientP!Full, ClientP!AddonList, ClientP!Skips,
    ClientP!First, ClientP!Relist, ClientP!serverVars, ClientP!Range

\* What a message asks of an opted-out client, as the property has it.
Respects(c) ==
    \/ (told'[c] \ told[c]) \cap Rss \subseteq {wsMap'}
    \/ Staging!ReplyWithoutStaging(c) /\ Staging!Full(c) = {}
    \/ \E a \in Listable, r \in {c, Global} : Staging!AddClientAddonRefreshes(a, r, c)

LEMMA MessagesRespectOptOut ==
    ASSUME Types, [Next]_vars, NEW c \in optOut
    PROVE  Respects(c)
<1>0. ClientP!TypeOK /\ c \in Clients /\ DOMAIN told = Clients
  BY DEF Types, ClientP!TypeOK
<1>1. CASE told'[c] \ told[c] = {}
  BY <1>1 DEF Respects
<1>2. CASE ServerActs \/ UNCHANGED vars
  BY <1>1, <1>2 DEF ServerActs, vars, clientOnly, Respects
<1>3. ASSUME NEW d \in Clients, ClientP!Connection(d), UNCHANGED wsMap
      PROVE  Respects(c)
  <2> SUFFICES ASSUME ~(ClientP!ReplyWithoutStaging(c) /\ ClientP!Full(c) = {}),
                      NEW a \in told'[c] \ told[c], a \in Rss
               PROVE  a = wsMap
    BY <1>3, SameHooks, SameLists DEF Respects
  <2> QED
    BY <1>0, <1>3, ClientP!ConnectionAsksNeeded, ClientsAssumed, GlobalAssumed, TimeAssumed,
       Zenon
<1>4. CASE ClientP!Api
  <2>1. ASSUME NEW a \in Listable, NEW r \in Clients \cup {Global}, NEW d \in Clients,
               ClientP!AddClientAddonRefreshes(a, r, d)
        PROVE  Respects(c)
    <3>1. CASE d = c
      <4>1. r \in {c, Global} /\ Staging!AddClientAddonRefreshes(a, r, c)
        BY <2>1, <3>1, SameRefresh DEF ClientP!AddClientAddonRefreshes
      <4> QED
        BY <4>1 DEF Respects
    <3>2. CASE d # c
      BY <1>0, <1>1, <2>1, <3>2 DEF ClientP!AddClientAddonRefreshes
    <3> QED
      BY <3>1, <3>2
  <2> QED
    BY <1>1, <1>4, <2>1 DEF ClientP!Api, ClientP!AddClientAddon, ClientP!RemoveClientAddon,
        ClientP!ClearClientAddons, ClientP!SetClientRssAssetsEnabled, ClientP!clientVars
<1>5. CASE ClientP!GameFrame \/ ClientP!Tick
  BY <1>0, <1>1, <1>5 DEF ClientP!GameFrame, ClientP!Tick, ClientP!clientVars
<1>6. CASE ClientActs
  BY <1>3, <1>4, <1>5, <1>6, SameClients, ClientsLeaveTheServer DEF ClientActs,
      Server!vars, Server!hostVars
<1>7. CASE ChangeLevel
  <2>1. request.addons \in Seq(Addons) /\ ClientP!TellLevel(request.addons)
    BY <1>7, SharedTypes, SameLevel DEF ChangeLevel, Types
  <2>2. \A a \in told'[c] \ told[c] : a \in Rss => a = wsMap
    BY <1>0, <2>1, ClientP!LevelAsksNeeded, ClientsAssumed, GlobalAssumed, TimeAssumed, Zenon
  <2>3. wsMap' = wsMap
    BY <1>7 DEF ChangeLevel, Server!Hook_StartupServer
  <2> QED
    BY <2>2, <2>3 DEF Respects
<1> QED
  BY <1>2, <1>6, <1>7 DEF Next

\* No answer, redirect or level change asks an opted-out client to download an RSS
\* asset other than the workshop map, and no refresh but one that adds it: the list
\* of a level change is filtered by the preferences of the moment it is sent.
THEOREM OptOutIsRespected == Spec => OptOutRespected
<1>1. Types /\ [Next]_vars =>
        [\A c \in optOut :
            \/ (told'[c] \ told[c]) \cap Rss \subseteq {wsMap'}
            \/ Staging!ReplyWithoutStaging(c) /\ Staging!Full(c) = {}
            \/ \E a \in Listable, r \in {c, Global} :
                   Staging!AddClientAddonRefreshes(a, r, c)]_vars
  BY MessagesRespectOptOut DEF Respects
<1> QED
  BY <1>1, TypesAlways, PTL DEF Spec, OptOutRespected

-----------------------------------------------------------------------------
(* What is believed of a client, as long as nothing was pending that was not *)
(* on its list.  The pending addon of such a client is on the list whatever  *)
(* the server mounts or drops, so that an answer names it: nothing else is   *)
(* asked of the lists, and none of them need stay as it is.                  *)

BeliefInv ==
    /\ Types
    /\ OffList \subseteq misled
    /\ \A c \in Clients \ misled :
          /\ ClientP!Honest(c)
          /\ phase[c] = "spawning" => required[c] \subseteq onClient[c]

LEMMA PendingIsListed ==
    ASSUME NEW c \in Clients, Next, c \notin misled'
    PROVE  /\ c \notin misled
           /\ info'[c].pending \in ClientP!Full(c)' \cup {None}
BY SameLists DEF Next, OffList

\* A client that is left alone, or told to come back.
LEMMA HonestAgain ==
    ASSUME NEW c \in Clients, ClientP!Honest(c),
           info'[c].pending \in ClientP!Full(c)' \cup {None},
           info'[c].downloaded \subseteq info[c].downloaded,
           onClient[c] \subseteq onClient'[c],
           \/ phase'[c] = "reloading"
           \/ /\ info'[c].pending = info[c].pending
              /\ phase'[c] = phase[c] /\ told'[c] = told[c]
              /\ optOut' = optOut
    PROVE  ClientP!Honest(c)'
BY DEF ClientP!Honest

\* Addons that other plugins take off the lists.
LEMMA UnlistingKeeps ==
    ASSUME Types, NEW c \in Clients, NEW a, NEW r \in Clients \cup {Global},
           ClientP!RemoveClientAddon(a, r) \/ ClientP!ClearClientAddons(r)
    PROVE  /\ info'[c].downloaded = info[c].downloaded
           /\ info'[c].pending = info[c].pending
           /\ UNCHANGED <<phase, told, optOut, onClient>>
<1>1. info \in [Clients \cup {Global} -> ClientP!Records]
  BY DEF Types, ClientP!TypeOK
<1>2. PICK list : ClientP!Relist(r, list, info[r].pending)
  BY DEF ClientP!RemoveClientAddon, ClientP!ClearClientAddons
<1>3. /\ info'[c].downloaded = info[c].downloaded
      /\ info'[c].pending = info[c].pending
  BY <1>1, <1>2 DEF ClientP!Relist, ClientP!Records
<1> QED
  BY <1>3 DEF ClientP!RemoveClientAddon, ClientP!ClearClientAddons, ClientP!clientVars

LEMMA ClientsStayHonest ==
    ASSUME Types, Types', ClientActs, NEW c \in Clients, ClientP!Honest(c),
           info'[c].pending \in ClientP!Full(c)' \cup {None}
    PROVE  ClientP!Honest(c)'
<1> USE ClientsAssumed, GlobalAssumed, TimeAssumed
<1>0. ClientP!TypeOK /\ ClientP!TypeOK'
  BY DEF Types
<1>1. ASSUME NEW d \in Clients, ClientP!Connection(d)
      PROVE  ClientP!Honest(c)'
  <2>1. CASE d = c
    <3>1. ClientP!Connection(c)
      BY <1>1, <2>1
    <3> QED
      BY <1>0, <3>1, ClientP!ConnectionHonest, Zenon
  <2>2. CASE d # c
    <3>1. /\ optOut' = optOut
          /\ \A b \in Clients : onClient[b] \subseteq onClient'[b]
          /\ \A b \in Clients \ {d} :
                info'[b] = info[b] /\ phase'[b] = phase[b] /\ told'[b] = told[b]
      BY <1>0, <1>1, ClientP!ConnectionFrame, Zenon
    <3> QED
      BY <2>2, <3>1, HonestAgain
  <2> QED
    BY <2>1, <2>2
<1>2. CASE ClientP!Api
  <2>1. ASSUME NEW a \in Addons, NEW r \in Clients \cup {Global}, NEW d \in Clients,
               ClientP!AddClientAddon(a, r) \/ ClientP!AddClientAddonRefreshes(a, r, d)
        PROVE  ClientP!Honest(c)'
    BY <1>0, <2>1, ClientP!ListingHonest, Zenon
  <2>2. ASSUME NEW a, NEW r \in Clients \cup {Global},
               ClientP!RemoveClientAddon(a, r) \/ ClientP!ClearClientAddons(r)
        PROVE  ClientP!Honest(c)'
    BY <2>2, UnlistingKeeps, HonestAgain
  <2>3. ASSUME NEW d \in Clients, NEW enabled \in BOOLEAN,
               ClientP!SetClientRssAssetsEnabled(d, enabled)
        PROVE  ClientP!Honest(c)'
    BY <1>0, <2>3, ClientP!PreferenceHonest, Zenon
  <2>4. \/ \E a \in Listable, r \in Clients \cup {Global}, d \in Clients :
              ClientP!AddClientAddon(a, r) \/ ClientP!AddClientAddonRefreshes(a, r, d)
        \/ \E a \in Listable, r \in Clients \cup {Global} :
              ClientP!RemoveClientAddon(a, r) \/ ClientP!ClearClientAddons(r)
        \/ \E r \in Clients \cup {Global} : ClientP!ClearClientAddons(r)
        \/ \E d \in Clients, enabled \in BOOLEAN :
              ClientP!SetClientRssAssetsEnabled(d, enabled)
    BY <1>2, Zenon DEF ClientP!Api
  <2>5. \A a \in Listable : a \in Addons
    BY Zenon
  <2> QED
    BY <2>1, <2>2, <2>3, <2>4, <2>5, Zenon
<1>3. CASE ClientP!GameFrame \/ ClientP!Tick
  BY <1>0, <1>3, ClientP!FrameHonest, Zenon
<1> QED
  BY <1>1, <1>2, <1>3, SameClients DEF ClientActs

\* What was required of a client is on its disk from its last signon message on.
LEMMA RequiredIsThere ==
    ASSUME Types, Types', ClientActs, NEW c \in Clients, ClientP!Honest(c),
           phase[c] = "spawning" => required[c] \subseteq onClient[c],
           phase'[c] = "spawning"
    PROVE  required'[c] \subseteq onClient'[c]
<1>0. /\ ClientP!TypeOK /\ ClientP!TypeOK'
      /\ phase \in [Clients -> ClientP!Phases] /\ onClient \in [Clients -> SUBSET Addons]
  BY DEF Types, ClientP!TypeOK
<1>1. required'[c] = IF ClientP!SendSignonPasses(c) THEN ClientP!Need(c) ELSE required[c]
  BY SameHooks, SameLists DEF ClientActs
<1>2. CASE ClientP!SendSignonPasses(c)
  <2>1. ClientP!Need(c) \subseteq info[c].downloaded
    BY <1>2 DEF ClientP!SendSignonPasses, ClientP!Complete, ClientP!Missing
  <2>2. onClient' = onClient
    BY <1>2 DEF ClientP!SendSignonPasses
  <2> QED
    BY <1>1, <1>2, <2>1, <2>2 DEF ClientP!Honest
<1>3. CASE ~ClientP!SendSignonPasses(c)
  <2>1. ASSUME NEW d \in Clients, ClientP!Connection(d)
        PROVE  phase[c] = "spawning" /\ onClient[c] \subseteq onClient'[c]
    <3>1. onClient[c] \subseteq onClient'[c] /\ (d # c => phase'[c] = phase[c])
      BY <1>0, <2>1, ClientP!ConnectionFrame, ClientsAssumed, GlobalAssumed, TimeAssumed, Zenon
    <3>2. CASE d = c
      <4>1. phase' \in {[phase EXCEPT ![c] = p] :
                            p \in {"offered", "ignored", "connected", "reloading", "active",
                                   "away"}}
            \/ phase' = phase
        BY <1>3, <2>1, <3>2 DEF ClientP!Connection, ClientP!ReplyWithoutStaging, ClientP!Reply,
            ClientP!ReplyTimesOut, ClientP!ReplyStages, ClientP!ClientConnect,
            ClientP!SendSignonRedirects, ClientP!SendMessage, ClientP!ClientActive,
            ClientP!ClientDisconnect, ClientP!Abandon, ClientP!Leaves, ClientP!Download,
            ClientP!clientVars
      <4> QED
        BY <1>0, <3>1, <4>1
    <3> QED
      BY <3>1, <3>2
  <2>2. ASSUME ClientP!Api
        PROVE  phase[c] = "spawning" /\ onClient[c] \subseteq onClient'[c]
    BY <1>0, <2>2 DEF ClientP!Api, ClientP!AddClientAddon, ClientP!AddClientAddonRefreshes,
        ClientP!RemoveClientAddon, ClientP!ClearClientAddons,
        ClientP!SetClientRssAssetsEnabled, ClientP!clientVars
  <2>3. ASSUME ClientP!GameFrame \/ ClientP!Tick
        PROVE  phase[c] = "spawning" /\ onClient[c] \subseteq onClient'[c]
    BY <1>0, <2>3 DEF ClientP!GameFrame, ClientP!Tick, ClientP!clientVars
  <2>4. phase[c] = "spawning" /\ onClient[c] \subseteq onClient'[c]
    BY <2>1, <2>2, <2>3, SameClients DEF ClientActs
  <2> QED
    BY <1>1, <1>3, <2>4
<1> QED
  BY <1>2, <1>3

LEMMA NextBelief ==
    ASSUME BeliefInv, [Next]_vars
    PROVE  BeliefInv'
<1>0. Types /\ Types'
  BY NextTypes DEF BeliefInv
<1>1. CASE UNCHANGED vars
  <2>1. UNCHANGED <<misled, info, phase, told, optOut, onClient, required, wsMap, mounted,
                    globalAddons>>
    BY <1>1 DEF vars, shared, clientOnly
  <2>2. \A c : ClientP!Full(c)' = ClientP!Full(c) /\ Staging!Full(c)' = Staging!Full(c)
    <3>1. \A c : ClientP!AddonList(c)' = ClientP!AddonList(c)
      BY <2>1 DEF ClientP!AddonList
    <3> QED
      BY <3>1, SameLists, ZenonT(60) DEF ClientP!Full, ClientP!Range
  <2> QED
    BY <1>0, <2>1, <2>2 DEF BeliefInv, OffList, ClientP!Honest
<1>2. CASE Next
  <2>1. OffList' \subseteq misled'
    BY <1>2 DEF Next
  <2> SUFFICES ASSUME NEW c \in Clients, c \notin misled'
               PROVE  /\ ClientP!Honest(c)'
                      /\ phase'[c] = "spawning" => required'[c] \subseteq onClient'[c]
    BY <1>0, <2>1 DEF BeliefInv
  <2>2. /\ info'[c].pending \in ClientP!Full(c)' \cup {None}
        /\ ClientP!Honest(c)
        /\ phase[c] = "spawning" => required[c] \subseteq onClient[c]
    BY <1>2, PendingIsListed DEF BeliefInv
  <2>3. CASE ServerActs
    <3>1. UNCHANGED <<info, phase, told, optOut, onClient, required>>
      BY <2>3 DEF ServerActs, clientOnly
    <3> QED
      BY <2>2, <3>1, HonestAgain
  <2>4. CASE ClientActs
    BY <1>0, <2>2, <2>4, ClientsStayHonest, RequiredIsThere
  <2>5. CASE ChangeLevel
    <3>1. /\ info'[c].downloaded = info[c].downloaded
          /\ \/ phase'[c] = "reloading"
             \/ info'[c] = info[c] /\ phase'[c] = phase[c] /\ told'[c] = told[c]
          /\ UNCHANGED <<optOut, onClient, required>>
      BY <1>0, <2>5, LevelKeepsBelief DEF ChangeLevel
    <3> QED
      BY <2>2, <3>1, HonestAgain
  <2> QED
    BY <1>2, <2>3, <2>4, <2>5 DEF Next
<1> QED
  BY <1>1, <1>2

LEMMA InitBelief == Init => BeliefInv
<1> SUFFICES ASSUME Init PROVE BeliefInv
  OBVIOUS
<1>1. \A c \in Clients : /\ info[c].pending = None /\ info[c].downloaded = {}
                         /\ phase[c] = "away"
  BY DEF Init, Staging!NewRecord
<1> QED
  BY <1>1, InitTypes DEF BeliefInv, OffList, ClientP!Honest

LEMMA BeliefAlways == Spec => []BeliefInv
BY InitBelief, NextBelief, PTL DEF Spec

\* While lists, maps, mounts, preferences and downloads change, what the plugin
\* believes a client has downloaded is on the client's disk, as long as nothing was
\* pending for it that was not on its list.
THEOREM BeliefsAreSound == Spec => []BeliefSound
<1>1. BeliefInv => BeliefSound
  BY DEF BeliefInv, BeliefSound, ClientP!Honest
<1> QED
  BY <1>1, BeliefAlways, PTL

\* Such a client becomes active only with everything that was required of it when
\* its last signon message passed, whatever was mounted while it was on its way.
THEOREM ActiveClientsHaveRequired == Spec => ActiveHasRequired
<1>1. BeliefInv /\ [Next]_vars =>
        [\A c \in Clients \ misled :
            Staging!ClientActive(c) => required[c] \subseteq onClient[c]]_vars
  BY DEF BeliefInv, Staging!ClientActive
<1> QED
  BY <1>1, BeliefAlways, PTL DEF Spec, ActiveHasRequired

=============================================================================
