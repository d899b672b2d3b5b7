------------------------ MODULE ClientStagingProofs ------------------------
(***************************************************************************)
(* Machine-checked theorems about the client staging, for any clients,     *)
(* addons, lists and timeouts: types, the opt-out and the plugin's belief, *)
(* and then what a client has been told, has on its disk and mounts when   *)
(* it gets into the game.  Each theorem names the events it holds under,   *)
(* unless it holds under all.                                              *)
(***************************************************************************)
EXTENDS ClientStaging, SequenceTheorems, FiniteSetTheorems, WellFoundedInduction, TLAPS

-----------------------------------------------------------------------------
(* Lists *)

\* The first element of a list in a set it meets is an element of both.
LEMMA FirstFound ==
    ASSUME NEW T, NEW s \in Seq(T), NEW S, Range(s) \cap S # {}
    PROVE  First(s, S) \in Range(s) \cap S
<1> DEFINE I == {i \in DOMAIN s : s[i] \in S}
<1>1. I # {} /\ I \subseteq Nat /\ DOMAIN s = 1..Len(s)
  BY DEF Range
<1>2. PICK i \in I : \A j \in I : <<j, i>> \notin OpToRel(<, Nat)
  BY <1>1, NatLessThanWellFounded, WFMin, Zenon
<1>3. \A j \in 1..(i - 1) : s[j] \notin S
  <2> SUFFICES ASSUME NEW j \in 1..(i - 1), s[j] \in S PROVE FALSE
    OBVIOUS
  <2>1. j \in I /\ j < i /\ j \in Nat /\ i \in Nat
    BY <1>1
  <2> QED
    BY <1>2, <2>1 DEF OpToRel
<1>4. i \in DOMAIN s /\ s[i] \in S /\ \A j \in 1..(i - 1) : s[j] \notin S
  BY <1>3
<1> DEFINE k == CHOOSE n \in DOMAIN s : s[n] \in S /\ \A j \in 1..(n - 1) : s[j] \notin S
<1>5. k \in DOMAIN s /\ s[k] \in S
  BY <1>4
<1> QED
  BY <1>5 DEF First, Range

\* Removing an element leaves a list of the same addons at most.
LEMMA WithoutType ==
    ASSUME NEW T, NEW s \in Seq(T), NEW a
    PROVE  Without(s, a) \in Seq(T)
<1>1. CASE a \in Range(s)
  <2>1. PICK k \in DOMAIN s : s[k] = a
    BY <1>1 DEF Range
  <2> DEFINE i == CHOOSE n \in DOMAIN s : s[n] = a
  <2>2. i \in 1..Len(s)
    BY <2>1
  <2> HIDE DEF i
  <2>3. SubSeq(s, 1, i - 1) \in Seq(T) /\ SubSeq(s, i + 1, Len(s)) \in Seq(T)
    BY <2>2
  <2>4. SubSeq(s, 1, i - 1) \o SubSeq(s, i + 1, Len(s)) \in Seq(T)
    BY <2>3
  <2> QED
    BY <1>1, <2>4 DEF Without, i
<1>2. CASE a \notin Range(s)
  BY <1>2 DEF Without
<1> QED
  BY <1>1, <1>2

LEMMA HostAddonsType ==
    ASSUME NEW m \in Maps
    PROVE  HostAddons(m) \in Seq(Addons)
BY WithoutType, AddonsAssumption DEF HostAddons

LEMMA AddonListType ==
    ASSUME TypeOK, NEW r \in Clients \cup {Global}
    PROVE  AddonList(r) \in Seq(Addons)
<1>1. (IF wsMap = None THEN <<>> ELSE <<wsMap>>) \in Seq(Addons)
  BY AddonsAssumption DEF TypeOK
<1>2. (IF r = Global THEN <<>> ELSE info[r].toLoad) \in Seq(Addons)
  BY DEF TypeOK, Records
<1> QED
  BY <1>1, <1>2 DEF AddonList, TypeOK

\* What a client needs, misses or is given is made of addons.
LEMMA ListTypes ==
    ASSUME TypeOK, NEW r \in Clients \cup {Global}
    PROVE  /\ Full(r) \subseteq Addons
           /\ Need(r) \subseteq Full(r)
           /\ Missing(r) \subseteq Need(r)
           /\ None \notin Full(r)
<1>1. \A x \in Range(AddonList(r)) : x \in Addons
  BY AddonListType DEF Range
<1> QED
  BY <1>1, AddonsAssumption DEF Full, Need, Missing

LEMMA FirstNeeded ==
    ASSUME TypeOK, NEW r \in Clients \cup {Global}, NEW S, S \subseteq Full(r), S # {}
    PROVE  First(AddonList(r), S) \in S /\ First(AddonList(r), S) \in Addons
BY AddonListType, FirstFound, ListTypes DEF Full

-----------------------------------------------------------------------------
(* Type correctness *)

LEMMA AgeFacts == Ages \subseteq Nat /\ 0 \in Ages /\ MaxAge \in Ages
BY TimeAssumption DEF Ages

LEMMA OlderType ==
    ASSUME NEW age \in Ages
    PROVE  Older(age) \in Ages
BY TimeAssumption DEF Older, Ages

LEMMA SeenType ==
    ASSUME TypeOK, NEW c \in Clients
    PROVE  Seen(c) \in Records
<1>1. info[c] \in Records
  BY DEF TypeOK
<1>2. [info[c] EXCEPT !.idle = 0] \in Records
  BY <1>1, AgeFacts DEF Records
<1>3. [info[c] EXCEPT !.pending = None, !.downloaded = {}, !.idle = 0] \in Records
  BY <1>1, AgeFacts DEF Records
<1> QED
  BY <1>2, <1>3 DEF Seen

LEMMA DisconnectedType ==
    ASSUME TypeOK, NEW c \in Clients
    PROVE  Disconnected(c) \in Records
<1>1. info[c] \in Records
  BY DEF TypeOK
<1> QED
  BY <1>1, AgeFacts DEF Disconnected, Records

LEMMA RelistType ==
    ASSUME TypeOK, NEW r \in Clients \cup {Global}, NEW list \in Seq(Addons),
           NEW pending \in Addons \cup {None}, Relist(r, list, pending)
    PROVE  /\ info' \in [Clients \cup {Global} -> Records]
           /\ globalAddons' \in Seq(Addons)
<1> DEFINE record == [info[r] EXCEPT !.toLoad = IF r = Global THEN @ ELSE list,
                                     !.pending = pending]
<1>1. info[r] \in Records
  BY DEF TypeOK
<1>2. record \in Records
  BY <1>1 DEF Records
<1>3. info' = [info EXCEPT ![r] = record]
  BY DEF Relist
<1> QED
  BY <1>2, <1>3 DEF Relist, TypeOK

LEMMA OwnListType ==
    ASSUME TypeOK, NEW r \in Clients \cup {Global}
    PROVE  OwnList(r) \in Seq(Addons) /\ info[r].pending \in Addons \cup {None}
BY DEF TypeOK, OwnList, Records

LEMMA InitType == Init => TypeOK
<1> SUFFICES ASSUME Init PROVE TypeOK
  OBVIOUS
<1>1. NewRecord \in Records
  BY AgeFacts DEF NewRecord, Records
<1>2. /\ HostAddons(wsMap) \in Seq(Addons)
      /\ Without(Mountable, wsMap) \in Seq(Addons)
      /\ GlobalAddons \in Seq(Addons)
  BY HostAddonsType, WithoutType, AddonsAssumption DEF Init
<1> QED
  BY <1>1, <1>2 DEF Init, TypeOK, Phases

\* The connection handlers, clients and time.
LEMMA ReplyType ==
    ASSUME TypeOK, NEW c \in Clients,
           ReplyWithoutStaging(c) \/ ReplyTimesOut(c) \/ ReplyStages(c)
    PROVE  TypeOK'
<1>0. ASSUME NEW record \in Records, NEW staged \in SUBSET Addons,
             NEW all \in SUBSET Addons, Reply(c, record, staged, all)
      PROVE  TypeOK'
  BY <1>0 DEF TypeOK, Reply, Unchanged, serverVars, Phases
<1>1. CASE ReplyWithoutStaging(c)
  <2>1. [Seen(c) EXCEPT !.pending = None] \in Records
    BY SeenType DEF Records
  <2>2. Range(serverAddons) \subseteq Addons
    BY DEF TypeOK, Range
  <2> QED
    BY <1>0, <1>1, <2>1, <2>2, ListTypes DEF ReplyWithoutStaging
<1>2. CASE ReplyTimesOut(c)
  BY <1>2, SeenType DEF ReplyTimesOut, AddTimedOutClient, TypeOK, Unchanged,
      serverVars, Phases
<1>3. CASE ReplyStages(c)
  <2> DEFINE seen    == Seen(c)
             head    == First(AddonList(c), Need(c))
             pending == IF head \in seen.downloaded THEN seen.pending ELSE head
             staged  == Staged(c, seen.downloaded, pending)
  <2>1. head \in Addons
    BY <1>3, FirstNeeded, ListTypes DEF ReplyStages
  <2>2. seen \in Records
    BY SeenType
  <2>3. pending \in Addons \cup {None}
    BY <2>1, <2>2 DEF Records
  <2> HIDE DEF seen, head, pending
  <2>4. [seen EXCEPT !.pending = pending, !.state = "CONNECTING"] \in Records
    BY <2>2, <2>3 DEF Records
  <2>5. staged \subseteq Addons /\ staged \cup FastMount(c) \subseteq Addons
    BY ListTypes DEF Staged, FastMount
  <2>6. Reply(c, [seen EXCEPT !.pending = pending, !.state = "CONNECTING"],
              staged, staged \cup FastMount(c))
    BY <1>3 DEF ReplyStages, seen, head, pending
  <2> QED
    BY <1>0, <2>4, <2>5, <2>6
<1> QED
  BY <1>1, <1>2, <1>3

\* What CheckClientAddons marks is the pending addon, or nothing.
LEMMA MarkedIsPending ==
    ASSUME TypeOK, NEW c \in Clients
    PROVE  Shortcut(c) \cup InTime(c) \subseteq {info[c].pending}
BY DEF Shortcut, InTime

LEMMA ConnectionType ==
    ASSUME TypeOK, NEW c \in Clients, Connection(c)
    PROVE  TypeOK'
<1> USE AgeFacts DEF Unchanged, serverVars, clientVars, Phases
<1>0. info[c] \in Records
  BY DEF TypeOK
<1>1. CASE ReplyWithoutStaging(c) \/ ReplyTimesOut(c) \/ ReplyStages(c)
  BY <1>1, ReplyType
<1>2. CASE ClientConnect(c)
  <2> DEFINE joined == [info[c] EXCEPT !.state = "JOINED", !.waiting = 0]
             marked == IF info[c].pending = None THEN {} ELSE Shortcut(c) \cup InTime(c)
             record == IF Full(c) = {} THEN joined
                       ELSE [joined EXCEPT !.downloaded = @ \cup marked,
                                           !.pending = None, !.idle = 0]
  <2>1. info[c] \in Records
    BY DEF TypeOK
  <2>2. marked \subseteq Addons
    BY <2>1, MarkedIsPending DEF Records
  <2>3. joined \in Records
    BY <2>1 DEF Records
  <2> HIDE DEF joined, marked
  <2>4. record \in Records
    BY <2>2, <2>3 DEF Records
  <2>5. info' = [info EXCEPT ![c] = record]
    BY <1>2 DEF ClientConnect, joined, marked
  <2> QED
    BY <1>2, <2>4, <2>5 DEF ClientConnect, TypeOK
<1>3. CASE SendSignonRedirects(c)
  <2> DEFINE next == First(AddonList(c), Missing(c))
  <2>1. next \in Addons
    BY <1>3, FirstNeeded, ListTypes DEF SendSignonRedirects, Complete
  <2> DEFINE record == [info[c] EXCEPT !.pending = next, !.idle = 0]
  <2>2. /\ info' = [info EXCEPT ![c] = record]
        /\ told' = [told EXCEPT ![c] = {next}]
        /\ phase' = [phase EXCEPT ![c] = "reloading"]
        /\ UNCHANGED <<wsMap, changing, serverAddons, mounted, globalAddons, optOut,
                       timedOut, offer, installed>>
    BY <1>3 DEF SendSignonRedirects
  <2> HIDE DEF next
  <2>3. record \in Records
    BY <1>0, <2>1 DEF Records
  <2> HIDE DEF record
  <2> QED
    BY <2>1, <2>2, <2>3 DEF TypeOK
<1>4. CASE SendSignonPasses(c)
  <2>1. Leftover(c) \subseteq Addons
    BY DEF TypeOK, Leftover, Records
  <2>2. [info[c] EXCEPT !.pending = None, !.idle = 0, !.downloaded = @ \cup Leftover(c)]
          \in Records
    BY <1>0, <2>1 DEF Records
  <2> QED
    BY <1>4, <2>2 DEF SendSignonPasses, TypeOK
<1>5. CASE SendMessage(c)
  <2>1. [info[c] EXCEPT !.idle = 0] \in Records
    BY <1>0 DEF Records
  <2> QED
    BY <1>5, <2>1 DEF SendMessage, TypeOK
<1>6. CASE ClientActive(c)
  <2>1. [info[c] EXCEPT !.downloaded = IF CacheOn THEN @ ELSE {}] \in Records
    BY <1>0 DEF Records
  <2> QED
    BY <1>6, <2>1 DEF ClientActive, TypeOK
<1>7. CASE ClientDisconnect(c)
  BY <1>7, DisconnectedType DEF ClientDisconnect, Leaves, TypeOK
<1>8. CASE Abandon(c)
  BY <1>8 DEF Abandon, Leaves, TypeOK
<1>9. ASSUME NEW a \in Addons, Download(c, a)
      PROVE  TypeOK'
  BY <1>9 DEF Download, TypeOK
<1> QED
  BY <1>1, <1>2, <1>3, <1>4, <1>5, <1>6, <1>7, <1>8, <1>9 DEF Connection

LEMMA ApiType ==
    ASSUME TypeOK, Api
    PROVE  TypeOK'
<1> USE DEF serverVars, clientVars, Phases
<1>0. Listable \subseteq Addons
  BY AddonsAssumption
<1>1. ASSUME NEW a \in Addons, NEW r \in Clients \cup {Global}, AddClientAddon(a, r)
      PROVE  TypeOK'
  <2>1. Append(OwnList(r), a) \in Seq(Addons)
    BY OwnListType
  <2>2. info' \in [Clients \cup {Global} -> Records] /\ globalAddons' \in Seq(Addons)
    BY <1>1, <2>1, OwnListType, RelistType DEF AddClientAddon
  <2> QED
    BY <1>1, <2>2 DEF AddClientAddon, TypeOK
<1>2. ASSUME NEW a \in Addons, NEW r \in Clients \cup {Global}, NEW c \in Clients,
             AddClientAddonRefreshes(a, r, c)
      PROVE  TypeOK'
  <2> DEFINE head == IF Missing(r) = {} THEN a ELSE First(AddonList(r), Missing(r))
  <2>1. head \in Addons
    BY FirstNeeded, ListTypes
  <2>2. Relist(r, Append(OwnList(r), a), head)
    BY <1>2 DEF AddClientAddonRefreshes
  <2> HIDE DEF head
  <2>3. Append(OwnList(r), a) \in Seq(Addons)
    BY OwnListType
  <2>4. info' \in [Clients \cup {Global} -> Records] /\ globalAddons' \in Seq(Addons)
    BY <2>1, <2>2, <2>3, RelistType
  <2> QED
    BY <1>2, <2>4 DEF AddClientAddonRefreshes, TypeOK
<1>3. ASSUME NEW a \in Addons, NEW r \in Clients \cup {Global}, RemoveClientAddon(a, r)
      PROVE  TypeOK'
  <2>1. Without(OwnList(r), a) \in Seq(Addons)
    BY OwnListType, WithoutType
  <2>2. info' \in [Clients \cup {Global} -> Records] /\ globalAddons' \in Seq(Addons)
    BY <1>3, <2>1, OwnListType, RelistType DEF RemoveClientAddon
  <2> QED
    BY <1>3, <2>2 DEF RemoveClientAddon, TypeOK
<1>4. ASSUME NEW r \in Clients \cup {Global}, ClearClientAddons(r)
      PROVE  TypeOK'
  <2>1. <<>> \in Seq(Addons)
    OBVIOUS
  <2>2. info' \in [Clients \cup {Global} -> Records] /\ globalAddons' \in Seq(Addons)
    BY <1>4, <2>1, OwnListType, RelistType DEF ClearClientAddons
  <2> QED
    BY <1>4, <2>2 DEF ClearClientAddons, TypeOK
<1>5. ASSUME NEW c \in Clients, NEW enabled \in BOOLEAN,
             SetClientRssAssetsEnabled(c, enabled)
      PROVE  TypeOK'
  <2>0. info[c] \in Records
    BY DEF TypeOK
  <2>1. ForgetRss(info[c]) \in Records
    BY <2>0 DEF ForgetRss, Records
  <2> QED
    BY <1>5, <2>1 DEF SetClientRssAssetsEnabled, TypeOK
<1> QED
  BY <1>0, <1>1, <1>2, <1>3, <1>4, <1>5 DEF Api

\* What a change of level leaves of the clients, whichever list it names.
LEMMA LevelHeadType ==
    ASSUME NEW list \in Seq(Addons), NEW c
    PROVE  LevelHead(list, c) \in LevelAddons(list, c) \cup {None}
<1>1. CASE LevelAddons(list, c) = {}
  BY <1>1 DEF LevelHead
<1>2. CASE LevelAddons(list, c) # {}
  <2>1. Range(list) \cap LevelAddons(list, c) # {}
    BY <1>2 DEF LevelAddons
  <2>2. First(list, LevelAddons(list, c)) \in LevelAddons(list, c)
    BY <2>1, FirstFound
  <2> QED
    BY <1>2, <2>2 DEF LevelHead
<1> QED
  BY <1>1, <1>2

LEMMA TellLevelType ==
    ASSUME TypeOK, NEW list \in Seq(Addons), TellLevel(list)
    PROVE  /\ info' \in [Clients \cup {Global} -> Records]
           /\ phase' \in [Clients -> Phases]
           /\ told' \in [Clients -> SUBSET Addons]
<1>1. \A c \in Clients : LevelHead(list, c) \in Addons \cup {None}
  BY LevelHeadType DEF LevelAddons, Range
<1>2. info' \in [Clients \cup {Global} -> Records]
  <2> SUFFICES ASSUME NEW r \in Clients \cup {Global}
               PROVE  (IF r \in InServer
                       THEN [info[r] EXCEPT !.pending = LevelHead(list, r), !.idle = 0]
                       ELSE info[r]) \in Records
    BY DEF TellLevel
  <2>1. info[r] \in Records
    BY DEF TypeOK
  <2>2. r \in InServer => LevelHead(list, r) \in Addons \cup {None}
    BY <1>1 DEF InServer
  <2> QED
    BY <2>1, <2>2, AgeFacts DEF Records
<1> QED
  BY <1>1, <1>2 DEF TellLevel, TypeOK, Phases

LEMMA NextType == TypeOK /\ [Next]_vars => TypeOK'
<1> SUFFICES ASSUME TypeOK, [Next]_vars PROVE TypeOK'
  OBVIOUS
<1> USE AgeFacts DEF Unchanged, serverVars, clientVars, Phases
<1>1. ASSUME NEW c \in Clients, Connection(c)
      PROVE  TypeOK'
  BY <1>1, ConnectionType
<1>2. CASE Api
  BY <1>2, ApiType
<1>3. ASSUME NEW m \in Maps, RequestMap(m)
      PROVE  TypeOK'
  BY <1>3 DEF RequestMap, TypeOK
<1>4. CASE ChangeLevel
  <2>1. HostAddons(wsMap) \in Seq(Addons) /\ Without(Mountable, wsMap) \in Seq(Addons)
    BY HostAddonsType, WithoutType, AddonsAssumption DEF TypeOK
  <2>2. /\ info' \in [Clients \cup {Global} -> Records]
        /\ phase' \in [Clients -> Phases]
        /\ told' \in [Clients -> SUBSET Addons]
    BY <1>4, <2>1, TellLevelType DEF ChangeLevel
  <2> QED
    BY <1>4, <2>1, <2>2 DEF ChangeLevel, StartupServer, TypeOK
<1>5. CASE GameFrame
  <2>1. info' \in [Clients \cup {Global} -> Records]
    BY <1>5, DisconnectedType DEF GameFrame, TypeOK, InServer
  <2> QED
    BY <1>5, <2>1 DEF GameFrame, TypeOK
<1>6. CASE Tick
  <2>1. info' \in [Clients \cup {Global} -> Records]
    <3> SUFFICES ASSUME NEW r \in Clients \cup {Global}
                 PROVE  [info[r] EXCEPT
                            !.idle = Older(@),
                            !.waiting = IF info[r].state = "CONNECTING" THEN Older(@) ELSE @]
                        \in Records
      BY <1>6 DEF Tick
    <3>1. info[r] \in Records
      BY DEF TypeOK
    <3>2. Older(info[r].idle) \in Ages /\ Older(info[r].waiting) \in Ages
      BY <3>1, OlderType DEF Records
    <3> QED
      BY <3>1, <3>2 DEF Records
  <2> QED
    BY <1>6, <2>1 DEF Tick, TypeOK
<1>7. CASE UNCHANGED vars
  BY <1>7 DEF vars, TypeOK
<1> QED
  BY <1>1, <1>2, <1>3, <1>4, <1>5, <1>6, <1>7 DEF Next

\* Every variable keeps its type, whatever the environment does.
THEOREM StagingTypeCorrect == Spec => []TypeOK
BY InitType, NextType, PTL DEF Spec

-----------------------------------------------------------------------------
(* An opted-out client earns no RSS asset.  The proof needs no invariant but *)
(* the types: each hook that marks an addon looks at the opt-out itself.     *)

LEMMA CreditRespectsOptOut ==
    ASSUME TypeOK, [Next]_vars, NEW c \in optOut
    PROVE  (info'[c].downloaded \ info[c].downloaded) \cap Rss = {}
<1> DEFINE Kept(d) == info'[d].downloaded \subseteq info[d].downloaded
<1>0. c \in Clients /\ info[c] \in Records
  BY DEF TypeOK
<1>1. ASSUME NEW d \in Clients, Connection(d)
      PROVE  (info'[c].downloaded \ info[c].downloaded) \cap Rss = {}
  <2>0. info[d] \in Records /\ DOMAIN info = Clients \cup {Global}
    BY DEF TypeOK
  <2>1. CASE ReplyWithoutStaging(d)
    <3>1. info' = [info EXCEPT ![d] = [Seen(d) EXCEPT !.pending = None]]
      BY <2>1 DEF ReplyWithoutStaging, Reply
    <3> QED
      BY <1>0, <2>0, <3>1 DEF Seen, Records
  <2>2. CASE ReplyTimesOut(d)
    BY <1>0, <2>0, <2>2 DEF ReplyTimesOut, Seen, Records
  <2>3. CASE ReplyStages(d)
    <3>1. PICK pending : info' = [info EXCEPT ![d] =
              [Seen(d) EXCEPT !.pending = pending, !.state = "CONNECTING"]]
      BY <2>3 DEF ReplyStages, Reply
    <3> QED
      BY <1>0, <2>0, <3>1 DEF Seen, Records
  <2>4. CASE ClientConnect(d)
    <3> DEFINE joined == [info[d] EXCEPT !.state = "JOINED", !.waiting = 0]
               marked == IF info[d].pending = None THEN {} ELSE Shortcut(d) \cup InTime(d)
               record == IF Full(d) = {} THEN joined
                         ELSE [joined EXCEPT !.downloaded = @ \cup marked,
                                             !.pending = None, !.idle = 0]
    <3>1. info' = [info EXCEPT ![d] = record]
      BY <2>4 DEF ClientConnect
    <3>2. d \in optOut => marked \cap Rss = {}
      BY DEF Shortcut, InTime
    <3> HIDE DEF marked
    <3>3. record.downloaded \subseteq info[d].downloaded \cup marked
      BY <2>0 DEF Records
    <3> HIDE DEF record
    <3> QED
      BY <1>0, <2>0, <3>1, <3>2, <3>3
  <2>5. CASE SendSignonRedirects(d)
    <3>1. PICK next : info' = [info EXCEPT ![d] =
              [info[d] EXCEPT !.pending = next, !.idle = 0]]
      BY <2>5 DEF SendSignonRedirects
    <3> QED
      BY <1>0, <2>0, <3>1 DEF Records
  <2>6. CASE SendSignonPasses(d)
    <3>1. info' = [info EXCEPT ![d] =
              [info[d] EXCEPT !.pending = None, !.idle = 0,
                              !.downloaded = @ \cup Leftover(d)]]
      BY <2>6 DEF SendSignonPasses
    <3>2. d = c => Leftover(d) = {}
      BY DEF Leftover
    <3> QED
      BY <1>0, <2>0, <3>1, <3>2 DEF Records
  <2>7. CASE SendMessage(d)
    BY <1>0, <2>0, <2>7 DEF SendMessage, Records
  <2>8. CASE ClientActive(d)
    BY <1>0, <2>0, <2>8 DEF ClientActive, Records
  <2>9. CASE ClientDisconnect(d)
    BY <1>0, <2>0, <2>9 DEF ClientDisconnect, Leaves, Disconnected, Records
  <2>10. CASE Abandon(d)
    BY <1>0, <2>0, <2>10 DEF Abandon, Leaves
  <2>11. ASSUME NEW a \in Addons, Download(d, a)
         PROVE  info' = info
    BY <2>11 DEF Download
  <2> QED
    BY <1>1, <2>1, <2>2, <2>3, <2>4, <2>5, <2>6, <2>7, <2>8, <2>9, <2>10, <2>11
        DEF Connection
<1>2. CASE Api
  <2>1. ASSUME NEW r \in Clients \cup {Global}, NEW list, NEW pending,
               Relist(r, list, pending)
        PROVE  info'[c].downloaded = info[c].downloaded
    <3>1. info[r] \in Records /\ DOMAIN info = Clients \cup {Global}
      BY DEF TypeOK
    <3> QED
      BY <1>0, <2>1, <3>1 DEF Relist, Records
  <2>2. ASSUME NEW a, NEW r \in Clients \cup {Global}, NEW d,
               \/ AddClientAddon(a, r) \/ AddClientAddonRefreshes(a, r, d)
               \/ RemoveClientAddon(a, r) \/ ClearClientAddons(r)
        PROVE  info'[c].downloaded = info[c].downloaded
    BY <2>1, <2>2 DEF AddClientAddon, AddClientAddonRefreshes, RemoveClientAddon,
        ClearClientAddons
  <2>3. ASSUME NEW d \in Clients, NEW enabled \in BOOLEAN,
               SetClientRssAssetsEnabled(d, enabled)
        PROVE  info'[c].downloaded \subseteq info[c].downloaded
    <3>1. info[d] \in Records /\ DOMAIN info = Clients \cup {Global}
      BY DEF TypeOK
    <3> QED
      BY <1>0, <2>3, <3>1 DEF SetClientRssAssetsEnabled, ForgetRss, Records
  <2> QED
    BY <1>2, <2>2, <2>3 DEF Api
<1>3. ASSUME NEW m \in Maps, RequestMap(m)
      PROVE  info' = info
  BY <1>3 DEF RequestMap
<1>4. CASE ChangeLevel
  BY <1>0, <1>4 DEF ChangeLevel, TellLevel, Records
<1>5. CASE GameFrame
  BY <1>0, <1>5 DEF GameFrame, Disconnected, Records
<1>6. CASE Tick
  BY <1>0, <1>6 DEF Tick, Records
<1>7. CASE UNCHANGED vars
  BY <1>7 DEF vars
<1> QED
  BY <1>1, <1>2, <1>3, <1>4, <1>5, <1>6, <1>7 DEF Next

\* Whatever lists, maps, toggles and timeouts do, nothing a client goes through
\* while it is opted out is taken for the download of an RSS asset.
THEOREM OptOutIsNeverCredited == Spec => OptedOutNeverCredited
<1>1. TypeOK /\ [Next]_vars =>
        [\A c \in optOut : (info'[c].downloaded \ info[c].downloaded) \cap Rss = {}]_vars
  BY CreditRespectsOptOut
<1> QED
  BY <1>1, StagingTypeCorrect, PTL DEF Spec, OptedOutNeverCredited

-----------------------------------------------------------------------------
(* Beliefs are right while no addon leaves the lists: the pending addon is   *)
(* still listed when the client comes back, so the connection response names *)
(* it, and only a client that has it gets to ClientConnect.                  *)

StableLists == Events \cap {"map", "remove"} = {}

\* What the plugin knows of one client.
Honest(c) ==
    /\ info[c].downloaded \subseteq installed[c]
    /\ info[c].pending # None => info[c].pending \in Full(c)
    /\ phase[c] = "offered" /\ info[c].pending # None =>
          \/ info[c].pending \in told[c]
          \/ c \in optOut /\ info[c].pending \in Rss
    /\ phase[c] \in {"connected", "spawning"} => info[c].pending = None

BInv ==
    /\ TypeOK
    /\ ~changing
    /\ \A c \in Clients : Honest(c)

\* The elements of two lists put together.
LEMMA TwoLists ==
    ASSUME NEW T
    PROVE  \A s, t \in Seq(T) : s \o t \in Seq(T) /\ Range(s \o t) = Range(s) \cup Range(t)
<1> SUFFICES ASSUME NEW s \in Seq(T), NEW t \in Seq(T)
             PROVE  s \o t \in Seq(T) /\ Range(s \o t) = Range(s) \cup Range(t)
  OBVIOUS
<1> DEFINE n == Len(s)
           both == s \o t
<1>1. /\ both \in Seq(T) /\ Len(both) = n + Len(t) /\ n \in Nat /\ Len(t) \in Nat
      /\ DOMAIN both = 1..(n + Len(t)) /\ DOMAIN s = 1..n /\ DOMAIN t = 1..Len(t)
      /\ \A i \in 1..n : both[i] = s[i]
      /\ \A i \in 1..Len(t) : both[n + i] = t[i]
  OBVIOUS
<1> HIDE DEF n, both
<1>2. ASSUME NEW i \in DOMAIN both
      PROVE  both[i] \in Range(s) \cup Range(t)
  <2>1. CASE i \in 1..n
    BY <1>1, <2>1 DEF Range
  <2>2. CASE i \notin 1..n
    <3>1. i - n \in 1..Len(t) /\ n + (i - n) = i
      BY <1>1, <2>2
    <3>2. both[i] = t[i - n]
      BY <1>1, <3>1
    <3> QED
      BY <1>1, <3>1, <3>2 DEF Range
  <2> QED
    BY <2>1, <2>2
<1>3. ASSUME NEW i \in DOMAIN s
      PROVE  s[i] \in Range(both)
  <2>1. i \in DOMAIN both
    BY <1>1
  <2> QED
    BY <1>1, <2>1 DEF Range
<1>4. ASSUME NEW i \in DOMAIN t
      PROVE  t[i] \in Range(both)
  <2>1. n + i \in DOMAIN both
    BY <1>1
  <2> QED
    BY <1>1, <2>1 DEF Range
<1>5. Range(both) = Range(s) \cup Range(t)
  BY <1>2, <1>3, <1>4 DEF Range
<1> QED
  BY <1>1, <1>5 DEF both

\* The elements of a list put together from four.
LEMMA ConcatRange ==
    ASSUME NEW T, NEW s1 \in Seq(T), NEW s2 \in Seq(T), NEW s3 \in Seq(T), NEW s4 \in Seq(T)
    PROVE  Range(s1 \o s2 \o s3 \o s4) = Range(s1) \cup Range(s2) \cup Range(s3) \cup Range(s4)
<1>1. \A s, t \in Seq(T) : s \o t \in Seq(T) /\ Range(s \o t) = Range(s) \cup Range(t)
  BY TwoLists
<1>2. s1 \o s2 \in Seq(T) /\ Range(s1 \o s2) = Range(s1) \cup Range(s2)
  BY <1>1, Zenon
<1>3. /\ (s1 \o s2) \o s3 \in Seq(T)
      /\ Range((s1 \o s2) \o s3) = Range(s1 \o s2) \cup Range(s3)
  BY <1>1, <1>2, Zenon
<1>4. Range(((s1 \o s2) \o s3) \o s4) = Range((s1 \o s2) \o s3) \cup Range(s4)
  BY <1>1, <1>3, Zenon
<1> QED
  BY <1>2, <1>3, <1>4, Zenon

LEMMA AppendRange ==
    ASSUME NEW T, NEW s \in Seq(T), NEW x \in T
    PROVE  Range(s) \cup {x} = Range(Append(s, x))
<1>1. <<x>> \in Seq(T) /\ Range(<<x>>) = {x}
  BY DEF Range
<1>2. Append(s, x) = s \o <<x>>
  BY AppendIsConcat
<1>3. \A r, t \in Seq(T) : Range(r \o t) = Range(r) \cup Range(t)
  BY TwoLists
<1>4. Range(s \o <<x>>) = Range(s) \cup Range(<<x>>)
  BY <1>1, <1>3, Zenon
<1> QED
  BY <1>1, <1>2, <1>4, Zenon

\* The full list of a client, by where its addons come from.
FullList(m, ms, gs, ls) ==
    (IF m = None THEN {} ELSE {m}) \cup Range(ms) \cup Range(gs) \cup Range(ls)

LEMMA FullParts ==
    ASSUME NEW m \in Maps, NEW ms \in Seq(Addons), NEW gs \in Seq(Addons),
           NEW ls \in Seq(Addons)
    PROVE  Range((IF m = None THEN <<>> ELSE <<m>>) \o ms \o gs \o ls)
               = FullList(m, ms, gs, ls)
<1> DEFINE head == IF m = None THEN <<>> ELSE <<m>>
<1>1. head \in Seq(Addons)
  BY AddonsAssumption
<1>2. Range(head) = IF m = None THEN {} ELSE {m}
  BY DEF Range
<1> HIDE DEF head
<1>3. Range(head \o ms \o gs \o ls) = Range(head) \cup Range(ms) \cup Range(gs) \cup Range(ls)
  BY <1>1, ConcatRange
<1> QED
  BY <1>2, <1>3 DEF head, FullList

LEMMA FullIs ==
    ASSUME TypeOK, NEW c \in Clients
    PROVE  Full(c) = FullList(wsMap, mounted, globalAddons, info[c].toLoad)
<1>1. c # Global /\ info[c].toLoad \in Seq(Addons)
  BY ClientsAssumption DEF TypeOK, Records
<1> QED
  BY <1>1, FullParts DEF Full, AddonList, TypeOK

LEMMA FullIsPrimed ==
    ASSUME TypeOK', NEW c \in Clients
    PROVE  Full(c)' = FullList(wsMap', mounted', globalAddons', info'[c].toLoad)
<1>1. c # Global /\ info'[c].toLoad \in Seq(Addons)
  BY ClientsAssumption DEF TypeOK, Records
<1> QED
  BY <1>1, FullParts DEF Full, AddonList, TypeOK

\* An action that touches nothing a list is made of leaves it as it was.
LEMMA FullStays ==
    ASSUME TypeOK, TypeOK', NEW c \in Clients,
           UNCHANGED <<wsMap, mounted, globalAddons>>,
           info'[c].toLoad = info[c].toLoad
    PROVE  Full(c)' = Full(c)
BY FullIs, FullIsPrimed

\* A client an action does not touch stays honest.
LEMMA OthersStayHonest ==
    ASSUME NEW c \in Clients, Honest(c), info'[c] = info[c],
           installed[c] \subseteq installed'[c], Full(c) \subseteq Full(c)',
           told'[c] = told[c],
           \/ phase'[c] = phase[c] \/ phase'[c] = "reloading",
           c \in optOut => c \in optOut'
    PROVE  Honest(c)'
BY DEF Honest

LEMMA InitHonest == Init => BInv
BY InitType DEF Init, BInv, Honest, NewRecord

\* What every step of one client's connection leaves alone.
LEMMA ConnectionFrame ==
    ASSUME TypeOK, TypeOK', NEW c \in Clients, Connection(c)
    PROVE  /\ UNCHANGED <<wsMap, changing, mounted, globalAddons, optOut>>
           /\ \A d \in Clients : /\ info'[d].toLoad = info[d].toLoad
                                 /\ installed[d] \subseteq installed'[d]
                                 /\ Full(d)' = Full(d)
           /\ \A d \in Clients \ {c} : /\ info'[d] = info[d]
                                       /\ phase'[d] = phase[d]
                                       /\ told'[d] = told[d]
<1>0. info[c] \in Records /\ DOMAIN info = Clients \cup {Global}
  BY DEF TypeOK
<1>1. UNCHANGED <<wsMap, changing, mounted, globalAddons, optOut>>
  BY DEF Connection, ReplyWithoutStaging, ReplyTimesOut, ReplyStages, Reply,
      ClientConnect, SendSignonRedirects, SendSignonPasses, SendMessage, ClientActive,
      ClientDisconnect, Abandon, Download, Unchanged, serverVars
<1>2. /\ \E record : info' = [info EXCEPT ![c] = record] /\ record.toLoad = info[c].toLoad
      /\ \E x : phase' = [phase EXCEPT ![c] = x]
      /\ \E x : told' = [told EXCEPT ![c] = x]
  <2>1. Seen(c).toLoad = info[c].toLoad /\ Seen(c) \in Records
    BY <1>0, SeenType DEF Seen, Records
  <2>2. CASE ReplyWithoutStaging(c)
    <3>1. [Seen(c) EXCEPT !.pending = None].toLoad = info[c].toLoad
      BY <2>1 DEF Records
    <3> QED
      BY <2>2, <3>1 DEF ReplyWithoutStaging, Reply
  <2>3. CASE ReplyTimesOut(c)
    BY <2>1, <2>3, ZenonT(60) DEF ReplyTimesOut, TypeOK
  <2>4. CASE ReplyStages(c)
    <3>1. \A p : [Seen(c) EXCEPT !.pending = p, !.state = "CONNECTING"].toLoad
                     = info[c].toLoad
      BY <2>1 DEF Records
    <3> QED
      BY <2>4, <3>1 DEF ReplyStages, Reply
  <2>5. CASE ClientConnect(c)
    <3> DEFINE joined == [info[c] EXCEPT !.state = "JOINED", !.waiting = 0]
               marked == IF info[c].pending = None THEN {}
                         ELSE Shortcut(c) \cup InTime(c)
               record == IF Full(c) = {} THEN joined
                         ELSE [joined EXCEPT !.downloaded = @ \cup marked,
                                             !.pending = None, !.idle = 0]
    <3>1. info' = [info EXCEPT ![c] = record]
      BY <2>5 DEF ClientConnect
    <3> HIDE DEF marked
    <3>2. record.toLoad = info[c].toLoad
      BY <1>0 DEF Records
    <3>3. phase' = [phase EXCEPT ![c] = "connected"] /\ told' = told
      BY <2>5 DEF ClientConnect
    <3>4. told = [told EXCEPT ![c] = told[c]]
      BY DEF TypeOK
    <3> HIDE DEF record
    <3> QED
      BY <3>1, <3>2, <3>3, <3>4
  <2>6. CASE SendSignonRedirects(c)
    <3>1. \A p : [info[c] EXCEPT !.pending = p, !.idle = 0].toLoad = info[c].toLoad
      BY <1>0 DEF Records
    <3> QED
      BY <2>6, <3>1 DEF SendSignonRedirects
  <2>7. CASE SendSignonPasses(c)
    <3>1. \A x : [info[c] EXCEPT !.pending = None, !.idle = 0,
                                 !.downloaded = @ \cup x].toLoad = info[c].toLoad
      BY <1>0 DEF Records
    <3> QED
      BY <2>7, <3>1, ZenonT(60) DEF SendSignonPasses, TypeOK
  <2>8. CASE SendMessage(c)
    <3>1. [info[c] EXCEPT !.idle = 0].toLoad = info[c].toLoad
      BY <1>0 DEF Records
    <3> QED
      BY <2>8, <3>1, ZenonT(60) DEF SendMessage, clientVars, TypeOK
  <2>9. CASE ClientActive(c)
    <3>1. [info[c] EXCEPT !.downloaded = IF CacheOn THEN @ ELSE {}].toLoad = info[c].toLoad
      BY <1>0 DEF Records
    <3> QED
      BY <2>9, <3>1, ZenonT(60) DEF ClientActive, TypeOK
  <2>10. CASE ClientDisconnect(c)
    <3>1. Disconnected(c).toLoad = info[c].toLoad
      BY <1>0 DEF Disconnected, Records
    <3> QED
      BY <2>10, <3>1 DEF ClientDisconnect, Leaves
  <2>11. CASE Abandon(c)
    BY <2>11 DEF Abandon, Leaves
  <2>12. ASSUME NEW a \in Addons, Download(c, a)
         PROVE  UNCHANGED <<info, phase, told>>
    BY <2>12 DEF Download, clientVars
  <2>13. /\ info = [info EXCEPT ![c] = info[c]]
         /\ phase = [phase EXCEPT ![c] = phase[c]]
         /\ told = [told EXCEPT ![c] = told[c]]
    BY DEF TypeOK
  <2> QED
    BY <2>2, <2>3, <2>4, <2>5, <2>6, <2>7, <2>8, <2>9, <2>10, <2>11, <2>12, <2>13
        DEF Connection
<1>3. \A d \in Clients : installed[d] \subseteq installed'[d]
  BY DEF Connection, ReplyWithoutStaging, ReplyTimesOut, ReplyStages, Reply,
      ClientConnect, SendSignonRedirects, SendSignonPasses, SendMessage, ClientActive,
      ClientDisconnect, Abandon, Download, TypeOK
<1>4. \A d \in Clients : info'[d].toLoad = info[d].toLoad
  BY <1>0, <1>2
<1>5. \A d \in Clients : Full(d)' = Full(d)
  BY <1>1, <1>4, FullStays
<1>6. \A d \in Clients \ {c} : /\ info'[d] = info[d]
                               /\ phase'[d] = phase[d]
                               /\ told'[d] = told[d]
  BY <1>0, <1>2 DEF TypeOK
<1> QED
  BY <1>1, <1>3, <1>4, <1>5, <1>6

\* The client the step is about.
LEMMA ConnectionHonest ==
    ASSUME TypeOK, TypeOK', NEW c \in Clients, Honest(c), Connection(c)
    PROVE  Honest(c)'
<1>0. /\ info[c] \in Records /\ DOMAIN info = Clients \cup {Global}
      /\ c \in DOMAIN phase /\ c \in DOMAIN told /\ c \in DOMAIN installed
      /\ TypeOK /\ Honest(c)
  BY DEF TypeOK
<1>1. /\ optOut' = optOut
      /\ Full(c)' = Full(c)
      /\ installed[c] \subseteq installed'[c]
  BY <1>0, ConnectionFrame
<1>2. Seen(c) \in Records /\ Seen(c).downloaded \subseteq info[c].downloaded
      /\ Seen(c).pending \in {None, info[c].pending}
  BY <1>0, SeenType DEF Seen, Records
<1>3. CASE ReplyWithoutStaging(c)
  <2>1. info' = [info EXCEPT ![c] = [Seen(c) EXCEPT !.pending = None]]
        /\ phase' = [phase EXCEPT ![c] = "offered"]
    BY <1>3 DEF ReplyWithoutStaging, Reply
  <2>2. info'[c].pending = None /\ info'[c].downloaded \subseteq info[c].downloaded
        /\ phase'[c] = "offered"
    BY <1>0, <1>2, <2>1 DEF Records
  <2> QED
    BY <1>0, <1>1, <2>2 DEF Honest
<1>4. CASE ReplyTimesOut(c)
  <2>1. info'[c] = Seen(c) /\ phase'[c] = "ignored"
    BY <1>0, <1>4 DEF ReplyTimesOut
  <2> QED
    BY <1>0, <1>1, <1>2, <2>1 DEF Honest
<1>5. CASE ReplyStages(c)
  <2> DEFINE seen    == Seen(c)
             head    == First(AddonList(c), Need(c))
             pending == IF head \in seen.downloaded THEN seen.pending ELSE head
             staged  == Staged(c, seen.downloaded, pending)
  <2>1. head \in Need(c) /\ Need(c) \subseteq Full(c)
    BY <1>0, <1>5, FirstNeeded, ListTypes DEF ReplyStages
  <2>2. pending # None => pending \in Full(c)
    BY <1>0, <1>2, <2>1 DEF Honest
  <2>3. pending # None => pending \in staged \/ (c \in optOut /\ pending \in Rss)
    BY <2>2 DEF Staged, Need, Skips
  <2> HIDE DEF head, pending, staged
  <2>4. /\ info' = [info EXCEPT ![c] =
                       [seen EXCEPT !.pending = pending, !.state = "CONNECTING"]]
        /\ phase' = [phase EXCEPT ![c] = "offered"]
        /\ told' = [told EXCEPT ![c] = staged]
    BY <1>5 DEF ReplyStages, Reply, head, pending, staged
  <2>5. /\ info'[c].pending = pending /\ info'[c].downloaded = seen.downloaded
        /\ phase'[c] = "offered" /\ told'[c] = staged
    BY <1>0, <1>2, <2>4 DEF Records
  <2> QED
    BY <1>0, <1>1, <1>2, <2>2, <2>3, <2>5 DEF Honest
<1>6. CASE ClientConnect(c)
  <2> DEFINE joined == [info[c] EXCEPT !.state = "JOINED", !.waiting = 0]
             marked == IF info[c].pending = None THEN {} ELSE Shortcut(c) \cup InTime(c)
             record == IF Full(c) = {} THEN joined
                       ELSE [joined EXCEPT !.downloaded = @ \cup marked,
                                           !.pending = None, !.idle = 0]
  <2>1. /\ info'[c] = record /\ phase'[c] = "connected"
        /\ phase[c] = "offered" /\ told[c] \subseteq installed[c]
    BY <1>0, <1>6 DEF ClientConnect
  <2>2. marked \subseteq installed[c]
    BY <1>0, <2>1 DEF Honest, Shortcut, InTime
  <2>3. Full(c) = {} => info[c].pending = None
    BY <1>0 DEF Honest
  <2> HIDE DEF marked
  <2>4. record.pending = None
    BY <1>0, <2>3 DEF Records
  <2>5. record.downloaded \subseteq info[c].downloaded \cup marked
    BY <1>0 DEF Records
  <2> HIDE DEF record
  <2> QED
    BY <1>0, <1>1, <2>1, <2>2, <2>4, <2>5 DEF Honest
<1>7. CASE SendSignonRedirects(c)
  <2> DEFINE next == First(AddonList(c), Missing(c))
  <2>1. next \in Full(c)
    BY <1>0, <1>7, FirstNeeded, ListTypes DEF SendSignonRedirects, Complete
  <2>2. info' = [info EXCEPT ![c] = [info[c] EXCEPT !.pending = next, !.idle = 0]]
        /\ phase' = [phase EXCEPT ![c] = "reloading"]
    BY <1>7 DEF SendSignonRedirects
  <2> HIDE DEF next
  <2>3. info'[c].pending = next /\ info'[c].downloaded = info[c].downloaded
        /\ phase'[c] = "reloading"
    BY <1>0, <2>2 DEF Records
  <2> QED
    BY <1>0, <1>1, <2>1, <2>3 DEF Honest
<1>8. CASE SendSignonPasses(c)
  <2>1. Leftover(c) = {}
    BY <1>0, <1>8 DEF SendSignonPasses, Leftover, Honest
  <2>2. info' = [info EXCEPT ![c] = [info[c] EXCEPT !.pending = None, !.idle = 0,
                                        !.downloaded = @ \cup Leftover(c)]]
    BY <1>8 DEF SendSignonPasses
  <2>3. info'[c].pending = None /\ info'[c].downloaded = info[c].downloaded \cup Leftover(c)
    BY <1>0, <2>2 DEF Records
  <2> QED
    BY <1>0, <1>1, <2>1, <2>3 DEF Honest
<1>9. CASE SendMessage(c)
  <2>1. info'[c] = [info[c] EXCEPT !.idle = 0]
        /\ UNCHANGED <<phase, told>>
    BY <1>0, <1>9 DEF SendMessage, clientVars
  <2>2. info'[c].pending = info[c].pending /\ info'[c].downloaded = info[c].downloaded
    BY <1>0, <2>1 DEF Records
  <2> QED
    BY <1>0, <1>1, <2>1, <2>2 DEF Honest
<1>10. CASE ClientActive(c)
  <2>1. info'[c] = [info[c] EXCEPT !.downloaded = IF CacheOn THEN @ ELSE {}]
        /\ phase'[c] = "active"
    BY <1>0, <1>10 DEF ClientActive
  <2>2. info'[c].pending = info[c].pending
        /\ info'[c].downloaded \subseteq info[c].downloaded
    BY <1>0, <2>1 DEF Records
  <2> QED
    BY <1>0, <1>1, <2>1, <2>2 DEF Honest
<1>11. CASE ClientDisconnect(c) \/ Abandon(c)
  <2>1. info'[c] \in {info[c], Disconnected(c)} /\ phase'[c] = "away"
    BY <1>0, <1>11 DEF ClientDisconnect, Abandon, Leaves
  <2>2. info'[c].pending = info[c].pending /\ info'[c].downloaded = info[c].downloaded
    BY <1>0, <2>1 DEF Disconnected, Records
  <2> QED
    BY <1>0, <1>1, <2>1, <2>2 DEF Honest
<1>12. ASSUME NEW a \in Addons, Download(c, a)
       PROVE  Honest(c)'
  BY <1>0, <1>1, <1>12 DEF Download, clientVars, Honest
<1> QED
  BY <1>3, <1>4, <1>5, <1>6, <1>7, <1>8, <1>9, <1>10, <1>11, <1>12 DEF Connection

\* A list only grows when other plugins may add to it but not remove.
LEMMA RelistGrows ==
    ASSUME TypeOK, TypeOK', NEW a \in Addons, NEW r \in Clients \cup {Global},
           NEW pending, Relist(r, Append(OwnList(r), a), pending),
           UNCHANGED <<wsMap, mounted>>
    PROVE  /\ \A d \in Clients : Full(d) \subseteq Full(d)'
           /\ \A d \in Clients \ {r} : info'[d] = info[d]
           /\ r \in Clients => a \in Full(r)'
           /\ info'[r].pending = pending /\ info'[r].downloaded = info[r].downloaded
<1>0. info[r] \in Records /\ DOMAIN info = Clients \cup {Global}
  BY DEF TypeOK
<1>1. OwnList(r) \in Seq(Addons)
  BY OwnListType
<1>2. Range(Append(OwnList(r), a)) = Range(OwnList(r)) \cup {a}
  BY <1>1, AppendRange
<1>3. /\ info'[r].pending = pending /\ info'[r].downloaded = info[r].downloaded
      /\ r # Global => info'[r].toLoad = Append(OwnList(r), a)
      /\ r = Global => globalAddons' = Append(OwnList(r), a)
      /\ r # Global => globalAddons' = globalAddons
      /\ \A d \in Clients \ {r} : info'[d] = info[d]
  BY <1>0 DEF Relist, Records
<1>4. \A d \in Clients : /\ Range(globalAddons) \subseteq Range(globalAddons')
                         /\ Range(info[d].toLoad) \subseteq Range(info'[d].toLoad)
  BY <1>2, <1>3, ClientsAssumption DEF OwnList
<1>5. \A d \in Clients : Full(d) \subseteq Full(d)'
  BY <1>4, FullIs, FullIsPrimed DEF FullList
<1>6. r \in Clients => a \in Full(r)'
  BY <1>2, <1>3, ClientsAssumption, FullIsPrimed DEF FullList, OwnList
<1> QED
  BY <1>3, <1>5, <1>6

\* Another plugin lists an addon.
LEMMA ListingHonest ==
    ASSUME TypeOK, TypeOK', NEW d \in Clients, Honest(d),
           NEW a \in Addons, NEW r \in Clients \cup {Global}, NEW c \in Clients,
           AddClientAddon(a, r) \/ AddClientAddonRefreshes(a, r, c)
    PROVE  Honest(d)'
<1>0. info[d] \in Records /\ d # Global
  BY ClientsAssumption DEF TypeOK
<1>1. CASE AddClientAddon(a, r)
  <2>1. /\ Relist(r, Append(OwnList(r), a), info[r].pending)
        /\ UNCHANGED <<wsMap, mounted, optOut, phase, told, installed>>
    BY <1>1 DEF AddClientAddon, serverVars, clientVars
  <2>2. /\ Full(d) \subseteq Full(d)'
        /\ info'[d].pending = info[d].pending /\ info'[d].downloaded = info[d].downloaded
    BY <1>0, <2>1, RelistGrows
  <2> QED
    BY <1>0, <2>1, <2>2 DEF Honest
<1>2. CASE AddClientAddonRefreshes(a, r, c)
  <2> DEFINE head == IF Missing(r) = {} THEN a ELSE First(AddonList(r), Missing(r))
  <2>1. /\ Relist(r, Append(OwnList(r), a), head)
        /\ phase' = [phase EXCEPT ![c] = "reloading"]
        /\ told' = [told EXCEPT ![c] = {a}]
        /\ r \in {c, Global}
        /\ UNCHANGED <<wsMap, mounted, optOut, installed>>
    BY <1>2 DEF AddClientAddonRefreshes, serverVars
  <2>2. Missing(r) # {} => First(AddonList(r), Missing(r)) \in Full(r)
    BY <1>0, FirstNeeded, ListTypes
  <2> HIDE DEF head
  <2>3. /\ Full(d) \subseteq Full(d)' /\ (r \in Clients => Full(r) \subseteq Full(r)')
        /\ (d # r => info'[d] = info[d])
        /\ r \in Clients => a \in Full(r)'
        /\ info'[r].pending = head /\ info'[r].downloaded = info[r].downloaded
    BY <1>0, <2>1, RelistGrows
  <2>4. d = r => d = c
    BY <1>0, <2>1
  <2>5. phase'[c] = "reloading" /\ (d # c => phase'[d] = phase[d] /\ told'[d] = told[d])
    BY <1>0, <2>1 DEF TypeOK
  <2>6. CASE d = r
    <3>1. info'[d].pending \in Full(d)'
      BY <2>2, <2>3, <2>6 DEF head
    <3> QED
      BY <1>0, <2>1, <2>3, <2>4, <2>5, <2>6, <3>1 DEF Honest
  <2>7. CASE d # r
    BY <1>0, <2>1, <2>3, <2>5, <2>7 DEF Honest
  <2> QED
    BY <2>6, <2>7
<1> QED
  BY <1>1, <1>2

\* A preference is changed.
LEMMA PreferenceHonest ==
    ASSUME TypeOK, TypeOK', NEW d \in Clients, Honest(d),
           NEW c \in Clients, NEW enabled \in BOOLEAN, SetClientRssAssetsEnabled(c, enabled)
    PROVE  Honest(d)'
<1>0. info[d] \in Records /\ DOMAIN info = Clients \cup {Global}
  BY DEF TypeOK
<1>1. UNCHANGED <<wsMap, mounted, globalAddons, phase, told, installed>>
  BY DEF SetClientRssAssetsEnabled, serverVars, clientVars
<1>2. CASE enabled
  <2>1. info' = [info EXCEPT ![c] = ForgetRss(info[c])] /\ optOut' = optOut \ {c}
    BY <1>2 DEF SetClientRssAssetsEnabled
  <2>2. /\ ForgetRss(info[d]).toLoad = info[d].toLoad
        /\ ForgetRss(info[d]).downloaded \subseteq info[d].downloaded
        /\ ForgetRss(info[d]).pending =
               IF info[d].pending \in Rss THEN None ELSE info[d].pending
    BY <1>0 DEF ForgetRss, Records
  <2>3. info'[d].toLoad = info[d].toLoad
    BY <1>0, <2>1, <2>2
  <2>4. Full(d)' = Full(d)
    BY <1>0, <1>1, <2>3, FullStays
  <2>5. CASE d = c
    <3>1. info'[d] = ForgetRss(info[d])
      BY <1>0, <2>1, <2>5
    <3> QED
      BY <1>0, <1>1, <2>2, <2>4, <3>1 DEF Honest
  <2>6. CASE d # c
    <3>1. info'[d] = info[d] /\ (d \in optOut <=> d \in optOut')
      BY <1>0, <2>1, <2>6
    <3> QED
      BY <1>0, <1>1, <2>4, <3>1 DEF Honest
  <2> QED
    BY <1>1, <2>5, <2>6
<1>3. CASE ~enabled
  <2>1. info' = info /\ optOut' = optOut \cup {c}
    BY <1>3 DEF SetClientRssAssetsEnabled
  <2>2. Full(d)' = Full(d)
    BY <1>0, <1>1, <2>1, FullStays
  <2> QED
    BY <1>0, <1>1, <2>1, <2>2 DEF Honest
<1> QED
  BY <1>2, <1>3

LEMMA ApiHonest ==
    ASSUME StableLists, TypeOK, TypeOK', NEW d \in Clients, Honest(d), Api
    PROVE  Honest(d)'
<1>1. Listable \subseteq Addons /\ "remove" \notin Events
  BY AddonsAssumption DEF StableLists
<1>2. ASSUME NEW a \in Addons, NEW r \in Clients \cup {Global}, AddClientAddon(a, r)
      PROVE  Honest(d)'
  BY <1>2, ListingHonest
<1> QED
  BY <1>1, <1>2, ListingHonest, PreferenceHonest DEF Api, RemoveClientAddon, ClearClientAddons

\* A frame, or time, touches no list.
LEMMA FrameHonest ==
    ASSUME TypeOK, TypeOK', NEW d \in Clients, Honest(d), GameFrame \/ Tick
    PROVE  Honest(d)'
<1>0. info[d] \in Records
  BY DEF TypeOK
<1>1. UNCHANGED <<wsMap, mounted, globalAddons, optOut, installed>>
  BY DEF GameFrame, Tick, Unchanged, serverVars
<1>2. /\ info'[d].toLoad = info[d].toLoad /\ info'[d].pending = info[d].pending
      /\ info'[d].downloaded = info[d].downloaded
      /\ phase'[d] = "away" \/ (phase'[d] = phase[d] /\ told'[d] = told[d])
  <2>1. CASE GameFrame
    <3>1. \/ info'[d] = Disconnected(d) /\ phase'[d] = "away"
          \/ info'[d] = info[d] /\ phase'[d] = phase[d] /\ told'[d] = told[d]
      BY <2>1 DEF GameFrame
    <3> QED
      BY <1>0, <3>1 DEF Disconnected, Records
  <2>2. CASE Tick
    <3>1. info'[d] = [info[d] EXCEPT
              !.idle = Older(@),
              !.waiting = IF info[d].state = "CONNECTING" THEN Older(@) ELSE @]
      BY <2>2 DEF Tick
    <3> QED
      BY <1>0, <2>2, <3>1 DEF Records, Tick, clientVars
  <2> QED
    BY <2>1, <2>2
<1>3. Full(d)' = Full(d)
  BY <1>1, <1>2, FullStays
<1> QED
  BY <1>1, <1>2, <1>3 DEF Honest

LEMMA NextHonest ==
    ASSUME StableLists, BInv, [Next]_vars
    PROVE  BInv'
<1>0. TypeOK /\ TypeOK' /\ ~changing /\ (\A d \in Clients : Honest(d))
      /\ "map" \notin Events
  BY NextType DEF BInv, StableLists
<1>1. ASSUME NEW c \in Clients, Connection(c)
      PROVE  BInv'
  <2>1. /\ changing' = changing /\ optOut' = optOut
        /\ \A d \in Clients : Full(d)' = Full(d) /\ installed[d] \subseteq installed'[d]
        /\ \A d \in Clients \ {c} :
              info'[d] = info[d] /\ phase'[d] = phase[d] /\ told'[d] = told[d]
    BY <1>0, <1>1, ConnectionFrame
  <2>2. \A d \in Clients \ {c} : Honest(d)'
    BY <1>0, <2>1, OthersStayHonest
  <2>3. Honest(c)'
    BY <1>0, <1>1, ConnectionHonest
  <2> QED
    BY <1>0, <2>1, <2>2, <2>3 DEF BInv
<1>2. CASE Api
  <2>1. \A d \in Clients : Honest(d)'
    BY <1>0, <1>2, ApiHonest
  <2>2. changing' = changing
    BY <1>2 DEF Api, AddClientAddon, AddClientAddonRefreshes, RemoveClientAddon,
        ClearClientAddons, SetClientRssAssetsEnabled, serverVars
  <2> QED
    BY <1>0, <2>1, <2>2 DEF BInv
<1>3. ~(\E m \in Maps : RequestMap(m)) /\ ~ChangeLevel
  BY <1>0 DEF RequestMap, ChangeLevel
<1>4. CASE GameFrame \/ Tick
  <2>1. changing' = changing
    BY <1>4 DEF GameFrame, Tick, Unchanged, serverVars
  <2> QED
    BY <1>0, <1>4, <2>1, FrameHonest DEF BInv
<1>5. CASE UNCHANGED vars
  <2>1. UNCHANGED <<wsMap, changing, mounted, globalAddons, optOut,
                  info, phase, told, installed>>
    BY <1>5 DEF vars, serverVars, clientVars
  <2>2. \A d \in Clients : Full(d)' = Full(d)
    BY <1>0, <2>1, FullStays
  <2> QED
    BY <1>0, <2>1, <2>2 DEF BInv, Honest
<1> QED
  BY <1>1, <1>2, <1>3, <1>4, <1>5 DEF Next

\* While maps stay and no addon is unlisted, what the plugin believes a client
\* has, the client has, for any number of clients and addons, any timeouts, and
\* with other plugins listing addons, refreshing and toggling preferences.
THEOREM BeliefsAreSound ==
    ASSUME StableLists
    PROVE  Spec => []BeliefSound
<1>1. BInv /\ [Next]_vars => BInv'
  BY NextHonest
<1>2. BInv => BeliefSound
  BY DEF BInv, Honest, BeliefSound
<1> QED
  BY <1>1, <1>2, InitHonest, PTL DEF Spec

-----------------------------------------------------------------------------
(* Who becomes active has everything and mounts everything.  What the plugin *)
(* believes may be wrong here, since addons are unlisted and maps change:    *)
(* what saves the client is that each connection response repeats all that   *)
(* is believed of it, and that it enters only with what it was told to have. *)

\* Lists may shrink and maps may change, but nothing is added on the way.
NothingAdded == Events \cap {"add", "refresh", "prefer"} = {}

\* What the plugin counts as had, or will on the next signon message.
Counted(c) == info[c].downloaded \cup {info[c].pending}

\* While no map change is announced, what is counted was in the last response,
\* and from ClientConnect on it is on the client's disk.
Supplied(c) ==
    ~changing =>
        /\ phase[c] = "offered" =>
              Need(c) \cap Counted(c) \subseteq told[c] \cap offer[c]
        /\ phase[c] \in {"connected", "spawning"} =>
              Need(c) \cap Counted(c) \subseteq installed[c] \cap offer[c]
        /\ phase[c] = "spawning" => Need(c) \subseteq installed[c] \cap offer[c]
        /\ phase[c] \in {"offered", "connected", "spawning"} =>
              Full(c) \ Need(c) \subseteq offer[c]

SuppliedInv == TypeOK /\ \A c \in Clients : Supplied(c)

LEMMA WithoutRange ==
    ASSUME NEW T, NEW s \in Seq(T), NEW a
    PROVE  Range(Without(s, a)) \subseteq Range(s)
<1>1. CASE a \in Range(s)
  <2>1. PICK k \in DOMAIN s : s[k] = a
    BY <1>1 DEF Range
  <2> DEFINE i == CHOOSE n \in DOMAIN s : s[n] = a
  <2>2. i \in 1..Len(s)
    BY <2>1
  <2> HIDE DEF i
  <2>3. SubSeq(s, 1, i - 1) \in Seq(T) /\ SubSeq(s, i + 1, Len(s)) \in Seq(T)
    BY <2>2
  <2>4. Range(SubSeq(s, 1, i - 1)) \subseteq Range(s)
    BY <2>2 DEF Range
  <2>5. Range(SubSeq(s, i + 1, Len(s))) \subseteq Range(s)
    BY <2>2 DEF Range
  <2> DEFINE front == SubSeq(s, 1, i - 1)
             back  == SubSeq(s, i + 1, Len(s))
  <2>6. front \in Seq(T) /\ back \in Seq(T)
    BY <2>3
  <2> HIDE DEF front, back
  <2>7. \A r, t \in Seq(T) : Range(r \o t) = Range(r) \cup Range(t)
    BY TwoLists
  <2>8. Range(front \o back) = Range(front) \cup Range(back)
    BY <2>6, <2>7, Zenon
  <2> QED
    BY <1>1, <2>4, <2>5, <2>8 DEF Without, i, front, back
<1>2. CASE a \notin Range(s)
  BY <1>2 DEF Without
<1> QED
  BY <1>1, <1>2

\* A shorter list, with the same map and opt-outs, is needed as far as it goes.
LEMMA NeedOfShorter ==
    ASSUME NEW c \in Clients, Full(c)' \subseteq Full(c), UNCHANGED <<wsMap, optOut>>
    PROVE  /\ Need(c)' = Need(c) \cap Full(c)'
           /\ Full(c)' \ Need(c)' \subseteq Full(c) \ Need(c)
BY DEF Need, Skips

\* A client that stays where it is stays supplied when its list gets shorter.
LEMMA SupplyStays ==
    ASSUME NEW c \in Clients, Supplied(c),
           UNCHANGED <<wsMap, changing, optOut>>, Full(c)' \subseteq Full(c),
           info'[c].downloaded = info[c].downloaded, info'[c].pending = info[c].pending,
           phase'[c] = phase[c], told'[c] = told[c], offer'[c] = offer[c],
           installed[c] \subseteq installed'[c]
    PROVE  Supplied(c)'
BY NeedOfShorter DEF Supplied, Counted

\* A client that is not on its way in needs no supply.
LEMMA SupplyElsewhere ==
    ASSUME NEW c \in Clients, phase'[c] \in {"away", "ignored", "reloading", "active"}
    PROVE  Supplied(c)'
BY DEF Supplied

LEMMA InitSupplied == Init => SuppliedInv
BY InitType DEF Init, SuppliedInv, Supplied

\* What one client's connection leaves alone of its response.
LEMMA OfferFrame ==
    ASSUME TypeOK, NEW c \in Clients, Connection(c)
    PROVE  \A d \in Clients \ {c} : offer'[d] = offer[d]
BY DEF Connection, ReplyWithoutStaging, ReplyTimesOut, ReplyStages, Reply,
    ClientConnect, SendSignonRedirects, SendSignonPasses, SendMessage, ClientActive,
    ClientDisconnect, Abandon, Leaves, Download, clientVars, TypeOK

LEMMA ConnectionSupplied ==
    ASSUME SuppliedInv, TypeOK', NEW c \in Clients, Connection(c)
    PROVE  Supplied(c)'
<1>0. /\ TypeOK /\ Supplied(c) /\ info[c] \in Records
      /\ DOMAIN info = Clients \cup {Global}
      /\ c \in DOMAIN phase /\ c \in DOMAIN told /\ c \in DOMAIN offer
  BY DEF SuppliedInv, TypeOK
<1>1. /\ UNCHANGED <<wsMap, changing, optOut>>
      /\ Full(c)' = Full(c)
      /\ installed[c] \subseteq installed'[c]
  BY <1>0, ConnectionFrame
<1>2. /\ Need(c)' = Need(c) /\ Need(c) \subseteq Full(c) /\ None \notin Full(c)
  <2>1. Need(c)' = Need(c) \cap Full(c)'
    BY <1>1, NeedOfShorter
  <2>2. Need(c) \subseteq Full(c) /\ None \notin Full(c)
    BY <1>0, ListTypes
  <2> QED
    BY <1>1, <2>1, <2>2
<1>3. Seen(c) \in Records
  BY <1>0, SeenType
<1>4. CASE ReplyWithoutStaging(c)
  <2>1. Need(c) = {} /\ offer' = [offer EXCEPT ![c] =
            IF Full(c) = {} THEN Range(serverAddons) ELSE Full(c)]
    BY <1>4 DEF ReplyWithoutStaging, Reply
  <2>2. phase' = [phase EXCEPT ![c] = "offered"]
    BY <1>4 DEF ReplyWithoutStaging, Reply
  <2> QED
    BY <1>0, <1>1, <1>2, <2>1, <2>2 DEF Supplied
<1>5. CASE ReplyTimesOut(c)
  BY <1>0, <1>5, SupplyElsewhere DEF ReplyTimesOut
<1>6. CASE ReplyStages(c)
  <2> DEFINE seen    == Seen(c)
             head    == First(AddonList(c), Need(c))
             pending == IF head \in seen.downloaded THEN seen.pending ELSE head
             staged  == Staged(c, seen.downloaded, pending)
  <2>1. Full(c) \ Need(c) \subseteq FastMount(c)
    BY DEF Need, Skips, FastMount
  <2> HIDE DEF head, pending
  <2>2. staged = Need(c) \cap (seen.downloaded \cup {pending})
    BY DEF Staged
  <2> HIDE DEF staged
  <2>3. /\ info' = [info EXCEPT ![c] =
                       [seen EXCEPT !.pending = pending, !.state = "CONNECTING"]]
        /\ phase' = [phase EXCEPT ![c] = "offered"]
        /\ told' = [told EXCEPT ![c] = staged]
        /\ offer' = [offer EXCEPT ![c] = staged \cup FastMount(c)]
    BY <1>6 DEF ReplyStages, Reply, head, pending, staged
  <2>4. /\ info'[c].pending = pending /\ info'[c].downloaded = seen.downloaded
        /\ phase'[c] = "offered" /\ told'[c] = staged
        /\ offer'[c] = staged \cup FastMount(c)
    BY <1>0, <1>3, <2>3 DEF Records
  <2> QED
    BY <1>1, <1>2, <2>1, <2>2, <2>4 DEF Supplied, Counted
<1>7. CASE ClientConnect(c)
  <2> DEFINE joined == [info[c] EXCEPT !.state = "JOINED", !.waiting = 0]
             marked == IF info[c].pending = None THEN {} ELSE Shortcut(c) \cup InTime(c)
             record == IF Full(c) = {} THEN joined
                       ELSE [joined EXCEPT !.downloaded = @ \cup marked,
                                           !.pending = None, !.idle = 0]
  <2>1. /\ info'[c] = record /\ phase'[c] = "connected"
        /\ phase[c] = "offered" /\ told[c] \subseteq installed[c] /\ offer' = offer
        /\ ~changing
    BY <1>0, <1>7 DEF ClientConnect
  <2>2. marked \subseteq {info[c].pending}
    BY <1>0, MarkedIsPending
  <2> HIDE DEF marked
  <2>3. /\ record.downloaded \subseteq info[c].downloaded \cup {info[c].pending}
        /\ record.pending \in {None, info[c].pending}
    BY <1>0, <2>2 DEF Records
  <2> HIDE DEF record
  <2>4. Need(c) \cap Counted(c)' \subseteq Need(c) \cap Counted(c)
    BY <1>2, <2>1, <2>3 DEF Counted
  <2> QED
    BY <1>0, <1>1, <1>2, <2>1, <2>4 DEF Supplied
<1>8. CASE SendSignonRedirects(c)
  BY <1>0, <1>8, SupplyElsewhere DEF SendSignonRedirects
<1>9. CASE SendSignonPasses(c)
  <2>1. /\ info' = [info EXCEPT ![c] = [info[c] EXCEPT !.pending = None, !.idle = 0,
                                            !.downloaded = @ \cup Leftover(c)]]
        /\ phase' = [phase EXCEPT ![c] = "spawning"]
        /\ phase[c] \in {"connected", "spawning"} /\ offer' = offer /\ ~changing
        /\ Need(c) \subseteq info[c].downloaded
    BY <1>9 DEF SendSignonPasses, Complete, Missing
  <2>2. Need(c) \subseteq installed[c] \cap offer[c]
    BY <1>0, <2>1 DEF Supplied, Counted
  <2>3. phase'[c] = "spawning"
    BY <1>0, <2>1
  <2> QED
    BY <1>0, <1>1, <1>2, <2>1, <2>2, <2>3 DEF Supplied
<1>10. CASE SendMessage(c)
  <2>1. info'[c] = [info[c] EXCEPT !.idle = 0] /\ UNCHANGED <<phase, told, offer>>
    BY <1>0, <1>10 DEF SendMessage, clientVars
  <2>2. info'[c].pending = info[c].pending /\ info'[c].downloaded = info[c].downloaded
    BY <1>0, <2>1 DEF Records
  <2> QED
    BY <1>0, <1>1, <2>1, <2>2, SupplyStays
<1>11. CASE ClientActive(c) \/ ClientDisconnect(c) \/ Abandon(c)
  BY <1>0, <1>11, SupplyElsewhere DEF ClientActive, ClientDisconnect, Abandon, Leaves
<1>12. ASSUME NEW a \in Addons, Download(c, a)
       PROVE  Supplied(c)'
  <2>1. UNCHANGED <<info, phase, told, offer>>
    BY <1>12 DEF Download, clientVars
  <2> QED
    BY <1>0, <1>1, <2>1, SupplyStays
<1> QED
  BY <1>4, <1>5, <1>6, <1>7, <1>8, <1>9, <1>10, <1>11, <1>12 DEF Connection

\* Unlisting shortens the lists and touches nothing else.
LEMMA UnlistingShortens ==
    ASSUME TypeOK, TypeOK', NEW r \in Clients \cup {Global}, NEW list \in Seq(Addons),
           Range(list) \subseteq Range(OwnList(r)),
           Relist(r, list, info[r].pending), UNCHANGED <<wsMap, mounted>>
    PROVE  \A d \in Clients : /\ Full(d)' \subseteq Full(d)
                              /\ info'[d].downloaded = info[d].downloaded
                              /\ info'[d].pending = info[d].pending
<1>0. info[r] \in Records /\ DOMAIN info = Clients \cup {Global}
  BY DEF TypeOK
<1>1. /\ r # Global => info'[r].toLoad = list
      /\ info'[r].downloaded = info[r].downloaded /\ info'[r].pending = info[r].pending
      /\ globalAddons' = IF r = Global THEN list ELSE globalAddons
      /\ \A d \in Clients \ {r} : info'[d] = info[d]
  BY <1>0 DEF Relist, Records
<1>2. \A d \in Clients : /\ Range(globalAddons') \subseteq Range(globalAddons)
                         /\ Range(info'[d].toLoad) \subseteq Range(info[d].toLoad)
  BY <1>1, ClientsAssumption DEF OwnList
<1>3. \A d \in Clients : Full(d)' \subseteq Full(d)
  BY <1>2, FullIs, FullIsPrimed DEF FullList
<1> QED
  BY <1>1, <1>3

LEMMA NextSupplied ==
    ASSUME NothingAdded, SuppliedInv, [Next]_vars
    PROVE  SuppliedInv'
<1>0. TypeOK /\ TypeOK' /\ \A d \in Clients : Supplied(d)
  BY NextType DEF SuppliedInv
<1> SUFFICES ASSUME NEW d \in Clients PROVE Supplied(d)'
  BY <1>0 DEF SuppliedInv
<1>1. ASSUME NEW c \in Clients, Connection(c)
      PROVE  Supplied(d)'
  <2>1. /\ UNCHANGED <<wsMap, changing, optOut>>
        /\ Full(d)' = Full(d) /\ installed[d] \subseteq installed'[d]
        /\ d # c => info'[d] = info[d] /\ phase'[d] = phase[d] /\ told'[d] = told[d]
    BY <1>0, <1>1, ConnectionFrame
  <2>2. d # c => offer'[d] = offer[d]
    BY <1>0, <1>1, OfferFrame
  <2>3. d # c => Supplied(d)'
    BY <1>0, <2>1, <2>2, SupplyStays
  <2> QED
    BY <1>0, <1>1, <2>3, ConnectionSupplied
<1>2. CASE Api
  <2>1. PICK r \in Clients \cup {Global} :
            (\E a \in Listable : RemoveClientAddon(a, r)) \/ ClearClientAddons(r)
    BY <1>2 DEF Api, NothingAdded, AddClientAddon, AddClientAddonRefreshes,
        SetClientRssAssetsEnabled
  <2>2. \E list \in Seq(Addons) :
            Range(list) \subseteq Range(OwnList(r)) /\ Relist(r, list, info[r].pending)
    <3>1. ASSUME NEW a \in Listable, RemoveClientAddon(a, r)
          PROVE  \E list \in Seq(Addons) : /\ Range(list) \subseteq Range(OwnList(r))
                                           /\ Relist(r, list, info[r].pending)
      BY <1>0, <3>1, OwnListType, WithoutType, WithoutRange DEF RemoveClientAddon
    <3>2. CASE ClearClientAddons(r)
      <4>1. <<>> \in Seq(Addons) /\ Range(<<>>) = {}
        BY DEF Range
      <4> QED
        BY <3>2, <4>1 DEF ClearClientAddons
    <3> QED
      BY <2>1, <3>1, <3>2
  <2>3. UNCHANGED <<wsMap, changing, mounted, optOut, phase, told, offer, installed>>
    BY <2>1 DEF RemoveClientAddon, ClearClientAddons, serverVars, clientVars
  <2>4. /\ Full(d)' \subseteq Full(d)
        /\ info'[d].downloaded = info[d].downloaded /\ info'[d].pending = info[d].pending
    BY <1>0, <2>2, <2>3, UnlistingShortens
  <2> QED
    BY <1>0, <2>3, <2>4, SupplyStays
<1>3. ASSUME NEW m \in Maps, RequestMap(m)
      PROVE  Supplied(d)'
  BY <1>3 DEF RequestMap, Supplied
<1>4. CASE ChangeLevel
  <2>1. phase'[d] \in {"away", "reloading"}
    BY <1>4 DEF ChangeLevel, TellLevel, InServer
  <2> QED
    BY <2>1, SupplyElsewhere
<1>5. CASE GameFrame
  <2>1. UNCHANGED <<wsMap, changing, mounted, globalAddons, optOut, installed>>
    BY <1>5 DEF GameFrame, Unchanged, serverVars
  <2>2. \/ phase'[d] = "away"
        \/ /\ info'[d] = info[d] /\ phase'[d] = phase[d]
           /\ told'[d] = told[d] /\ offer'[d] = offer[d]
    BY <1>5 DEF GameFrame
  <2>3. phase'[d] # "away" => Full(d)' = Full(d)
    BY <1>0, <2>1, <2>2, FullStays
  <2> QED
    BY <1>0, <2>1, <2>2, <2>3, SupplyStays, SupplyElsewhere
<1>6. CASE Tick
  <2>1. UNCHANGED <<wsMap, changing, mounted, globalAddons, optOut, installed,
                    phase, told, offer>>
    BY <1>6 DEF Tick, Unchanged, serverVars, clientVars
  <2>2. info[d] \in Records
    BY <1>0 DEF TypeOK
  <2>3. info'[d] = [info[d] EXCEPT
            !.idle = Older(@),
            !.waiting = IF info[d].state = "CONNECTING" THEN Older(@) ELSE @]
    BY <1>6 DEF Tick
  <2>4. info'[d].toLoad = info[d].toLoad /\ info'[d].pending = info[d].pending
        /\ info'[d].downloaded = info[d].downloaded
    BY <2>2, <2>3 DEF Records
  <2>5. Full(d)' = Full(d)
    BY <1>0, <2>1, <2>4, FullStays
  <2> QED
    BY <1>0, <2>1, <2>4, <2>5, SupplyStays
<1>7. CASE UNCHANGED vars
  <2>1. UNCHANGED <<wsMap, changing, mounted, globalAddons, optOut, info, installed,
                    phase, told, offer>>
    BY <1>7 DEF vars, serverVars, clientVars
  <2>2. Full(d)' = Full(d)
    BY <1>0, <2>1, FullStays
  <2> QED
    BY <1>0, <2>1, <2>2, SupplyStays
<1> QED
  BY <1>1, <1>2, <1>3, <1>4, <1>5, <1>6, <1>7 DEF Next

LEMMA SuppliedAlways ==
    ASSUME NothingAdded
    PROVE  Spec => []SuppliedInv
BY InitSupplied, NextSupplied, PTL DEF Spec

\* While nothing is added to the lists and no preference changes, a client that
\* becomes active has every addon it needs on its disk, whatever was unlisted,
\* which maps came and went, who timed out, gave up or was cached.
THEOREM ActiveClientsHaveAll ==
    ASSUME NothingAdded
    PROVE  Spec => ActiveHasAll
<1>1. SuppliedInv /\ [Next]_vars =>
        [\A c \in Clients : ClientActive(c) => Need(c) \subseteq installed[c]]_vars
  BY DEF SuppliedInv, Supplied, ClientActive
<1> QED
  BY <1>1, SuppliedAlways, PTL DEF Spec, ActiveHasAll

\* ... and the response it entered with named its full list, so that it mounts
\* what the server mounts.
THEOREM ActiveClientsMountAll ==
    ASSUME NothingAdded
    PROVE  Spec => ActiveMountsAll
<1>1. SuppliedInv /\ [Next]_vars =>
        [\A c \in Clients : ClientActive(c) => Full(c) \subseteq offer[c]]_vars
  BY DEF SuppliedInv, Supplied, ClientActive
<1> QED
  BY <1>1, SuppliedAlways, PTL DEF Spec, ActiveMountsAll

-----------------------------------------------------------------------------
(* What the messages ask of a client.  Between level changes the server's    *)
(* own addon string and the mounted addons are those of the workshop map.    *)

ServerInv ==
    /\ TypeOK
    /\ ~changing => /\ serverAddons = HostAddons(wsMap)
                    /\ mounted = Without(Mountable, wsMap)

\* The hooks and calls that are about clients leave the server alone.
LEMMA ServerStays ==
    ASSUME (\E c \in Clients : Connection(c)) \/ Api \/ GameFrame \/ Tick
    PROVE  UNCHANGED serverVars
BY DEF Connection, ReplyWithoutStaging, ReplyTimesOut, ReplyStages, Reply,
    ClientConnect, SendSignonRedirects, SendSignonPasses, SendMessage, ClientActive,
    ClientDisconnect, Abandon, Download, Api, AddClientAddon, AddClientAddonRefreshes,
    RemoveClientAddon, ClearClientAddons, SetClientRssAssetsEnabled, GameFrame, Tick,
    Unchanged

LEMMA NextServer ==
    ASSUME ServerInv, [Next]_vars
    PROVE  ServerInv'
<1>1. TypeOK'
  BY NextType DEF ServerInv
<1>2. CASE ChangeLevel
  BY <1>1, <1>2 DEF ChangeLevel, StartupServer, ServerInv, HostAddons, Without
<1>3. CASE \E m \in Maps : RequestMap(m)
  BY <1>1, <1>3 DEF RequestMap, ServerInv
<1>4. CASE UNCHANGED serverVars
  BY <1>1, <1>4 DEF serverVars, ServerInv, HostAddons, Without
<1> QED
  BY <1>2, <1>3, <1>4, ServerStays DEF Next, vars

LEMMA ServerAlways == Spec => []ServerInv
<1>1. Init => ServerInv
  BY InitType DEF Init, ServerInv
<1> QED
  BY <1>1, NextServer, PTL DEF Spec

\* The server's own string is a client's answer only when no map runs and nothing
\* is mounted.
LEMMA OwnAnswer ==
    ASSUME ServerInv, NEW c \in Clients, ReplyWithoutStaging(c), Full(c) = {}
    PROVE  None \in Maps /\ Mountable = <<>> /\ serverAddons = ExtraAddons
<1>1. TypeOK /\ ~changing /\ Mountable \in Seq(Addons) /\ wsMap \in Maps
  BY AddonsAssumption DEF ServerInv, TypeOK, ReplyWithoutStaging, Arrives
<1>2. wsMap = None /\ Range(mounted) = {}
  BY <1>1, FullIs DEF FullList
<1>3. None \notin Range(Mountable)
  BY <1>1, AddonsAssumption DEF Range
<1>4. mounted = Mountable /\ serverAddons = ExtraAddons
  BY <1>1, <1>2, <1>3 DEF ServerInv, Without, HostAddons
<1>5. Mountable = <<>>
  <2> SUFFICES ASSUME Mountable # <<>> PROVE FALSE
    OBVIOUS
  <2>1. 1 \in DOMAIN Mountable
    BY <1>1
  <2> QED
    BY <1>2, <1>4, <2>1 DEF Range
<1> QED
  BY <1>1, <1>2, <1>4, <1>5

\* Other plugins refresh with no RSS asset, and no server without a map leaves
\* one to the engine's own answer.
NoRssPushed ==
    /\ "refresh" \in Events => Listable \cap Rss = {}
    /\ None \in Maps /\ Mountable = <<>> => Range(ExtraAddons) \cap Rss = {}

\* A connection asks an opted-out client for an RSS asset only where the engine
\* answers for itself.
LEMMA ConnectionAsksNeeded ==
    ASSUME TypeOK, NEW c \in optOut, NEW d \in Clients, Connection(d),
           NEW a \in told'[c] \ told[c], a \in Rss
    PROVE  a = wsMap \/ (ReplyWithoutStaging(c) /\ Full(c) = {})
<1>0. TypeOK /\ c \in Clients /\ DOMAIN told = Clients
  BY DEF TypeOK
<1>1. CASE ReplyWithoutStaging(d)
  <2>1. told' = [told EXCEPT ![d] = IF Full(d) = {} THEN Range(serverAddons) ELSE {}]
    BY <1>1 DEF ReplyWithoutStaging, Reply
  <2> QED
    BY <1>0, <1>1, <2>1
<1>2. CASE ReplyStages(d)
  <2>1. PICK downloaded, pending : told' = [told EXCEPT ![d] = Staged(d, downloaded, pending)]
    BY <1>2 DEF ReplyStages, Reply
  <2> QED
    BY <1>0, <2>1 DEF Staged, Need, Skips
<1>3. CASE SendSignonRedirects(d)
  <2>1. /\ told' = [told EXCEPT ![d] = {First(AddonList(d), Missing(d))}]
        /\ Missing(d) # {}
    BY <1>3 DEF SendSignonRedirects, Complete
  <2>2. First(AddonList(d), Missing(d)) \in Missing(d)
    BY <1>0, <2>1, FirstNeeded, ListTypes
  <2> QED
    BY <1>0, <2>1, <2>2 DEF Missing, Need, Skips
<1>4. CASE ClientDisconnect(d) \/ Abandon(d)
  BY <1>0, <1>4 DEF ClientDisconnect, Abandon, Leaves
<1>5. CASE told' = told
  BY <1>5
<1> QED
  BY <1>1, <1>2, <1>3, <1>4, <1>5 DEF Connection, ReplyTimesOut, ClientConnect,
      SendSignonPasses, SendMessage, ClientActive, Download, clientVars

LEMMA LevelAsksNeeded ==
    ASSUME TypeOK, NEW list \in Seq(Addons), TellLevel(list), NEW c \in optOut,
           NEW a \in told'[c] \ told[c], a \in Rss
    PROVE  a = wsMap
<1>1. c \in Clients
  BY DEF TypeOK
<1>2. a \in {LevelHead(list, c)} \ {None}
  BY <1>1 DEF TellLevel
<1> QED
  BY <1>2, LevelHeadType DEF LevelAddons, Skips

LEMMA MessagesRespectOptOut ==
    ASSUME NoRssPushed, ServerInv, [Next]_vars, NEW c \in optOut,
           NEW a \in told'[c] \ told[c], a \in Rss
    PROVE  a = wsMap
<1>0. TypeOK /\ c \in Clients /\ DOMAIN told = Clients
  BY DEF ServerInv, TypeOK
<1>1. CASE \E d \in Clients : Connection(d)
  <2>1. ReplyWithoutStaging(c) /\ Full(c) = {} => a \in Range(serverAddons)
    BY <1>0 DEF ReplyWithoutStaging, Reply
  <2>2. ReplyWithoutStaging(c) /\ Full(c) = {} => Range(serverAddons) \cap Rss = {}
    BY <1>0, OwnAnswer DEF NoRssPushed
  <2> QED
    BY <1>0, <1>1, <2>1, <2>2, ConnectionAsksNeeded
<1>2. CASE Api
  <2>1. ASSUME NEW b \in Listable, NEW r \in Clients \cup {Global}, NEW d \in Clients,
               AddClientAddonRefreshes(b, r, d)
        PROVE  a = wsMap
    BY <1>0, <2>1 DEF AddClientAddonRefreshes, NoRssPushed
  <2> QED
    BY <1>2, <2>1 DEF Api, AddClientAddon, RemoveClientAddon, ClearClientAddons,
        SetClientRssAssetsEnabled, clientVars
<1>3. CASE ChangeLevel
  <2>1. HostAddons(wsMap) \in Seq(Addons)
    BY <1>0, HostAddonsType DEF TypeOK
  <2> QED
    BY <1>0, <1>3, <2>1, LevelAsksNeeded DEF ChangeLevel
<1>4. CASE GameFrame
  BY <1>0, <1>4 DEF GameFrame
<1> QED
  BY <1>1, <1>2, <1>3, <1>4 DEF Next, RequestMap, Tick, clientVars, vars

\* No message asks an opted-out client to download an RSS asset other than the
\* workshop map: neither an answer, a redirect nor a level change.
THEOREM OptOutIsRespected ==
    ASSUME NoRssPushed
    PROVE  Spec => OptOutRespected
<1>1. ServerInv /\ [Next]_vars =>
        [\A c \in optOut : \A a \in told'[c] \ told[c] : a \in Rss => a = wsMap]_vars
  BY MessagesRespectOptOut
<1> QED
  BY <1>1, ServerAlways, PTL DEF Spec, OptOutRespected

\* A server without a map names one extra addon at most while none is mounted.
ServerNamesOne == None \in Maps /\ Mountable = <<>> => Len(ExtraAddons) <= 1

FetchesOne(c) == \E x : told[c] \ installed[c] \subseteq {x}

FetchInv ==
    /\ BInv
    /\ ServerInv
    /\ \A c \in Clients : FetchesOne(c)

\* What was asked before is fetched in time, or asked no longer.
LEMMA FetchStays ==
    ASSUME NEW c \in Clients, FetchesOne(c), told'[c] \subseteq told[c],
           installed[c] \subseteq installed'[c]
    PROVE  FetchesOne(c)'
BY DEF FetchesOne

LEMMA NextFetch ==
    ASSUME StableLists, ServerNamesOne, FetchInv, [Next]_vars
    PROVE  FetchInv'
<1>0. /\ TypeOK /\ BInv /\ BInv' /\ ServerInv /\ ServerInv' /\ TypeOK'
      /\ ~changing /\ "map" \notin Events
      /\ \A c \in Clients : FetchesOne(c)
      /\ DOMAIN told = Clients
  BY NextHonest, NextServer DEF FetchInv, BInv, StableLists, TypeOK
<1> SUFFICES ASSUME NEW c \in Clients PROVE FetchesOne(c)'
  BY <1>0 DEF FetchInv
<1>1. ASSUME NEW d \in Clients, Connection(d)
      PROVE  FetchesOne(c)'
  <2>1. /\ installed[c] \subseteq installed'[c]
        /\ c # d => told'[c] = told[c]
    BY <1>0, <1>1, ConnectionFrame
  <2>2. CASE told'[c] \subseteq told[c]
    BY <1>0, <2>1, <2>2, FetchStays
  <2>3. CASE c = d /\ ReplyWithoutStaging(d)
    <3>1. told'[c] = IF Full(c) = {} THEN Range(serverAddons) ELSE {}
      BY <1>0, <2>3 DEF ReplyWithoutStaging, Reply
    <3>2. ExtraAddons \in Seq(Addons)
      BY AddonsAssumption
    <3>3. Full(c) = {} => Range(serverAddons) \subseteq {serverAddons[1]}
      BY <1>0, <2>3, <3>2, OwnAnswer DEF ServerNamesOne, Range
    <3> QED
      BY <3>1, <3>3 DEF FetchesOne
  <2>4. CASE c = d /\ ReplyStages(d)
    <3>1. PICK pending : told'[c] = Staged(c, Seen(c).downloaded, pending)
      BY <1>0, <2>4 DEF ReplyStages, Reply
    <3>2. info[c] \in Records /\ info[c].downloaded \subseteq installed[c]
      BY <1>0 DEF TypeOK, BInv, Honest
    <3>3. Seen(c).downloaded \subseteq installed[c]
      BY <3>2 DEF Seen, Records
    <3>4. told'[c] \ installed'[c] \subseteq {pending}
      BY <2>1, <3>1, <3>3 DEF Staged
    <3> QED
      BY <3>4 DEF FetchesOne
  <2>5. CASE c = d /\ SendSignonRedirects(d)
    BY <1>0, <2>5 DEF SendSignonRedirects, FetchesOne
  <2>6. CASE ClientDisconnect(d) \/ Abandon(d)
    BY <1>0, <2>2, <2>6 DEF ClientDisconnect, Abandon, Leaves
  <2> QED
    BY <1>1, <2>1, <2>2, <2>3, <2>4, <2>5, <2>6 DEF Connection, ReplyTimesOut,
        ClientConnect, SendSignonPasses, SendMessage, ClientActive, Download, clientVars
<1>2. CASE Api
  <2>1. installed' = installed
    BY <1>2 DEF Api, AddClientAddon, AddClientAddonRefreshes, RemoveClientAddon,
        ClearClientAddons, SetClientRssAssetsEnabled
  <2>2. told' = told \/ \E d \in Clients, a \in Addons : told' = [told EXCEPT ![d] = {a}]
    BY <1>2, AddonsAssumption DEF Api, AddClientAddon, AddClientAddonRefreshes,
        RemoveClientAddon, ClearClientAddons, SetClientRssAssetsEnabled, clientVars
  <2>3. told'[c] = told[c] \/ \E a \in Addons : told'[c] = {a}
    BY <1>0, <2>2
  <2> QED
    BY <1>0, <2>1, <2>3 DEF FetchesOne
<1>3. ~(\E m \in Maps : RequestMap(m)) /\ ~ChangeLevel
  BY <1>0 DEF RequestMap, ChangeLevel
<1>4. CASE GameFrame
  <2>1. told'[c] \subseteq told[c] /\ installed' = installed
    BY <1>4 DEF GameFrame
  <2> QED
    BY <1>0, <2>1, FetchStays
<1>5. CASE Tick \/ UNCHANGED vars
  <2>1. told' = told /\ installed' = installed
    BY <1>5 DEF Tick, clientVars, vars
  <2> QED
    BY <1>0, <2>1, FetchStays
<1> QED
  BY <1>1, <1>2, <1>3, <1>4, <1>5 DEF Next

\* A client never has two addons to fetch at once, as long as maps stay and no
\* addon is unlisted; what it is told beside one addon it already has.
THEOREM OneAddonAtATime ==
    ASSUME StableLists, ServerNamesOne
    PROVE  Spec => []AtMostOneToFetch
<1>1. Init => FetchInv
  <2> SUFFICES ASSUME Init PROVE FetchInv
    OBVIOUS
  <2>1. BInv /\ ServerInv
    BY InitHonest, InitType DEF Init, ServerInv
  <2>2. \A c \in Clients : told[c] = {}
    BY DEF Init
  <2> QED
    BY <2>1, <2>2 DEF FetchInv, FetchesOne
<1>2. FetchInv /\ [Next]_vars => FetchInv'
  BY NextFetch
<1>3. FetchInv => AtMostOneToFetch
  <2> SUFFICES ASSUME FetchInv, NEW c \in Clients
               PROVE  Cardinality(told[c] \ installed[c]) <= 1
    BY DEF AtMostOneToFetch
  <2>1. PICK x : told[c] \ installed[c] \subseteq {x}
    BY DEF FetchInv, FetchesOne
  <2>2. IsFiniteSet({x}) /\ Cardinality({x}) = 1
    BY FS_Singleton
  <2>3. Cardinality(told[c] \ installed[c]) <= Cardinality({x})
    BY <2>1, <2>2, FS_Subset
  <2> QED
    BY <2>2, <2>3
<1> QED
  BY <1>1, <1>2, <1>3, PTL DEF Spec

-----------------------------------------------------------------------------
(* Late reconnects.  An opted-out client takes the shortcut, which does not  *)
(* look at the time: it earns nothing there either, because what is pending  *)
(* is still listed and so was downloaded when nothing is missing.            *)

LEMMA LateConnect ==
    ASSUME BInv, NEW c \in Clients, ClientConnect(c), info[c].idle > ExtraTimeout
    PROVE  info'[c].downloaded \subseteq info[c].downloaded
<1>0. TypeOK /\ Honest(c) /\ info[c] \in Records /\ c \in DOMAIN info
  BY DEF BInv, TypeOK
<1> DEFINE joined == [info[c] EXCEPT !.state = "JOINED", !.waiting = 0]
           marked == IF info[c].pending = None THEN {} ELSE Shortcut(c) \cup InTime(c)
           record == IF Full(c) = {} THEN joined
                     ELSE [joined EXCEPT !.downloaded = @ \cup marked,
                                         !.pending = None, !.idle = 0]
<1>1. info'[c] = record
  BY <1>0 DEF ClientConnect
<1>2. ASSUME info[c].pending # None
      PROVE  marked \subseteq info[c].downloaded
  <2>1. InTime(c) = {}
    BY <1>0, TimeAssumption DEF InTime, Records, Ages
  <2>2. ASSUME Missing(c) = {}, info[c].pending \notin Rss
        PROVE  info[c].pending \in info[c].downloaded
    BY <1>0, <1>2, <2>2 DEF Honest, Missing, Need, Skips
  <2> QED
    BY <2>1, <2>2 DEF Shortcut
<1>3. marked \subseteq info[c].downloaded
  BY <1>2
<1> HIDE DEF marked
<1>4. record.downloaded \subseteq info[c].downloaded \cup marked
  BY <1>0 DEF Records
<1> HIDE DEF record
<1> QED
  BY <1>1, <1>3, <1>4

\* A client that comes back after mm_extra_addons_timeout earns nothing.
THEOREM LateReconnectsEarnNothing ==
    ASSUME StableLists
    PROVE  Spec => LateReconnectEarnsNothing
<1>1. BInv /\ [Next]_vars =>
        [\A c \in Clients : ClientConnect(c) /\ info[c].idle > ExtraTimeout
              => info'[c].downloaded \subseteq info[c].downloaded]_vars
  BY LateConnect
<1>2. BInv /\ [Next]_vars => BInv'
  BY NextHonest
<1> QED
  BY <1>1, <1>2, InitHonest, PTL DEF Spec, LateReconnectEarnsNothing

-----------------------------------------------------------------------------
(* Who is disconnected for not being answered.  A map that always runs gives *)
(* every client something to load, so that an attempt once found too late is *)
(* found too late whenever it is repeated.                                   *)

\* Nobody leaves without the engine's knowledge or is told to reload.
NobodyLeaves == Events \cap {"leave", "refresh"} = {}

Overdue(c) == phase[c] = "ignored" /\ TooLate(c)

KickInv == TypeOK /\ \A c \in timedOut : Overdue(c)

\* The age of a connection attempt and its state, all TooLate looks at, stay.
LEMMA OverdueStays ==
    ASSUME NEW c \in Clients, Overdue(c), phase'[c] = phase[c],
           info'[c].state = info[c].state, info'[c].waiting = info[c].waiting
    PROVE  Overdue(c)'
BY DEF Overdue, TooLate

LEMMA ConnectionKeepsOverdue ==
    ASSUME None \notin Maps, NobodyLeaves, KickInv, NEW d \in Clients, Connection(d),
           NEW c \in timedOut'
    PROVE  Overdue(c)'
<1>0. /\ TypeOK /\ timedOut \subseteq Clients /\ timedOut' \subseteq timedOut \cup {d}
      /\ info[d] \in Records /\ DOMAIN info = Clients \cup {Global}
      /\ DOMAIN phase = Clients /\ \A b \in timedOut : Overdue(b)
  BY DEF KickInv, TypeOK, Connection, ReplyWithoutStaging, ReplyTimesOut, ReplyStages,
      Reply, AddTimedOutClient, ClientConnect, SendSignonRedirects, SendSignonPasses,
      SendMessage, ClientActive, ClientDisconnect, Abandon, Download
<1>1. wsMap \in Need(d)
  <2>1. wsMap \in Maps /\ wsMap # None
    BY <1>0 DEF TypeOK
  <2> QED
    BY <1>0, <2>1, FullIs DEF FullList, Need, Skips
<1>2. ~ReplyWithoutStaging(d)
  BY <1>1 DEF ReplyWithoutStaging
<1>3. Seen(d).state = info[d].state /\ Seen(d).waiting = info[d].waiting
  BY <1>0 DEF Seen, Records
<1>4. CASE ReplyTimesOut(d)
  <2>1. /\ info' = [info EXCEPT ![d] = Seen(d)]
        /\ phase' = [phase EXCEPT ![d] = "ignored"]
        /\ TooLate(d)
    BY <1>4 DEF ReplyTimesOut
  <2>2. CASE c = d
    BY <1>0, <1>3, <2>1, <2>2 DEF Overdue, TooLate
  <2>3. CASE c # d
    BY <1>0, <2>1, <2>3, OverdueStays
  <2> QED
    BY <2>2, <2>3
<1>5. CASE SendMessage(d)
  <2>1. info' = [info EXCEPT ![d] = [info[d] EXCEPT !.idle = 0]] /\ phase' = phase
        /\ timedOut' = timedOut
    BY <1>5 DEF SendMessage, clientVars
  <2>2. info'[c].state = info[c].state /\ info'[c].waiting = info[c].waiting
    BY <1>0, <2>1 DEF Records
  <2> QED
    BY <1>0, <2>1, <2>2, OverdueStays
<1>6. ASSUME NEW a \in Addons, Download(d, a)
      PROVE  Overdue(c)'
  BY <1>0, <1>6, OverdueStays DEF Download, clientVars
<1>7. CASE \/ ReplyStages(d) \/ ClientConnect(d) \/ SendSignonRedirects(d)
           \/ SendSignonPasses(d) \/ ClientActive(d)
  <2>1. timedOut' = timedOut /\ d \notin timedOut
    BY <1>0, <1>7 DEF ReplyStages, Reply, ClientConnect, SendSignonRedirects,
        SendSignonPasses, ClientActive, Overdue
  <2>2. info'[c] = info[c] /\ phase'[c] = phase[c]
    BY <1>0, <1>7, <2>1 DEF ReplyStages, Reply, ClientConnect, SendSignonRedirects,
        SendSignonPasses, ClientActive
  <2> QED
    BY <1>0, <2>1, <2>2, OverdueStays
<1>8. ~ClientDisconnect(d) /\ ~Abandon(d)
  BY DEF NobodyLeaves, ClientDisconnect, Abandon
<1> QED
  BY <1>2, <1>4, <1>5, <1>6, <1>7, <1>8 DEF Connection

LEMMA NextKick ==
    ASSUME None \notin Maps, NobodyLeaves, KickInv, [Next]_vars
    PROVE  KickInv'
<1>0. /\ TypeOK /\ TypeOK' /\ timedOut \subseteq Clients
      /\ DOMAIN info = Clients \cup {Global} /\ \A b \in timedOut : Overdue(b)
  BY NextType DEF KickInv, TypeOK
<1> SUFFICES ASSUME NEW c \in timedOut' PROVE Overdue(c)'
  BY <1>0 DEF KickInv
<1>1. CASE \E d \in Clients : Connection(d)
  BY <1>1, ConnectionKeepsOverdue
<1>2. CASE Api
  <2>1. phase' = phase /\ timedOut' = timedOut
    BY <1>2 DEF Api, NobodyLeaves, AddClientAddon, AddClientAddonRefreshes,
        RemoveClientAddon, ClearClientAddons, SetClientRssAssetsEnabled, clientVars
  <2>2. info[c] \in Records
    BY <1>0, <2>1 DEF TypeOK
  <2>3. ASSUME NEW r, NEW list, NEW pending, Relist(r, list, pending)
        PROVE  info'[c].state = info[c].state /\ info'[c].waiting = info[c].waiting
    BY <1>0, <2>2, <2>3 DEF Relist, Records
  <2>4. ASSUME NEW d \in Clients, NEW enabled \in BOOLEAN,
               SetClientRssAssetsEnabled(d, enabled)
        PROVE  info'[c].state = info[c].state /\ info'[c].waiting = info[c].waiting
    BY <1>0, <2>2, <2>4 DEF SetClientRssAssetsEnabled, ForgetRss, Records
  <2>5. info'[c].state = info[c].state /\ info'[c].waiting = info[c].waiting
    BY <1>2, <2>3, <2>4 DEF Api, NobodyLeaves, AddClientAddon, AddClientAddonRefreshes,
        RemoveClientAddon, ClearClientAddons
  <2> QED
    BY <1>0, <2>1, <2>5, OverdueStays
<1>3. CASE \E m \in Maps : RequestMap(m)
  BY <1>0, <1>3, OverdueStays DEF RequestMap, clientVars
<1>4. CASE ChangeLevel
  BY <1>4 DEF ChangeLevel, StartupServer
<1>5. CASE GameFrame
  <2>1. c \in timedOut /\ c \notin timedOut \cap InServer
    BY <1>5 DEF GameFrame
  <2>2. info'[c] = info[c] /\ phase'[c] = phase[c]
    BY <1>0, <1>5, <2>1 DEF GameFrame
  <2> QED
    BY <1>0, <2>1, <2>2, OverdueStays
<1>6. CASE Tick
  <2>1. phase' = phase /\ timedOut' = timedOut
    BY <1>6 DEF Tick, clientVars
  <2>2. info[c] \in Records /\ Overdue(c)
    BY <1>0, <2>1 DEF TypeOK
  <2>3. info'[c] = [info[c] EXCEPT
            !.idle = Older(@),
            !.waiting = IF info[c].state = "CONNECTING" THEN Older(@) ELSE @]
    BY <1>0, <1>6, <2>1 DEF Tick
  <2>4. info'[c].state = info[c].state /\ info'[c].waiting = Older(info[c].waiting)
    BY <2>2, <2>3 DEF Records, Overdue, TooLate
  <2>5. info[c].waiting \in Nat /\ MaxAge \in Nat /\ ConnTimeout \in Nat
    BY <2>2, TimeAssumption DEF Records, Ages
  <2>6. Older(info[c].waiting) > ConnTimeout
    BY <2>2, <2>5 DEF Overdue, TooLate, Older
  <2> QED
    BY <2>1, <2>2, <2>4, <2>6 DEF Overdue, TooLate
<1>7. CASE UNCHANGED vars
  BY <1>0, <1>7, OverdueStays DEF vars, clientVars
<1> QED
  BY <1>1, <1>2, <1>3, <1>4, <1>5, <1>6, <1>7 DEF Next

\* GameFrame disconnects only clients whose attempt was left unanswered and who
\* have not been answered since, while a workshop map runs and nobody leaves
\* unnoticed or is told to reload in between.
THEOREM OnlyUnansweredAreKicked ==
    ASSUME None \notin Maps, NobodyLeaves
    PROVE  Spec => KickedIsUnanswered
<1>1. Init => KickInv
  BY InitType DEF Init, KickInv
<1>2. KickInv /\ [Next]_vars => KickInv'
  BY NextKick
<1>3. KickInv /\ [Next]_vars =>
        [\A c \in Clients : c \in timedOut \ timedOut' /\ phase'[c] = "away"
              => phase[c] = "ignored"]_vars
  BY DEF KickInv, Overdue
<1> QED
  BY <1>1, <1>2, <1>3, PTL DEF Spec, KickedIsUnanswered
=============================================================================
