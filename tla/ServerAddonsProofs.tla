------------------------- MODULE ServerAddonsProofs -------------------------
(***************************************************************************)
(* Machine-checked theorems about the server's addons, for any addons,     *)
(* maps and lists.  The loops of RefreshAddons and UnmountAddon are        *)
(* recursive functions of the list's length, about which module ListLemmas *)
(* makes induction possible.                                               *)
(***************************************************************************)
EXTENDS ServerAddons, ListLemmas

-----------------------------------------------------------------------------
(* Lists *)

NoDuplicates(s) == \A i, j \in DOMAIN s : s[i] = s[j] => i = j

\* kept is the list of the loop's results, one for each number of elements seen.
Keeping(kept, s, S) ==
    /\ kept[0] = <<>>
    /\ \A n \in 1..Len(s) :
          kept[n] = IF s[n] \in S THEN Append(kept[n - 1], s[n]) ELSE kept[n - 1]
    /\ Kept(s, S) = kept[Len(s)]

\* The loop behind Kept, one element after the other.
LEMMA KeptSteps ==
    ASSUME NEW T, NEW s \in Seq(T), NEW S
    PROVE  \E kept : kept \in [0..Len(s) -> Seq(T)] /\ Keeping(kept, s, S)
<1> DEFINE k == Len(s)
           Q == Seq(T)
           Rec(g) == g = [n \in 0..Len(s) |->
               IF n = 0 THEN <<>>
               ELSE IF s[n] \in S THEN Append(g[n - 1], s[n]) ELSE g[n - 1]]
           step == [n \in 1..k |-> [q \in Q |->
               IF s[n] \in S THEN Append(q, s[n]) ELSE q]]
<1>1. step \in [1..k -> [Q -> Q]]
  OBVIOUS
<1> DEFINE base == <<>>
<1>2. base \in Q /\ k \in Nat
  OBVIOUS
<1> HIDE DEF step, k, Q, base
<1>30. PICK g : Stepping(g, Q, base, k, step)
  BY <1>1, <1>2, Steps, Zenon
<1>3. g \in [0..k -> Q] /\ g[0] = base /\ \A n \in 1..k : g[n] = step[n][g[n - 1]]
  BY <1>30 DEF Stepping
<1>4. ASSUME NEW n \in 1..k
      PROVE  g[n] = IF s[n] \in S THEN Append(g[n - 1], s[n]) ELSE g[n - 1]
  <2>1. g[n - 1] \in Q
    BY <1>2, <1>3
  <2> QED
    BY <1>3, <2>1 DEF step
<1>5. Rec(g)
  <2>1. ASSUME NEW n \in 0..k
        PROVE  g[n] = IF n = 0 THEN base
                      ELSE IF s[n] \in S THEN Append(g[n - 1], s[n]) ELSE g[n - 1]
    <3>1. n = 0 \/ n \in 1..k
      BY <1>2
    <3> QED
      BY <1>3, <1>4, <3>1
  <2>2. g = [n \in 0..k |-> g[n]]
    BY <1>3
  <2> QED
    BY <2>1, <2>2 DEF k, base
<1> DEFINE kept == CHOOSE h : Rec(h)
<1>6. Rec(kept)
  BY <1>5
<1>7. Kept(s, S) = kept[Len(s)]
  BY DEF Kept
<1> HIDE DEF kept
<1>8. DOMAIN kept = 0..k /\ kept[0] = <<>>
  BY <1>2, <1>6 DEF k
<1>9. ASSUME NEW n \in 1..k
      PROVE  kept[n] = IF s[n] \in S THEN Append(kept[n - 1], s[n]) ELSE kept[n - 1]
  <2>1. n \in 0..Len(s) /\ n # 0
    BY <1>2 DEF k
  <2> QED
    BY <1>6, <2>1
<1>10. \A n \in 0..k : kept[n] \in Q
  <2> DEFINE U == {n \in 0..k : kept[n] \in Q}
  <2>1. 0 \in U
    BY <1>2, <1>8 DEF base
  <2>2. ASSUME NEW n \in 1..k, n - 1 \in U
        PROVE  n \in U
    <3>1. kept[n - 1] \in Seq(T) /\ s[n] \in T
      BY <1>2, <2>2 DEF k, Q
    <3>2. Append(kept[n - 1], s[n]) \in Q /\ kept[n - 1] \in Q
      BY <3>1 DEF Q
    <3>3. n \in 0..k
      BY <1>2
    <3>4. kept[n] \in Q
      BY <1>9, <3>2
    <3> QED
      BY <3>3, <3>4
  <2> HIDE DEF U
  <2>3. \A n \in 0..k : n \in U
    BY <1>2, <2>1, <2>2, NumbersUpTo
  <2> QED
    BY <2>3 DEF U
<1>11. kept = [n \in 0..k |-> kept[n]]
  BY <1>6 DEF k
<1>12. kept \in [0..k -> Q]
  BY <1>10, <1>11
<1> QED
  BY <1>7, <1>8, <1>9, <1>12 DEF k, Q, Keeping

LEMMA KeptType ==
    ASSUME NEW T, NEW s \in Seq(T), NEW S
    PROVE  Kept(s, S) \in Seq(T)
<1>1. PICK kept : kept \in [0..Len(s) -> Seq(T)] /\ Keeping(kept, s, S)
  BY KeptSteps, Zenon
<1> QED
  BY <1>1 DEF Keeping

LEMMA KeptEmpty ==
    ASSUME NEW S
    PROVE  Kept(<<>>, S) = <<>>
<1> DEFINE s == <<>>
<1>1. s \in Seq({}) /\ Len(s) = 0
  OBVIOUS
<1> HIDE DEF s
<1>2. PICK kept : kept \in [0..Len(s) -> Seq({})] /\ Keeping(kept, s, S)
  BY <1>1, KeptSteps, Zenon
<1> QED
  BY <1>1, <1>2 DEF Keeping, s

\* One element more.
LEMMA KeptAppend ==
    ASSUME NEW T, NEW s \in Seq(T), NEW x \in T, NEW S
    PROVE  Kept(Append(s, x), S) = IF x \in S THEN Append(Kept(s, S), x) ELSE Kept(s, S)
<1> DEFINE t == Append(s, x)
           k == Len(s)
<1>1. t \in Seq(T) /\ Len(t) = k + 1 /\ k \in Nat /\ t[k + 1] = x
      /\ \A n \in 1..k : t[n] = s[n]
  OBVIOUS
<1> HIDE DEF t
<1>2. PICK g : g \in [0..Len(s) -> Seq(T)] /\ Keeping(g, s, S)
  BY KeptSteps, Zenon
<1>3. PICK h : h \in [0..Len(t) -> Seq(T)] /\ Keeping(h, t, S)
  BY <1>1, KeptSteps, Zenon
<1> DEFINE U == {n \in 0..k : h[n] = g[n]}
<1>4. 0 \in U
  BY <1>1, <1>2, <1>3 DEF Keeping
<1> HIDE DEF k
<1>5. ASSUME NEW n \in 1..k, n - 1 \in U
      PROVE  n \in U
  <2>1. n \in 1..Len(t) /\ n \in 1..Len(s) /\ t[n] = s[n] /\ n \in 0..k
    BY <1>1 DEF k
  <2>2. h[n] = IF t[n] \in S THEN Append(h[n - 1], t[n]) ELSE h[n - 1]
    BY <1>3, <2>1 DEF Keeping
  <2>3. g[n] = IF s[n] \in S THEN Append(g[n - 1], s[n]) ELSE g[n - 1]
    BY <1>2, <2>1 DEF Keeping
  <2>4. h[n - 1] = g[n - 1]
    BY <1>5
  <2> QED
    BY <2>1, <2>2, <2>3, <2>4
<1> HIDE DEF U
<1>6. k \in U
  <2>1. \A n \in 0..k : n \in U
    BY <1>1, <1>4, <1>5, NumbersUpTo
  <2> QED
    BY <1>1, <2>1
<1>7. h[k] = g[k]
  BY <1>6 DEF U
<1>8. h[k + 1] = IF x \in S THEN Append(h[k], x) ELSE h[k]
  <2>1. k + 1 \in 1..Len(t) /\ (k + 1) - 1 = k
    BY <1>1
  <2>2. h[k + 1] = IF t[k + 1] \in S THEN Append(h[(k + 1) - 1], t[k + 1]) ELSE h[(k + 1) - 1]
    BY <1>3, <2>1 DEF Keeping
  <2> QED
    BY <1>1, <2>1, <2>2
<1> QED
  BY <1>1, <1>2, <1>3, <1>7, <1>8 DEF t, Keeping, k
-----------------------------------------------------------------------------
(* The loops of UnmountAddon and RefreshAddons *)

FileStates == [mounted : Seq(Addons), paths : Seq(Addons), queue : Seq(Addons),
               important : SUBSET Addons, downloading : Seq(Addons), all : BOOLEAN]

LEMMA FastRemoveType ==
    ASSUME NEW T, NEW s \in Seq(T), NEW a
    PROVE  FastRemove(s, a) \in Seq(T)
<1> DEFINE i == CHOOSE k \in DOMAIN s : s[k] = a
           n == Len(s)
           t == [s EXCEPT ![i] = s[n]]
<1> HIDE DEF i
<1>1. CASE n = 0
  <2>1. s = <<>>
    BY <1>1
  <2>2. t = <<>>
    BY <2>1
  <2>3. SubSeq(t, 1, n - 1) = <<>>
    BY <1>1, <2>2
  <2> HIDE DEF n, t
  <2> QED
    BY <2>3 DEF FastRemove, i, n, t
<1>2. CASE n # 0
  <2>1. n \in Nat /\ n - 1 \in 0..n /\ s[n] \in T
    BY <1>2
  <2>2. t \in [1..n -> T]
    <3>1. s \in [1..n -> T]
      BY <2>1
    <3>2. n \in 1..n
      BY <2>1, <1>2
    <3> HIDE DEF n
    <3> QED
      BY <2>1, <3>1, <3>2
  <2> HIDE DEF n, t
  <2>3. t \in Seq(T) /\ Len(t) = n
    BY <2>1, <2>2, FunctionIsList, Zenon
  <2>4. SubSeq(t, 1, n - 1) \in Seq(T)
    BY <2>1, <2>3
  <2> QED
    BY <2>4 DEF FastRemove, i, n, t
<1> QED
  BY <1>1, <1>2

LEMMA UnmountType ==
    ASSUME NEW f \in FileStates, NEW a
    PROVE  UnmountAddon(f, a) \in FileStates
<1>1. Kept(f.paths, Addons \ {a}) \in Seq(Addons)
  BY KeptType DEF FileStates
<1>2. FastRemove(f.mounted, a) \in Seq(Addons)
  BY FastRemoveType DEF FileStates
<1> QED
  BY <1>1, <1>2 DEF UnmountAddon, FileStates

LEMMA StartDownloadType ==
    ASSUME NEW f \in FileStates, NEW a \in Addons, NEW i, NEW b, NEW starts
    PROVE  StartDownload(f, a, i, b, starts) \in FileStates
<1>1. Append(f.queue, a) \in Seq(Addons) /\ Append(f.downloading, a) \in Seq(Addons)
  BY DEF FileStates
<1>2. (IF i THEN f.important \cup {a} ELSE f.important) \in SUBSET Addons
  BY DEF FileStates
<1>3. (IF a \in Range(f.downloading) THEN f.downloading ELSE Append(f.downloading, a))
          \in Seq(Addons)
  BY <1>1 DEF FileStates
<1> QED
  BY <1>1, <1>2, <1>3 DEF StartDownload, FileStates

LEMMA MountType ==
    ASSUME NEW f \in FileStates, NEW a \in Addons, NEW starts
    PROVE  MountAddon(f, a, starts) \in FileStates
<1> DEFINE failed == [f EXCEPT !.all = FALSE]
           g == UpdateDownload(f, a, starts)
<1>1. failed \in FileStates
  BY DEF FileStates
<1> HIDE DEF failed
<1>2. StartDownload(failed, a, TRUE, TRUE, starts) \in FileStates
  BY <1>1, StartDownloadType
<1>3. g \in FileStates
  BY StartDownloadType DEF UpdateDownload
<1> HIDE DEF g
<1>4. [g EXCEPT !.all = FALSE] \in FileStates
  BY <1>3 DEF FileStates
<1>5. OnPath(g, a) \in FileStates
  <2>1. Append(g.paths, a) \in Seq(Addons) /\ Append(g.mounted, a) \in Seq(Addons)
    BY <1>3 DEF FileStates
  <2> QED
    BY <1>3, <2>1 DEF FileStates, OnPath
<1> QED
  BY <1>1, <1>2, <1>4, <1>5 DEF MountAddon, failed, g

\* after holds the states of UnmountAll's loop over f's list, from the back.
Unmounting(after, f) ==
    /\ after \in [0..Len(f.mounted) -> FileStates]
    /\ after[0] = f
    /\ \A k \in 1..Len(f.mounted) :
          after[k] = UnmountAddon(after[k - 1], f.mounted[Len(f.mounted) + 1 - k])
    /\ UnmountAll(f) = after[Len(f.mounted)]

LEMMA UnmountSteps ==
    ASSUME NEW f \in FileStates
    PROVE  \E after : Unmounting(after, f)
<1> DEFINE n == Len(f.mounted)
           Rec(g) == g = [k \in 0..n |->
               IF k = 0 THEN f ELSE UnmountAddon(g[k - 1], f.mounted[n + 1 - k])]
           step == [k \in 1..n |-> [q \in FileStates |->
               UnmountAddon(q, f.mounted[n + 1 - k])]]
           after == CHOOSE g : Rec(g)
<1>1. n \in Nat
  BY DEF FileStates
<1>2. step \in [1..n -> [FileStates -> FileStates]]
  BY UnmountType
<1>3. UnmountAll(f) = after[n]
  BY DEF UnmountAll
<1> HIDE DEF n, step, after
<1>4. PICK g : Stepping(g, FileStates, f, n, step)
  BY <1>1, <1>2, Steps, Zenon
<1>5. Rec(g)
  <2>1. ASSUME NEW k \in 0..n
        PROVE  g[k] = IF k = 0 THEN f ELSE UnmountAddon(g[k - 1], f.mounted[n + 1 - k])
    <3>1. CASE k = 0
      BY <1>4, <3>1 DEF Stepping
    <3>2. CASE k # 0
      <4>1. k \in 1..n /\ k - 1 \in 0..n
        BY <1>1, <3>2
      <4>2. g[k] = step[k][g[k - 1]] /\ g[k - 1] \in FileStates
        BY <1>4, <4>1 DEF Stepping
      <4> QED
        BY <3>2, <4>1, <4>2 DEF step
    <3> QED
      BY <3>1, <3>2
  <2>2. g = [k \in 0..n |-> g[k]]
    BY <1>4 DEF Stepping
  <2> QED
    BY <2>1, <2>2
<1>6. Rec(after)
  BY <1>5 DEF after
<1>7. after[0] = f
  BY <1>1, <1>6
<1>8. ASSUME NEW k \in 1..n
      PROVE  after[k] = UnmountAddon(after[k - 1], f.mounted[n + 1 - k])
  <2>1. k \in 0..n /\ k # 0
    BY <1>1
  <2> QED
    BY <1>6, <2>1
<1>9. \A k \in 1..n : after[k - 1] \in FileStates => after[k] \in FileStates
  BY <1>8, UnmountType
<1>10. after = [k \in 0..n |-> after[k]]
  BY <1>6
<1>11. after \in [0..n -> FileStates]
  <2> HIDE DEF Rec
  <2> QED
    BY <1>1, <1>7, <1>9, <1>10, RunType
<1> QED
  BY <1>3, <1>7, <1>8, <1>11 DEF Unmounting, n

\* after holds the states of RefreshAddons' loop over the list.
Remounting(after, list, starts) ==
    /\ after \in [0..Len(list) -> FileStates]
    /\ after[0] = UnmountAll(Files)
    /\ \A k \in 1..Len(list) : after[k] = MountAddon(after[k - 1], list[k], starts)
    /\ Remounted(list, starts) = after[Len(list)]

LEMMA RemountSteps ==
    ASSUME NEW list \in Seq(Addons), NEW starts, Files \in FileStates
    PROVE  \E after : Remounting(after, list, starts)
<1> DEFINE n == Len(list)
           base == UnmountAll(Files)
           Rec(g) == g = [k \in 0..n |->
               IF k = 0 THEN base ELSE MountAddon(g[k - 1], list[k], starts)]
           step == [k \in 1..n |-> [q \in FileStates |-> MountAddon(q, list[k], starts)]]
           after == CHOOSE g : Rec(g)
<1>1. n \in Nat
  OBVIOUS
<1>2. step \in [1..n -> [FileStates -> FileStates]]
  BY MountType
<1>3. Remounted(list, starts) = after[n]
  BY DEF Remounted
<1>4. base \in FileStates
  <2>1. PICK u : Unmounting(u, Files)
    BY UnmountSteps
  <2>2. Len(Files.mounted) \in Nat
    BY DEF FileStates
  <2> QED
    BY <2>1, <2>2 DEF Unmounting
<1> HIDE DEF n, base, step, after
<1>5. PICK g : Stepping(g, FileStates, base, n, step)
  BY <1>1, <1>2, <1>4, Steps, Zenon
<1>6. Rec(g)
  <2>1. ASSUME NEW k \in 0..n
        PROVE  g[k] = IF k = 0 THEN base ELSE MountAddon(g[k - 1], list[k], starts)
    <3>1. CASE k = 0
      BY <1>5, <3>1 DEF Stepping
    <3>2. CASE k # 0
      <4>1. k \in 1..n /\ k - 1 \in 0..n
        BY <1>1, <3>2
      <4>2. g[k] = step[k][g[k - 1]] /\ g[k - 1] \in FileStates
        BY <1>5, <4>1 DEF Stepping
      <4> QED
        BY <3>2, <4>1, <4>2 DEF step
    <3> QED
      BY <3>1, <3>2
  <2>2. g = [k \in 0..n |-> g[k]]
    BY <1>5 DEF Stepping
  <2> QED
    BY <2>1, <2>2
<1>7. Rec(after)
  BY <1>6 DEF after
<1>8. after[0] = base
  BY <1>1, <1>7
<1>9. ASSUME NEW k \in 1..n
      PROVE  after[k] = MountAddon(after[k - 1], list[k], starts) /\ list[k] \in Addons
  <2>1. k \in 0..n /\ k # 0
    BY <1>1
  <2> QED
    BY <1>7, <2>1 DEF n
<1>10. \A k \in 1..n : after[k - 1] \in FileStates => after[k] \in FileStates
  BY <1>9, MountType
<1>11. after = [k \in 0..n |-> after[k]]
  BY <1>7
<1>12. after \in [0..n -> FileStates]
  <2> HIDE DEF Rec
  <2> QED
    BY <1>1, <1>4, <1>8, <1>10, <1>11, RunType
<1> QED
  BY <1>3, <1>8, <1>9, <1>12 DEF Remounting, n, base

LEMMA UnmountAllType ==
    ASSUME NEW f \in FileStates
    PROVE  UnmountAll(f) \in FileStates
<1>1. PICK u : Unmounting(u, f)
  BY UnmountSteps
<1>2. Len(f.mounted) \in Nat
  BY DEF FileStates
<1> QED
  BY <1>1, <1>2 DEF Unmounting

LEMMA RemountedType ==
    ASSUME NEW list \in Seq(Addons), NEW starts, Files \in FileStates
    PROVE  Remounted(list, starts) \in FileStates
<1>1. PICK after : Remounting(after, list, starts)
  BY RemountSteps
<1> QED
  BY <1>1 DEF Remounting

-----------------------------------------------------------------------------
(* Types *)

\* TypeOK is not inductive: a reload of the level needs a level that can be named.
TypeInv ==
    /\ TypeOK
    /\ level \in Maps
    /\ request.pending => request.level \in Maps

\* The types without those of the file system, the downloads and the commands.
HostTypes ==
    /\ {loaded, astray, steamUp} \subseteq BOOLEAN
    /\ {extra, serverAddons} \subseteq Seq(Addons)
    /\ installed \in SUBSET Addons
    /\ wsMap \in Maps \cup {None} /\ level \in Maps
    /\ request \in Requests
    /\ request.pending => request.level \in Maps

LEMMA FilesType ==
    ASSUME TypeOK
    PROVE  Files \in FileStates
BY DEF TypeOK, Files, FileStates

LEMMA ReloadMapType ==
    ASSUME TypeInv
    PROVE  ReloadMap \in Commands
BY DEF TypeInv, TypeOK, ReloadMap, Commands

LEMMA BecomeType ==
    ASSUME NEW f \in FileStates, Become(f)
    PROVE  /\ {mounted', paths', queue', downloading'} \subseteq Seq(Addons)
           /\ important' \in SUBSET Addons
BY DEF Become, FileStates

LEMMA RefreshType ==
    ASSUME TypeInv, NEW list \in Seq(Addons), NEW b, Refresh(list, b)
    PROVE  /\ {mounted', paths', queue', downloading'} \subseteq Seq(Addons)
           /\ important' \in SUBSET Addons
           /\ commands' \in Seq(Commands)
<1>1. CASE ~steamUp'
  BY <1>1 DEF Refresh, TypeInv, TypeOK, fileVars, loadVars
<1>2. CASE steamUp'
  <2>1. PICK starts \in Startable :
            LET f == Remounted(list, starts)
            IN  /\ Become(f)
                /\ commands' = IF f.all /\ b THEN Append(commands, ReloadMap) ELSE commands
    BY <1>2 DEF Refresh
  <2>2. Remounted(list, starts) \in FileStates
    BY FilesType, RemountedType DEF TypeInv
  <2>3. commands \in Seq(Commands) /\ ReloadMap \in Commands
    BY ReloadMapType DEF TypeInv, TypeOK
  <2>4. commands' \in Seq(Commands)
    BY <2>1, <2>3
  <2> QED
    BY <2>1, <2>2, <2>4, BecomeType
<1> QED
  BY <1>1, <1>2

\* An element removed from a list.
LEMMA RemoveAtType ==
    ASSUME NEW T, NEW s \in Seq(T), NEW i \in DOMAIN s
    PROVE  RemoveAt(s, i) \in Seq(T)
<1>1. i \in Nat /\ i \in 1..Len(s) /\ Len(s) \in Nat
  OBVIOUS
<1>2. SubSeq(s, 1, i - 1) \in Seq(T) /\ SubSeq(s, i + 1, Len(s)) \in Seq(T)
  BY <1>1
<1> QED
  BY <1>2 DEF RemoveAt

\* The first place of an addon in the list of extra addons.
First(a) == CHOOSE i \in DOMAIN extra : extra[i] = a /\ \A j \in 1..(i - 1) : extra[j] # a

LEMMA FirstIsPlace ==
    ASSUME extra \in Seq(Addons), NEW a \in Range(extra)
    PROVE  /\ First(a) \in DOMAIN extra
           /\ extra[First(a)] = a
<1>1. \E i \in DOMAIN extra : extra[i] \in {a}
  BY DEF Range
<1>2. \E i \in DOMAIN extra : extra[i] \in {a} /\ \A j \in 1..(i - 1) : extra[j] \notin {a}
  BY <1>1, FirstPlace
<1>3. \E i \in DOMAIN extra : extra[i] = a /\ \A j \in 1..(i - 1) : extra[j] # a
  BY <1>2
<1> QED
  BY <1>3 DEF First

LEMMA EngineAddonsType ==
    ASSUME NEW kind, NEW m \in Maps
    PROVE  EngineAddons(kind, m) \in Seq(Addons)
<1>1. m # None => m \in Addons /\ <<m>> \in Seq(Addons)
  BY AddonsAssumption
<1>2. Own(m) \in Seq(Addons)
  BY <1>1 DEF Own
<1> QED
  BY <1>2 DEF EngineAddons

LEMMA HostAddonsType ==
    ASSUME extra \in Seq(Addons), NEW given \in Seq(Addons), NEW m \in Maps \cup {None}
    PROVE  HostAddons(given, m) \in Seq(Addons)
<1>1. m # None => m \in Addons /\ <<m>> \in Seq(Addons)
  BY AddonsAssumption
<1>2. m \in Range(extra) => RemoveAt(extra, First(m)) \in Seq(Addons)
  BY FirstIsPlace, RemoveAtType
<1>3. HostAddons(given, m)
      = IF extra = <<>> THEN given
        ELSE IF m = None THEN extra
        ELSE <<m>> \o (IF m \in Range(extra) THEN RemoveAt(extra, First(m)) ELSE extra)
  BY DEF HostAddons, First
<1> QED
  BY <1>1, <1>2, <1>3

LEMMA AskType ==
    ASSUME TypeInv, NEW kind, NEW m \in Maps, Ask(kind, m)
    PROVE  HostTypes'
<1>1. wsMap' \in Maps \cup {None} /\ astray' \in BOOLEAN
      /\ request'.level \in Maps /\ request' \in Requests
  <2>1. CASE loaded
    <3>1. Hook_SetPendingHostStateRequest(kind, m)
      BY <2>1 DEF Ask
    <3>2. wsMap' \in Maps \cup {None} /\ astray' \in BOOLEAN
      BY <3>1 DEF Hook_SetPendingHostStateRequest, WorkshopMap, TypeInv, TypeOK
    <3>3. PICK w : w = wsMap'
      OBVIOUS
    <3>4. PICK given \in Seq(Addons) : given = EngineAddons(kind, m)
      BY EngineAddonsType
    <3>5. HostAddons(given, w) \in Seq(Addons)
      BY <3>2, <3>3, HostAddonsType DEF TypeInv, TypeOK
    <3>6. request' = [level |-> m, addons |-> HostAddons(given, w), pending |-> TRUE]
      BY <3>1, <3>3, <3>4 DEF Hook_SetPendingHostStateRequest
    <3> QED
      BY <3>2, <3>5, <3>6 DEF Requests
  <2>2. CASE ~loaded
    <3>1. EngineAddons(kind, m) \in Seq(Addons)
      BY EngineAddonsType
    <3>2. request' = [level |-> m, addons |-> EngineAddons(kind, m), pending |-> TRUE]
          /\ wsMap' = wsMap /\ astray' = astray
      BY <2>2 DEF Ask
    <3>3. request' \in Requests /\ request'.level = m
      BY <3>1, <3>2 DEF Requests
    <3> QED
      BY <3>2, <3>3 DEF TypeInv, TypeOK
  <2> QED
    BY <2>1, <2>2
<1> QED
  BY <1>1 DEF Ask, HostTypes, TypeInv, TypeOK

LEMMA InitTyped == Init => TypeInv
<1> SUFFICES ASSUME Init PROVE TypeInv
  OBVIOUS
<1>0. /\ Fresh.extra = <<>> /\ Fresh.mounted = <<>> /\ Fresh.queue = <<>>
      /\ Fresh.important = {} /\ Fresh.wsMap = None
  BY DEF Fresh
<1>1. extra \in Seq(Addons)
  <2>1. IF loaded THEN extra \in Lists ELSE extra = Fresh.extra
    BY Zenon DEF Init
  <2>2. extra \in Lists \/ extra = <<>>
    BY <1>0, <2>1
  <2>3. Lists \subseteq Seq(Addons) /\ <<>> \in Seq(Addons)
    BY AddonsAssumption
  <2> QED
    BY <2>2, <2>3, Zenon
<1>2. serverAddons \in Seq(Addons)
  <2>1. level # None => level \in Addons /\ <<level>> \in Seq(Addons)
    BY AddonsAssumption DEF Init
  <2> QED
    BY <2>1 DEF Init, Own
<1>3. request \in Requests
  BY DEF Init, NoRequest, Requests
<1>4. {loaded, astray, steamUp} \subseteq BOOLEAN
  BY Zenon DEF Init
<1>5. {mounted, paths, queue, downloading} \subseteq Seq(Addons)
      /\ commands \in Seq(Commands) /\ important = {}
  BY <1>0 DEF Init
<1>6. wsMap \in Maps \cup {None} /\ level \in Maps /\ installed \in SUBSET Addons
  BY <1>0 DEF Init
<1>7. ~request.pending
  BY DEF Init, NoRequest
<1> QED
  BY <1>1, <1>2, <1>3, <1>4, <1>5, <1>6, <1>7 DEF TypeInv, TypeOK

\* What is left for a handler that changes one part of the state.
LEMMA TypedAgain ==
    ASSUME HostTypes', important' \in SUBSET Addons, commands' \in Seq(Commands),
           {mounted', paths', queue', downloading'} \subseteq Seq(Addons)
    PROVE  TypeInv'
BY DEF HostTypes, TypeInv, TypeOK

LEMMA InterfaceTyped ==
    ASSUME TypeInv, Interface
    PROVE  TypeInv'
<1> USE DEF HostTypes, pluginVars, hostVars, fileVars, loadVars
<1>0. /\ extra \in Seq(Addons)
      /\ important \in SUBSET Addons /\ commands \in Seq(Commands)
      /\ {mounted, paths, queue, downloading} \subseteq Seq(Addons)
  BY DEF TypeInv, TypeOK
<1>1. ASSUME NEW list \in Lists, SetExtraAddons(list)
      PROVE  TypeInv'
  <2>1. list \in Seq(Addons) /\ extra' = list /\ Refresh(list, FALSE)
    BY <1>1, AddonsAssumption DEF SetExtraAddons
  <2>2. HostTypes'
    BY <1>1, <2>1 DEF SetExtraAddons, TypeInv, TypeOK
  <2> QED
    BY <2>1, <2>2, RefreshType, TypedAgain
<1>2. ASSUME NEW a \in Addons, NEW b \in BOOLEAN, AddAddon(a, b) \/ RemoveAddon(a, b)
      PROVE  TypeInv'
  <2>1. extra' \in Seq(Addons)
    <3>1. CASE AddAddon(a, b)
      BY <1>0, <3>1 DEF AddAddon
    <3>2. CASE RemoveAddon(a, b)
      BY <1>0, <3>2, FirstIsPlace, RemoveAtType DEF RemoveAddon, First
    <3> QED
      BY <1>2, <3>1, <3>2
  <2>2. HostTypes'
    BY <1>2, <2>1 DEF AddAddon, RemoveAddon, TypeInv, TypeOK
  <2>3. CASE b
    <3>1. PICK list \in Seq(Addons) : list = extra'
      BY <2>1
    <3>2. Refresh(list, FALSE)
      BY <1>2, <2>3, <3>1 DEF AddAddon, RemoveAddon
    <3> QED
      BY <2>2, <3>2, RefreshType, TypedAgain
  <2>4. CASE ~b
    <3>1. UNCHANGED <<fileVars, loadVars, commands>>
      BY <1>2, <2>4 DEF AddAddon, RemoveAddon
    <3> QED
      BY <1>0, <2>2, <3>1, TypedAgain
  <2> QED
    BY <2>3, <2>4
<1>3. CASE ClearAddons
  <2>1. HostTypes'
    BY <1>3 DEF ClearAddons, TypeInv, TypeOK
  <2>2. UnmountAll(Files) \in FileStates
    BY FilesType, UnmountAllType DEF TypeInv
  <2> QED
    BY <1>0, <1>3, <2>1, <2>2, BecomeType, TypedAgain DEF ClearAddons
<1>4. ASSUME NEW b \in BOOLEAN, RefreshAddons(b)
      PROVE  TypeInv'
  <2>1. HostTypes'
    BY <1>4 DEF RefreshAddons, TypeInv, TypeOK
  <2>2. Refresh(extra, b)
    BY <1>4 DEF RefreshAddons
  <2> QED
    BY <1>0, <2>1, <2>2, RefreshType, TypedAgain
<1>5. ASSUME NEW a \in Addons, NEW i \in BOOLEAN, NEW f \in BOOLEAN, DownloadAddon(a, i, f)
      PROVE  TypeInv'
  <2>1. HostTypes'
    BY <1>5 DEF DownloadAddon, TypeInv, TypeOK
  <2>2. PICK starts : Become(StartDownload(Files, a, i, f, starts))
    BY <1>5 DEF DownloadAddon
  <2>3. StartDownload(Files, a, i, f, starts) \in FileStates
    BY FilesType, StartDownloadType DEF TypeInv
  <2> QED
    BY <1>0, <1>5, <2>1, <2>2, <2>3, BecomeType, TypedAgain DEF DownloadAddon
<1> QED
  BY <1>1, <1>2, <1>3, <1>4, <1>5 DEF Interface

LEMMA SteamTyped ==
    ASSUME TypeInv, Steam
    PROVE  TypeInv'
<1> USE DEF HostTypes, pluginVars, hostVars, fileVars, loadVars
<1>0. /\ extra \in Seq(Addons)
      /\ important \in SUBSET Addons /\ commands \in Seq(Commands)
      /\ {mounted, paths, queue, downloading} \subseteq Seq(Addons)
  BY DEF TypeInv, TypeOK
<1>1. CASE Hook_GameServerSteamAPIActivated
  <2>1. HostTypes'
    BY <1>1 DEF Hook_GameServerSteamAPIActivated, TypeInv, TypeOK
  <2>2. CASE loaded
    <3>1. Refresh(extra, TRUE)
      BY <1>1, <2>2 DEF Hook_GameServerSteamAPIActivated
    <3> QED
      BY <1>0, <2>1, <3>1, RefreshType, TypedAgain
  <2>3. CASE ~loaded
    BY <1>0, <1>1, <2>1, <2>3, TypedAgain DEF Hook_GameServerSteamAPIActivated
  <2> QED
    BY <2>2, <2>3
<1>2. ASSUME NEW a \in Addons, EngineDownloads(a)
      PROVE  TypeInv'
  <2>1. HostTypes'
    BY <1>2 DEF EngineDownloads, TypeInv, TypeOK
  <2>2. downloading' \in Seq(Addons)
    BY <1>0, <1>2 DEF EngineDownloads
  <2> QED
    BY <1>0, <1>2, <2>1, <2>2, TypedAgain DEF EngineDownloads
<1>3. ASSUME NEW a \in Addons, NEW ok \in Results, OnAddonDownloaded(a, ok)
      PROVE  TypeInv'
  <2>1. HostTypes'
    BY <1>3 DEF OnAddonDownloaded, TypeInv, TypeOK
  <2>2. downloading' \in Seq(Addons)
    BY <1>0, <1>3, KeptType DEF OnAddonDownloaded
  <2>3. queue' \in Seq(Addons)
    <3>1. CASE ~loaded \/ a \notin Range(queue)
      BY <1>0, <1>3, <3>1 DEF OnAddonDownloaded
    <3>2. CASE ~(~loaded \/ a \notin Range(queue))
      <4>1. queue' = Tail(queue) /\ queue # <<>>
        BY <1>3, <3>2 DEF OnAddonDownloaded, Dequeue, Range
      <4> QED
        BY <1>0, <4>1
    <3> QED
      BY <3>1, <3>2
  <2>4. important' \in SUBSET Addons
    BY <1>0, <1>3 DEF OnAddonDownloaded
  <2>5. commands' \in Seq(Commands)
    <3>1. ReloadMap \in Commands
      BY ReloadMapType
    <3>2. commands' = commands \/ commands' = Append(commands, ReloadMap)
      <4>1. CASE ~loaded \/ a \notin Range(queue)
        BY <1>3, <4>1 DEF OnAddonDownloaded
      <4>2. CASE ~(~loaded \/ a \notin Range(queue))
        <5>1. commands' = IF LastImportantDone(a) THEN Append(commands, ReloadMap)
                          ELSE commands
          BY <1>3, <4>2, Zenon DEF OnAddonDownloaded
        <5> QED
          BY <5>1, Zenon
      <4> QED
        BY <4>1, <4>2
    <3>3. Append(commands, ReloadMap) \in Seq(Commands)
      BY <1>0, <3>1
    <3> QED
      BY <1>0, <3>2, <3>3, Zenon
  <2>6. {mounted', paths'} \subseteq Seq(Addons)
    BY <1>0, <1>3 DEF OnAddonDownloaded
  <2> QED
    BY <2>1, <2>2, <2>3, <2>4, <2>5, <2>6, TypedAgain
<1> QED
  BY <1>1, <1>2, <1>3 DEF Steam

LEMMA NextTyped ==
    ASSUME TypeInv, [Next]_vars
    PROVE  TypeInv'
<1> USE DEF HostTypes, pluginVars, hostVars, fileVars, loadVars
<1>0. /\ extra \in Seq(Addons)
      /\ important \in SUBSET Addons /\ commands \in Seq(Commands)
      /\ {mounted, paths, queue, downloading} \subseteq Seq(Addons)
  BY DEF TypeInv, TypeOK
<1>1. CASE Interface
  BY <1>1, InterfaceTyped
<1>2. CASE Steam
  BY <1>2, SteamTyped
<1>3. CASE RunCommand
  <2>1. PICK c \in Commands : c = Head(commands)
    BY <1>0, <1>3 DEF RunCommand
  <2>2. PICK kind : Ask(kind, c.level)
    BY <1>3, <2>1 DEF RunCommand
  <2>3. HostTypes'
    BY <2>1, <2>2, AskType DEF Commands
  <2>4. commands' \in Seq(Commands)
    BY <1>0, <1>3 DEF RunCommand
  <2> QED
    BY <1>0, <2>2, <2>3, <2>4, TypedAgain DEF Ask
<1>4. ASSUME NEW kind, NEW m \in Maps, ChooseMap(kind, m)
      PROVE  TypeInv'
  <2>1. HostTypes'
    BY <1>4, AskType DEF ChooseMap
  <2> QED
    BY <1>0, <1>4, <2>1, TypedAgain DEF ChooseMap, Ask
<1>5. CASE Hook_StartupServer
  <2>1. HostTypes'
    BY <1>5 DEF Hook_StartupServer, TypeInv, TypeOK, NoRequest, Requests
  <2>2. CASE loaded
    <3>1. Refresh(extra, FALSE)
      BY <1>5, <2>2 DEF Hook_StartupServer, StartupServerMounts
    <3> QED
      BY <1>0, <2>1, <3>1, RefreshType, TypedAgain
  <2>3. CASE ~loaded
    BY <1>0, <1>5, <2>1, <2>3, TypedAgain DEF Hook_StartupServer
  <2> QED
    BY <2>2, <2>3
<1>6. CASE Load
  <2>1. HostTypes'
    BY <1>6 DEF Load, TypeInv, TypeOK
  <2> QED
    BY <1>0, <1>6, <2>1, TypedAgain DEF Load
<1>7. CASE Unload
  <2>0. Fresh.extra = <<>> /\ Fresh.mounted = <<>> /\ Fresh.queue = <<>>
        /\ Fresh.important = {} /\ Fresh.wsMap = None
    BY DEF Fresh
  <2>1. HostTypes'
    <3>1. /\ loaded' = FALSE /\ astray' = FALSE /\ extra' = <<>> /\ wsMap' = None
          /\ UNCHANGED <<steamUp, installed, level, serverAddons, request>>
      BY <1>7, <2>0 DEF Unload
    <3>2. {loaded', astray', steamUp'} \subseteq BOOLEAN
      BY <3>1 DEF TypeInv, TypeOK
    <3>3. request' \in Requests /\ (request.pending => request.level \in Maps)'
      BY <3>1 DEF TypeInv, TypeOK
    <3> QED
      BY <3>1, <3>2, <3>3 DEF TypeInv, TypeOK
  <2>2. UnmountAll(Files).paths \in Seq(Addons)
    BY FilesType, UnmountAllType DEF TypeInv, FileStates
  <2> QED
    BY <1>0, <1>7, <2>1, <2>0, <2>2, TypedAgain DEF Unload, UnloadedPaths
<1>8. CASE UNCHANGED vars
  BY <1>8 DEF vars, TypeInv, TypeOK
<1> QED
  BY <1>1, <1>2, <1>3, <1>4, <1>5, <1>6, <1>7, <1>8 DEF Next

LEMMA AlwaysTyped == Spec => []TypeInv
<1>1. TypeInv /\ [Next]_vars => TypeInv'
  BY NextTyped
<1> QED
  BY <1>1, InitTyped, PTL DEF Spec

\* The server's state has its type in every reachable state, whatever is added,
\* removed, downloaded or reloaded: a level that is reloaded is always a level
\* the server can run.
THEOREM ServerTypeCorrect == Spec => []TypeOK
<1>1. TypeInv => TypeOK
  BY DEF TypeInv
<1> QED
  BY <1>1, AlwaysTyped, PTL

-----------------------------------------------------------------------------
(* The mounted addons and the search path *)

\* A list whose elements are all in the set is kept whole.
LEMMA KeptAll ==
    ASSUME NEW T, NEW s \in Seq(T), NEW S, \A i \in 1..Len(s) : s[i] \in S
    PROVE  Kept(s, S) = s
<1> DEFINE k == Len(s)
<1>1. PICK g : g \in [0..Len(s) -> Seq(T)] /\ Keeping(g, s, S)
  BY KeptSteps, Zenon
<1> DEFINE U == {n \in 0..k : g[n] = SubSeq(s, 1, n)}
<1>2. k \in Nat /\ SubSeq(s, 1, 0) = <<>> /\ SubSeq(s, 1, k) = s
  BY SubSeqFull
<1>3. 0 \in U
  BY <1>1, <1>2 DEF Keeping
<1>4. ASSUME NEW n \in 1..k, n - 1 \in U
      PROVE  n \in U
  <2>1. g[n] = Append(g[n - 1], s[n])
    BY <1>1 DEF Keeping
  <2>2. n \in 0..k /\ g[n - 1] = SubSeq(s, 1, n - 1)
    BY <1>4
  <2>3. SubSeq(s, 1, n) = Append(SubSeq(s, 1, n - 1), s[n])
    BY <1>2
  <2> QED
    BY <2>1, <2>2, <2>3
<1> HIDE DEF U
<1>5. \A n \in 0..k : n \in U
  BY <1>2, <1>3, <1>4, NumbersUpTo
<1>6. k \in U
  BY <1>2, <1>5
<1> QED
  BY <1>1, <1>2, <1>6 DEF U, Keeping

\* Removing the last element of a list without duplicates, either way, leaves the
\* list without it.
LEMMA LastRemoved ==
    ASSUME NEW s \in Seq(Addons), s # <<>>, NoDuplicates(s)
    PROVE  /\ FastRemove(s, s[Len(s)]) = SubSeq(s, 1, Len(s) - 1)
           /\ Kept(s, Addons \ {s[Len(s)]}) = SubSeq(s, 1, Len(s) - 1)
<1> DEFINE n == Len(s)
           a == s[n]
           front == SubSeq(s, 1, n - 1)
           S == Addons \ {a}
<1>1. n \in Nat \ {0} /\ n \in DOMAIN s /\ a \in Addons
  OBVIOUS
<1>2. front \in Seq(Addons) /\ s = Append(front, a) /\ Len(front) = n - 1
      /\ \A j \in 1..Len(front) : front[j] = s[j]
  <2>1. n - 1 \in 0..Len(s) /\ n \in 1..Len(s) /\ SubSeq(s, 1, n) = s
    BY <1>1, SubSeqFull
  <2>2. front \in Seq(Addons) /\ Len(front) = n - 1 /\ \A j \in 1..(n - 1) : front[j] = s[j]
    BY <2>1, FirstElements
  <2>3. s = Append(front, a)
    BY <2>1, FrontAppend
  <2> QED
    BY <2>2, <2>3
<1>3. FastRemove(s, a) = front
  <2> DEFINE i == CHOOSE k \in DOMAIN s : s[k] = a
  <2>1. i = n
    <3>1. i \in DOMAIN s /\ s[i] = a
      BY <1>1
    <3> HIDE DEF i
    <3> QED
      BY <1>1, <3>1 DEF NoDuplicates
  <2>2. [s EXCEPT ![i] = s[n]] = s
    BY <2>1, <1>1
  <2> QED
    BY <2>2 DEF FastRemove
<1>4. Kept(s, S) = front
  <2>1. \A j \in 1..Len(front) : front[j] \in S
    <3> SUFFICES ASSUME NEW j \in 1..(n - 1)
                 PROVE  s[j] \in Addons /\ s[j] # a
      BY <1>2
    <3>1. j \in DOMAIN s /\ j # n
      BY <1>1
    <3> QED
      BY <1>1, <3>1 DEF NoDuplicates
  <2> HIDE DEF front, a, S
  <2>2. Kept(front, S) = front
    BY <1>2, <2>1, KeptAll, Zenon
  <2>3. a \notin S
    BY DEF S
  <2>4. Kept(Append(front, a), S) = IF a \in S THEN Append(Kept(front, S), a) ELSE Kept(front, S)
    BY <1>1, <1>2, KeptAppend, Zenon
  <2> QED
    BY <1>2, <2>2, <2>3, <2>4
<1> QED
  BY <1>3, <1>4

\* What is mounted is on the search path, in the same order, and once.
InStep(f) == f.mounted = f.paths /\ NoDuplicates(f.mounted)

\* UnmountAddon never fails: every addon on the disk has the "_dir" suffix.
NoSingleFile == SingleFile = {}

\* RefreshAddons and ClearAddons leave nothing mounted, and nothing else changed.
LEMMA AllUnmounted ==
    ASSUME NoSingleFile, NEW f \in FileStates, InStep(f)
    PROVE  UnmountAll(f) = [f EXCEPT !.mounted = <<>>, !.paths = <<>>]
<1> DEFINE n == Len(f.mounted)
           front(k) == SubSeq(f.mounted, 1, n - k)
           cut(k) == [f EXCEPT !.mounted = front(k), !.paths = front(k)]
<1>1. PICK after : Unmounting(after, f)
  BY UnmountSteps
<1> DEFINE U == {k \in 0..n : after[k] = cut(k)}
<1>2. n \in Nat /\ f.mounted \in Seq(Addons) /\ f.paths = f.mounted /\ NoDuplicates(f.mounted)
  BY DEF FileStates, InStep
<1>3. 0 \in U
  <2>1. front(0) = f.mounted
    BY <1>2, SubSeqFull
  <2>2. cut(0) = f
    BY <1>2, <2>1 DEF FileStates
  <2> QED
    BY <1>1, <1>2, <2>2 DEF Unmounting
<1>4. ASSUME NEW k \in 1..n, k - 1 \in U
      PROVE  k \in U
  <2> DEFINE s == front(k - 1)
  <2>1. /\ s \in Seq(Addons) /\ Len(s) = n + 1 - k /\ s # <<>>
        /\ \A j \in DOMAIN s : j \in DOMAIN f.mounted /\ s[j] = f.mounted[j]
    <3> DEFINE m == n + 1 - k
               l == f.mounted
    <3>1. m \in 0..Len(l) /\ n - (k - 1) = m /\ m # 0 /\ l \in Seq(Addons)
      BY <1>2
    <3> HIDE DEF m, l, s
    <3>2. /\ SubSeq(l, 1, m) \in Seq(Addons) /\ Len(SubSeq(l, 1, m)) = m
          /\ DOMAIN SubSeq(l, 1, m) = 1..m
          /\ \A j \in 1..m : j \in DOMAIN l /\ SubSeq(l, 1, m)[j] = l[j]
      BY <3>1, FirstElements
    <3>3. s = SubSeq(l, 1, m)
      BY <3>1 DEF s, l
    <3>4. s # <<>>
      BY <3>1, <3>2, <3>3
    <3> QED
      BY <3>2, <3>3, <3>4 DEF l, m
  <2>2. NoDuplicates(s)
    BY <1>2, <2>1 DEF NoDuplicates
  <2>3. s[Len(s)] = f.mounted[n + 1 - k]
    BY <1>2, <2>1
  <2>4. SubSeq(s, 1, Len(s) - 1) = front(k)
    BY <1>2, <2>1
  <2>5. after[k] = UnmountAddon(cut(k - 1), f.mounted[n + 1 - k])
    BY <1>1, <1>4 DEF Unmounting
  <2>6. cut(k - 1).mounted = s /\ cut(k - 1).paths = s
    BY DEF FileStates
  <2> HIDE DEF s
  <2>7. UnmountAddon(cut(k - 1), s[Len(s)])
        = [cut(k - 1) EXCEPT !.paths = Kept(s, Addons \ {s[Len(s)]}),
                             !.mounted = FastRemove(s, s[Len(s)])]
    BY <2>6 DEF UnmountAddon, NoSingleFile
  <2>8. UnmountAddon(cut(k - 1), s[Len(s)])
        = [cut(k - 1) EXCEPT !.paths = front(k), !.mounted = front(k)]
    BY <2>1, <2>2, <2>4, <2>7, LastRemoved
  <2>9. after[k] = cut(k)
    BY <2>3, <2>5, <2>8 DEF FileStates
  <2> QED
    BY <1>2, <2>9
<1> HIDE DEF U
<1>5. n \in U
  <2>1. \A k \in 0..n : k \in U
    BY <1>2, <1>3, <1>4, NumbersUpTo
  <2> QED
    BY <1>2, <2>1
<1>6. UnmountAll(f) = cut(n)
  BY <1>1, <1>5 DEF Unmounting, U
<1>7. front(n) = <<>>
  BY <1>2
<1> QED
  BY <1>6, <1>7

LEMMA AppendWithoutDuplicates ==
    ASSUME NEW T, NEW s \in Seq(T), NEW a \in T, NoDuplicates(s), a \notin Range(s)
    PROVE  NoDuplicates(Append(s, a))
<1> DEFINE t == Append(s, a)
<1>1. /\ DOMAIN t = 1..(Len(s) + 1) /\ DOMAIN s = 1..Len(s) /\ Len(s) \in Nat
      /\ t[Len(s) + 1] = a /\ \A j \in DOMAIN s : t[j] = s[j]
  OBVIOUS
<1> HIDE DEF t
<1>2. \A j \in DOMAIN s : s[j] # a
  BY DEF Range
<1>3. ASSUME NEW i \in DOMAIN t, NEW j \in DOMAIN t, t[i] = t[j]
      PROVE  i = j
  <2>1. (i \in DOMAIN s \/ i = Len(s) + 1) /\ (j \in DOMAIN s \/ j = Len(s) + 1)
    BY <1>1
  <2> QED
    BY <1>1, <1>2, <1>3, <2>1 DEF NoDuplicates
<1> QED
  BY <1>3 DEF NoDuplicates, t

\* DownloadAddon mounts nothing.
LEMMA DownloadMountsNothing ==
    ASSUME NEW f \in FileStates, NEW a \in Addons, NEW i, NEW b, NEW starts
    PROVE  /\ StartDownload(f, a, i, b, starts).mounted = f.mounted
           /\ StartDownload(f, a, i, b, starts).paths = f.paths
           /\ StartDownload(f, a, i, b, starts).all = f.all
BY DEF StartDownload, FileStates

LEMMA MountKeepsStep ==
    ASSUME NEW f \in FileStates, NEW a \in Addons, NEW starts, InStep(f)
    PROVE  InStep(MountAddon(f, a, starts))
<1> DEFINE failed == [f EXCEPT !.all = FALSE]
           g == UpdateDownload(f, a, starts)
           h == StartDownload(failed, a, TRUE, TRUE, starts)
<1>1. failed \in FileStates /\ failed.mounted = f.mounted /\ failed.paths = f.paths
  BY DEF FileStates
<1>2. g \in FileStates /\ g.mounted = f.mounted /\ g.paths = f.paths
  <2> DEFINE d == StartDownload(f, a, FALSE, TRUE, starts)
  <2>1. d \in FileStates
    BY StartDownloadType
  <2>2. d.mounted = f.mounted /\ d.paths = f.paths
    BY DEF StartDownload, FileStates
  <2>3. g = d \/ g = f
    BY Zenon DEF UpdateDownload
  <2> HIDE DEF d, g
  <2> QED
    BY <2>1, <2>2, <2>3, Zenon
<1> HIDE DEF failed, g, h
<1>3. InStep(failed)
  BY <1>1 DEF InStep
<1>4. InStep(h)
  <2>1. h.mounted = failed.mounted /\ h.paths = failed.paths
    BY <1>1 DEF h, StartDownload, FileStates
  <2> QED
    BY <1>1, <2>1 DEF InStep
<1>5. InStep([g EXCEPT !.all = FALSE])
  BY <1>2 DEF InStep, FileStates
<1>6. ASSUME a \notin Range(f.mounted)
      PROVE  InStep(OnPath(g, a))
  <2>1. OnPath(g, a).mounted = Append(f.mounted, a) /\ OnPath(g, a).paths = Append(f.paths, a)
    BY <1>2 DEF OnPath, FileStates
  <2>2. f.mounted \in Seq(Addons)
    BY DEF FileStates
  <2>3. NoDuplicates(Append(f.mounted, a))
    BY <1>6, <2>2, AppendWithoutDuplicates DEF InStep
  <2> QED
    BY <2>1, <2>3 DEF InStep
<1> QED
  BY <1>3, <1>4, <1>5, <1>6 DEF MountAddon, failed, g, h

LEMMA RemountKeepsStep ==
    ASSUME NoSingleFile, NEW list \in Seq(Addons), NEW starts, Files \in FileStates,
           InStep(Files)
    PROVE  InStep(Remounted(list, starts))
<1>1. PICK after : Remounting(after, list, starts)
  BY RemountSteps
<1> DEFINE n == Len(list)
           U == {k \in 0..n : InStep(after[k])}
<1>2. n \in Nat
  OBVIOUS
<1>3. 0 \in U
  <2>1. after[0] = [Files EXCEPT !.mounted = <<>>, !.paths = <<>>]
    BY <1>1, AllUnmounted DEF Remounting
  <2>2. after[0].mounted = <<>> /\ after[0].paths = <<>>
    BY <2>1 DEF FileStates
  <2>3. NoDuplicates(<<>>)
    BY DEF NoDuplicates
  <2> QED
    BY <1>2, <2>2, <2>3 DEF InStep
<1>4. ASSUME NEW k \in 1..n, k - 1 \in U
      PROVE  k \in U
  <2>1. after[k] = MountAddon(after[k - 1], list[k], starts) /\ list[k] \in Addons
        /\ after[k - 1] \in FileStates /\ k \in 0..n
    BY <1>1, <1>2 DEF Remounting
  <2>2. InStep(after[k])
    BY <1>4, <2>1, MountKeepsStep
  <2> QED
    BY <2>1, <2>2
<1> HIDE DEF U
<1>5. \A k \in 0..n : k \in U
  BY <1>2, <1>3, <1>4, NumbersUpTo
<1>6. n \in U
  BY <1>2, <1>5
<1> QED
  BY <1>1, <1>6 DEF U, Remounting

MountInv == TypeInv /\ InStep(Files)

LEMMA RefreshKeepsStep ==
    ASSUME NoSingleFile, MountInv, NEW list \in Seq(Addons), NEW b, Refresh(list, b)
    PROVE  InStep(Files)'
<1>1. CASE ~steamUp'
  BY <1>1 DEF Refresh, fileVars, MountInv, InStep, Files
<1>2. CASE steamUp'
  <2>1. PICK starts \in Startable : Become(Remounted(list, starts))
    BY <1>2 DEF Refresh
  <2>2. InStep(Remounted(list, starts))
    BY FilesType, RemountKeepsStep DEF MountInv, TypeInv
  <2> QED
    BY <2>1, <2>2 DEF Become, InStep, Files
<1> QED
  BY <1>1, <1>2

LEMMA MountStep ==
    ASSUME NoSingleFile, MountInv, Next
    PROVE  InStep(Files)'
<1> USE DEF fileVars
<1>0. extra \in Seq(Addons) /\ TypeInv /\ Files \in FileStates
  BY FilesType DEF MountInv, TypeInv, TypeOK
<1>1. ASSUME NEW list \in Lists, SetExtraAddons(list)
      PROVE  InStep(Files)'
  BY <1>1, AddonsAssumption, RefreshKeepsStep DEF SetExtraAddons
<1>2. ASSUME NEW a \in Addons, NEW b \in BOOLEAN, AddAddon(a, b) \/ RemoveAddon(a, b)
      PROVE  InStep(Files)'
  <2>1. extra' \in Seq(Addons)
    <3>1. CASE AddAddon(a, b)
      BY <1>0, <3>1 DEF AddAddon
    <3>2. CASE RemoveAddon(a, b)
      BY <1>0, <3>2, FirstIsPlace, RemoveAtType DEF RemoveAddon, First
    <3> QED
      BY <1>2, <3>1, <3>2
  <2>2. PICK list \in Seq(Addons) : list = extra'
    BY <2>1
  <2>3. CASE b
    <3>1. Refresh(list, FALSE)
      BY <1>2, <2>2, <2>3 DEF AddAddon, RemoveAddon
    <3> QED
      BY <3>1, RefreshKeepsStep
  <2>4. CASE ~b
    BY <1>2, <2>4 DEF AddAddon, RemoveAddon, MountInv, InStep, Files
  <2> QED
    BY <2>3, <2>4
<1>3. CASE ClearAddons
  <2>1. mounted' = UnmountAll(Files).mounted /\ paths' = UnmountAll(Files).paths
    BY <1>3 DEF ClearAddons, Become
  <2>2. UnmountAll(Files) = [Files EXCEPT !.mounted = <<>>, !.paths = <<>>]
    BY <1>0, AllUnmounted DEF MountInv
  <2>3. mounted' = <<>> /\ paths' = <<>>
    BY <1>0, <2>1, <2>2 DEF FileStates
  <2> QED
    BY <2>3 DEF InStep, NoDuplicates, Files
<1>4. ASSUME NEW b \in BOOLEAN, RefreshAddons(b)
      PROVE  InStep(Files)'
  BY <1>0, <1>4, RefreshKeepsStep DEF RefreshAddons
<1>5. ASSUME NEW a \in Addons, NEW i \in BOOLEAN, NEW f \in BOOLEAN, DownloadAddon(a, i, f)
      PROVE  InStep(Files)'
  <2>1. PICK starts : Become(StartDownload(Files, a, i, f, starts))
    BY <1>5 DEF DownloadAddon
  <2>2. mounted' = Files.mounted /\ paths' = Files.paths
    BY <1>0, <2>1, DownloadMountsNothing DEF Become
  <2> QED
    BY <2>2 DEF MountInv, InStep, Files
<1>6. CASE Steam
  <2>1. CASE Hook_GameServerSteamAPIActivated
    <3>1. CASE loaded
      BY <1>0, <2>1, <3>1, RefreshKeepsStep DEF Hook_GameServerSteamAPIActivated
    <3>2. CASE ~loaded
      BY <2>1, <3>2 DEF Hook_GameServerSteamAPIActivated, MountInv, InStep, Files
    <3> QED
      BY <3>1, <3>2
  <2>2. CASE ~Hook_GameServerSteamAPIActivated
    BY <1>6, <2>2 DEF Steam, EngineDownloads, OnAddonDownloaded, MountInv, InStep, Files
  <2> QED
    BY <2>1, <2>2
<1>7. CASE RunCommand
  BY <1>7 DEF RunCommand, Ask, MountInv, InStep, Files
<1>8. ASSUME NEW kind, NEW m \in Maps, ChooseMap(kind, m)
      PROVE  InStep(Files)'
  BY <1>8 DEF ChooseMap, Ask, MountInv, InStep, Files
<1>9. CASE Hook_StartupServer
  <2>1. CASE loaded
    <3>1. Refresh(extra, FALSE)
      BY <1>9, <2>1 DEF Hook_StartupServer, StartupServerMounts
    <3> QED
      BY <1>0, <3>1, RefreshKeepsStep
  <2>2. CASE ~loaded
    BY <1>9, <2>2 DEF Hook_StartupServer, MountInv, InStep, Files
  <2> QED
    BY <2>1, <2>2
<1>10. CASE Load
  BY <1>10 DEF Load, MountInv, InStep, Files
<1>11. CASE Unload
  <2>1. UnmountAll(Files) = [Files EXCEPT !.mounted = <<>>, !.paths = <<>>]
    BY <1>0, AllUnmounted DEF MountInv
  <2>2. mounted' = <<>> /\ paths' = UnmountAll(Files).paths
    BY <1>11 DEF Unload, UnloadedPaths, Fresh
  <2>3. paths' = <<>>
    BY <1>0, <2>1, <2>2 DEF FileStates
  <2> QED
    BY <2>2, <2>3 DEF InStep, NoDuplicates, Files
<1> QED
  BY <1>1, <1>2, <1>3, <1>4, <1>5, <1>6, <1>7, <1>8, <1>9, <1>10, <1>11 DEF Next, Interface

\* m_MountedAddons is the search path, element by element, after any sequence of
\* list changes, refreshes, unmounts and restarts of the plugin, as long as every
\* addon on the disk can be unmounted: what the clients are told to mount is in
\* the order in which the server searches it.
THEOREM MountedIsSearched ==
    ASSUME NoSingleFile
    PROVE  Spec => []MountOrderIsSearchOrder
<1>1. Init => MountInv
  <2> SUFFICES ASSUME Init PROVE MountInv
    OBVIOUS
  <2>1. mounted = <<>> /\ paths = <<>>
    BY DEF Init, Fresh
  <2> QED
    BY <2>1, InitTyped DEF MountInv, InStep, Files, NoDuplicates
<1>2. MountInv /\ [Next]_vars => MountInv'
  <2> SUFFICES ASSUME MountInv, [Next]_vars PROVE MountInv'
    OBVIOUS
  <2>1. TypeInv'
    BY NextTyped DEF MountInv
  <2>2. CASE Next
    BY <2>1, <2>2, MountStep DEF MountInv
  <2>3. CASE UNCHANGED vars
    BY <2>1, <2>3 DEF MountInv, InStep, Files, vars, fileVars
  <2> QED
    BY <2>2, <2>3
<1>3. MountInv => MountOrderIsSearchOrder
  BY DEF MountInv, InStep, Files, MountOrderIsSearchOrder
<1> QED
  BY <1>1, <1>2, <1>3, PTL DEF Spec

-----------------------------------------------------------------------------
(* The download queue *)

LEMMA AppendRange ==
    ASSUME NEW T, NEW s \in Seq(T), NEW x \in T
    PROVE  Range(Append(s, x)) = Range(s) \cup {x}
<1> DEFINE t == Append(s, x)
           k == Len(s)
<1>1. /\ DOMAIN t = 1..(k + 1) /\ DOMAIN s = 1..k /\ k \in Nat
      /\ t[k + 1] = x /\ \A j \in 1..k : t[j] = s[j]
  OBVIOUS
<1> HIDE DEF t, k
<1>2. ASSUME NEW y \in Range(t)
      PROVE  y \in Range(s) \cup {x}
  <2>1. PICK j \in DOMAIN t : y = t[j]
    BY <1>2 DEF Range
  <2>2. j = k + 1 \/ j \in 1..k
    BY <1>1
  <2> QED
    BY <1>1, <2>1, <2>2 DEF Range
<1>3. x \in Range(t)
  <2>1. k + 1 \in DOMAIN t
    BY <1>1
  <2> QED
    BY <1>1, <2>1 DEF Range
<1>4. ASSUME NEW y \in Range(s)
      PROVE  y \in Range(t)
  <2>1. PICK j \in DOMAIN s : y = s[j]
    BY <1>4 DEF Range
  <2>2. j \in DOMAIN t
    BY <1>1
  <2> QED
    BY <1>1, <2>1, <2>2 DEF Range
<1> QED
  BY <1>2, <1>3, <1>4 DEF t

\* Without duplicates, the list without its first element is its tail.
LEMMA HeadRemoved ==
    ASSUME NEW s \in Seq(Addons), s # <<>>, NoDuplicates(s)
    PROVE  /\ Kept(s, Addons \ {Head(s)}) = Tail(s)
           /\ NoDuplicates(Tail(s))
           /\ Range(Tail(s)) = Range(s) \ {Head(s)}
<1> DEFINE k == Len(s)
           r == Tail(s)
           S == Addons \ {Head(s)}
<1>1. /\ k \in Nat \ {0} /\ s[1] = Head(s) /\ DOMAIN s = 1..k
      /\ r \in Seq(Addons) /\ Len(r) = k - 1 /\ \A j \in 1..(k - 1) : r[j] = s[j + 1]
  OBVIOUS
<1>2. PICK g : g \in [0..Len(s) -> Seq(Addons)] /\ Keeping(g, s, S)
  BY KeptSteps, Zenon
<1>3. g[0] = <<>> /\ Kept(s, S) = g[k]
      /\ \A n \in 1..k : g[n] = IF s[n] \in S THEN Append(g[n - 1], s[n]) ELSE g[n - 1]
  BY <1>2 DEF Keeping
<1>4. s[1] \notin S /\ \A n \in 2..k : s[n] \in S
  <2>1. ASSUME NEW n \in 2..k
        PROVE  s[n] \in S
    <3>1. n \in DOMAIN s /\ 1 \in DOMAIN s /\ n # 1
      BY <1>1
    <3> QED
      BY <1>1, <3>1 DEF NoDuplicates
  <2> QED
    BY <1>1, <2>1
<1> HIDE DEF S, r, k
<1> DEFINE U == {n \in 0..(k - 1) : g[n + 1] = SubSeq(r, 1, n)}
<1>5. 0 \in U
  <2>1. SubSeq(r, 1, 0) = <<>> /\ 1 \in 1..k
    BY <1>1
  <2>2. g[1] = g[1 - 1]
    BY <1>3, <1>4, <2>1
  <2>3. 0 \in 0..(k - 1) /\ 0 + 1 = 1 /\ g[1 - 1] = g[0]
    BY <1>1
  <2>4. g[0 + 1] = SubSeq(r, 1, 0)
    BY <1>3, <2>1, <2>2, <2>3
  <2> QED
    BY <2>3, <2>4
<1>6. ASSUME NEW n \in 1..(k - 1), n - 1 \in U
      PROVE  n \in U
  <2>1. n + 1 \in 1..k /\ n + 1 \in 2..k /\ n \in 0..(k - 1) /\ (n + 1) - 1 = n
        /\ (n - 1) + 1 = n
    BY <1>1
  <2>2. g[n + 1] = Append(g[n], s[n + 1])
    BY <1>3, <1>4, <2>1
  <2>3. g[n] = SubSeq(r, 1, n - 1)
    BY <1>6, <2>1
  <2>4. SubSeq(r, 1, n) = Append(SubSeq(r, 1, n - 1), r[n])
    BY <1>1, FrontAppend
  <2>5. r[n] = s[n + 1]
    BY <1>1
  <2> QED
    BY <2>1, <2>2, <2>3, <2>4, <2>5
<1> HIDE DEF U
<1>7. \A n \in 0..(k - 1) : n \in U
  <2>1. k - 1 \in Nat
    BY <1>1
  <2> QED
    BY <2>1, <1>5, <1>6, NumbersUpTo
<1>8. g[k] = r
  <2>1. k - 1 \in U /\ (k - 1) + 1 = k
    BY <1>1, <1>7
  <2>2. g[k] = SubSeq(r, 1, k - 1)
    BY <2>1 DEF U
  <2> QED
    BY <1>1, <2>2, SubSeqFull
<1>9. NoDuplicates(r)
  <2> SUFFICES ASSUME NEW i \in DOMAIN r, NEW j \in DOMAIN r, r[i] = r[j]
               PROVE  i = j
    BY DEF NoDuplicates
  <2>1. i \in 1..(k - 1) /\ j \in 1..(k - 1) /\ i + 1 \in DOMAIN s /\ j + 1 \in DOMAIN s
    BY <1>1
  <2>2. i + 1 = j + 1
    BY <1>1, <2>1 DEF NoDuplicates
  <2> QED
    BY <2>1, <2>2
<1>10. Range(r) = Range(s) \ {Head(s)}
  <2>1. ASSUME NEW y \in Range(r)
        PROVE  y \in Range(s) /\ y # Head(s)
    <3>1. PICK j \in DOMAIN r : y = r[j]
      BY <2>1 DEF Range
    <3>2. j \in 1..(k - 1) /\ j + 1 \in DOMAIN s /\ 1 \in DOMAIN s /\ j + 1 # 1
      BY <1>1
    <3> QED
      BY <1>1, <3>1, <3>2, ZenonT(60) DEF Range, NoDuplicates
  <2>2. ASSUME NEW y \in Range(s), y # Head(s)
        PROVE  y \in Range(r)
    <3>1. PICK j \in DOMAIN s : y = s[j]
      BY <2>2 DEF Range
    <3>2. j # 1
      BY <1>1, <2>2, <3>1
    <3>3. j - 1 \in 1..(k - 1) /\ j - 1 \in DOMAIN r /\ (j - 1) + 1 = j
      BY <1>1, <3>2
    <3> QED
      BY <1>1, <3>1, <3>3 DEF Range
  <2> QED
    BY <2>1, <2>2
<1> QED
  BY <1>3, <1>8, <1>9, <1>10 DEF S, r, k

\* The queue is what Steam works on, in the order it began.
Follows(f) ==
    /\ f.queue = f.downloading
    /\ NoDuplicates(f.queue)
    /\ f.important \subseteq Range(f.queue)

\* From f to g the queue only grew, and only what is new became important.
Grows(f, g) ==
    /\ Range(f.queue) \subseteq Range(g.queue)
    /\ f.important \subseteq g.important
    /\ g.important \ f.important \subseteq Range(g.queue) \ Range(f.queue)

\* d is what a call of DownloadAddon makes of f.
Asked(f, d, bImportant) ==
    /\ d \in FileStates
    /\ Follows(d)
    /\ Grows(f, d)
    /\ bImportant = FALSE => d.important = f.important
    /\ d.all = f.all

LEMMA DownloadFollows ==
    ASSUME NEW f \in FileStates, Follows(f), NEW a \in Addons,
           NEW i \in BOOLEAN, NEW b \in BOOLEAN, NEW starts
    PROVE  Asked(f, StartDownload(f, a, i, b, starts), i)
<1> DEFINE d == StartDownload(f, a, i, b, starts)
           imp == IF i THEN f.important \cup {a} ELSE f.important
           g == [f EXCEPT !.queue = Append(@, a),
                          !.important = IF i THEN @ \cup {a} ELSE @,
                          !.downloading = IF a \in Range(@) THEN @ ELSE Append(@, a)]
<1>0. d \in FileStates
  BY StartDownloadType
<1>1. d = f \/ (a \notin Range(f.queue) /\ d = g)
  BY Zenon DEF StartDownload
<1>2. CASE d = f
  <2> HIDE DEF d
  <2>1. Follows(d) /\ Grows(f, d) /\ d.important = f.important /\ d.all = f.all
    BY <1>2 DEF Grows
  <2> QED
    BY <1>0, <2>1 DEF d, Asked
<1>3. CASE a \notin Range(f.queue) /\ d = g
  <2>1. f.queue \in Seq(Addons) /\ f.queue = f.downloading
    BY DEF FileStates, Follows
  <2>2. g.queue = Append(f.queue, a) /\ g.downloading = Append(f.queue, a) /\ g.all = f.all
        /\ g.important = imp
    BY <1>3, <2>1 DEF FileStates
  <2>3. NoDuplicates(Append(f.queue, a)) /\ Range(Append(f.queue, a)) = Range(f.queue) \cup {a}
    BY <1>3, <2>1, AppendWithoutDuplicates, AppendRange DEF Follows
  <2>4. imp \subseteq f.important \cup {a} /\ f.important \subseteq imp
        /\ (i = FALSE => imp = f.important)
    OBVIOUS
  <2> HIDE DEF d, g, imp
  <2>5. Follows(g) /\ Grows(f, g)
    BY <1>3, <2>2, <2>3, <2>4 DEF Follows, Grows
  <2>6. Asked(f, g, i)
    BY <1>0, <1>3, <2>2, <2>4, <2>5, Zenon DEF Asked
  <2> QED
    BY <1>3, <2>6, Zenon DEF d
<1> QED
  BY <1>1, <1>2, <1>3

\* q is what some calls of MountAddon make of f: all of them returned true only
\* if nothing was missing.
Mounted(f, q) ==
    /\ Follows(q)
    /\ Grows(f, q)
    /\ q.all = TRUE => f.all = TRUE /\ q.important = f.important

LEMMA MountFollows ==
    ASSUME NEW f \in FileStates, Follows(f), NEW a \in Addons, NEW starts
    PROVE  Mounted(f, MountAddon(f, a, starts))
<1> DEFINE failed == [f EXCEPT !.all = FALSE]
           h == StartDownload(failed, a, TRUE, TRUE, starts)
           d == StartDownload(f, a, FALSE, TRUE, starts)
           g == UpdateDownload(f, a, starts)
<1>1. failed \in FileStates /\ Follows(failed) /\ Grows(f, failed) /\ failed.all = FALSE
      /\ failed.queue = f.queue /\ failed.important = f.important
  BY DEF FileStates, Follows, Grows
<1>2. Asked(failed, h, TRUE) /\ Asked(f, d, FALSE)
  BY <1>1, DownloadFollows, Zenon
<1>3. g = d \/ g = f
  BY Zenon DEF UpdateDownload
<1> HIDE DEF failed, h, d, g
<1>4. Mounted(f, failed)
  BY <1>1 DEF Mounted
<1>5. Mounted(f, h)
  <2>1. Follows(h) /\ Grows(failed, h) /\ h.all = FALSE
    BY <1>1, <1>2 DEF Asked
  <2> QED
    BY <1>1, <2>1 DEF Mounted, Grows
<1>6. g \in FileStates /\ Follows(g) /\ Grows(f, g) /\ g.important = f.important
      /\ g.all = f.all
  <2>1. Grows(f, f)
    BY DEF Grows
  <2>2. d \in FileStates /\ Follows(d) /\ Grows(f, d) /\ d.important = f.important
        /\ d.all = f.all
    BY <1>2, Zenon DEF Asked
  <2> QED
    BY <1>3, <2>1, <2>2, Zenon
<1>7. Mounted(f, [g EXCEPT !.all = FALSE])
  <2> DEFINE q == [g EXCEPT !.all = FALSE]
  <2>1. q.all = FALSE /\ q.queue = g.queue /\ q.downloading = g.downloading
        /\ q.important = g.important
    BY <1>6 DEF FileStates
  <2> HIDE DEF q
  <2>2. Mounted(f, q)
    BY <1>6, <2>1 DEF Mounted, Follows, Grows
  <2> QED
    BY <2>2 DEF q
<1>8. Mounted(f, OnPath(g, a))
  <2>1. OnPath(g, a).all = g.all /\ OnPath(g, a).queue = g.queue
        /\ OnPath(g, a).downloading = g.downloading /\ OnPath(g, a).important = g.important
    BY <1>6 DEF FileStates, OnPath
  <2> QED
    BY <1>6, <2>1 DEF Mounted, Follows, Grows
<1> QED
  BY <1>4, <1>5, <1>7, <1>8, Zenon DEF MountAddon, failed, h, g

\* Unmounting leaves the downloads alone.
SameLoads(f, g) ==
    /\ g.queue = f.queue /\ g.downloading = f.downloading
    /\ g.important = f.important /\ g.all = f.all

LEMMA UnmountLeavesLoads ==
    ASSUME NEW f \in FileStates
    PROVE  SameLoads(f, UnmountAll(f))
<1>1. PICK after : Unmounting(after, f)
  BY UnmountSteps
<1> DEFINE n == Len(f.mounted)
           U == {k \in 0..n : SameLoads(f, after[k])}
<1>2. n \in Nat
  BY DEF FileStates
<1>3. 0 \in U
  BY <1>1, <1>2 DEF Unmounting, SameLoads
<1>4. ASSUME NEW k \in 1..n, k - 1 \in U
      PROVE  k \in U
  <2> DEFINE p == after[k - 1]
             a == f.mounted[n + 1 - k]
  <2>1. after[k] = UnmountAddon(p, a) /\ k \in 0..n /\ k - 1 \in 0..n
    BY <1>1, <1>2 DEF Unmounting
  <2>2. p \in FileStates
    BY <1>1, <2>1 DEF Unmounting
  <2>3. SameLoads(f, p)
    BY <1>4
  <2> HIDE DEF p, a
  <2>4. SameLoads(p, UnmountAddon(p, a))
    BY <2>2 DEF UnmountAddon, SameLoads, FileStates
  <2>5. SameLoads(f, after[k])
    BY <2>1, <2>3, <2>4 DEF SameLoads
  <2> QED
    BY <2>1, <2>5
<1> HIDE DEF U
<1>5. n \in U
  <2>1. \A k \in 0..n : k \in U
    BY <1>2, <1>3, <1>4, NumbersUpTo
  <2> QED
    BY <1>2, <2>1
<1> QED
  BY <1>1, <1>5 DEF U, Unmounting

LEMMA RemountFollows ==
    ASSUME NEW list \in Seq(Addons), NEW starts, Files \in FileStates, Follows(Files)
    PROVE  Mounted(Files, Remounted(list, starts))
<1>1. PICK after : Remounting(after, list, starts)
  BY RemountSteps
<1> DEFINE n == Len(list)
           U == {k \in 0..n : Mounted(Files, after[k])}
<1>2. n \in Nat
  OBVIOUS
<1>3. 0 \in U
  <2>1. SameLoads(Files, after[0])
    BY <1>1, UnmountLeavesLoads DEF Remounting
  <2>2. Mounted(Files, after[0])
    BY <2>1 DEF SameLoads, Mounted, Follows, Grows
  <2> QED
    BY <1>2, <2>2
<1>4. ASSUME NEW k \in 1..n, k - 1 \in U
      PROVE  k \in U
  <2> DEFINE p == after[k - 1]
             q == after[k]
  <2>1. q = MountAddon(p, list[k], starts) /\ list[k] \in Addons
        /\ p \in FileStates /\ k \in 0..n
    BY <1>1, <1>2 DEF Remounting
  <2>2. Mounted(Files, p)
    BY <1>4
  <2> HIDE DEF p, q
  <2>3. Mounted(p, q)
    <3>1. Follows(p)
      BY <2>2 DEF Mounted
    <3>2. Mounted(p, MountAddon(p, list[k], starts))
      BY <2>1, <3>1, MountFollows
    <3> QED
      BY <2>1, <3>2
  <2>4. Mounted(Files, q)
    <3>1. Grows(Files, q)
      BY <2>2, <2>3 DEF Mounted, Grows
    <3> QED
      BY <2>2, <2>3, <3>1 DEF Mounted
  <2> QED
    BY <2>1, <2>4 DEF q
<1> HIDE DEF U
<1>5. \A k \in 0..n : k \in U
  BY <1>2, <1>3, <1>4, NumbersUpTo
<1>6. n \in U
  BY <1>2, <1>5
<1> QED
  BY <1>1, <1>6 DEF U, Remounting

\* Steam ends downloads in the order they began, and nobody but the plugin begins
\* any; if the plugin may be unloaded, an operator waits for Steam.
QueueIsSteams == InOrder /\ "engine" \notin Events /\ (Calm \/ "reload" \notin Events)

QueueInv ==
    /\ TypeInv
    /\ Follows(Files)
    /\ ~loaded => downloading = <<>>

\* What a call of the interface does to the queue and the commands.
Request ==
    /\ Follows(Files)'
    /\ Range(queue) \subseteq Range(queue')
    /\ important \subseteq important'
    /\ important' \ important \subseteq Range(queue') \ Range(queue)
    /\ commands' # commands => commands' # <<>> /\ important' = important

LEMMA RequestOf ==
    ASSUME NEW g, Mounted(Files, g), Become(g),
           commands' # commands => g.all = TRUE /\ commands' # <<>>
    PROVE  Request
<1>1. /\ queue' = g.queue /\ important' = g.important /\ downloading' = g.downloading
      /\ Files.queue = queue /\ Files.important = important
      /\ Files'.queue = queue' /\ Files'.important = important'
      /\ Files'.downloading = downloading'
  BY DEF Become, Files
<1>2. Follows(Files)'
  BY <1>1 DEF Mounted, Follows
<1> QED
  BY <1>1, <1>2 DEF Mounted, Grows, Request

LEMMA NoRequestMade ==
    ASSUME QueueInv, UNCHANGED <<queue, important, downloading, commands>>
    PROVE  Request
<1>1. Files'.queue = queue /\ Files'.important = important
      /\ Files'.downloading = downloading
      /\ Files.queue = queue /\ Files.important = important
      /\ Files.downloading = downloading
  BY DEF Files
<1>2. Follows(Files)'
  BY <1>1 DEF QueueInv, Follows
<1> QED
  BY <1>2 DEF Request

LEMMA RefreshRequests ==
    ASSUME QueueInv, NEW list \in Seq(Addons), NEW b, Refresh(list, b)
    PROVE  Request
<1>1. CASE ~steamUp'
  BY <1>1, NoRequestMade DEF Refresh, loadVars
<1>2. CASE steamUp'
  <2>1. PICK starts \in Startable :
            LET f == Remounted(list, starts)
            IN  /\ Become(f)
                /\ commands' = IF f.all /\ b THEN Append(commands, ReloadMap) ELSE commands
    BY <1>2 DEF Refresh
  <2> DEFINE g == Remounted(list, starts)
  <2>2. Mounted(Files, g)
    BY FilesType, RemountFollows DEF QueueInv, TypeInv
  <2>3. g \in FileStates
    BY FilesType, RemountedType DEF QueueInv, TypeInv
  <2>4. commands \in Seq(Commands) /\ ReloadMap \in Commands
    BY ReloadMapType DEF QueueInv, TypeInv, TypeOK
  <2>5. Append(commands, ReloadMap) # <<>>
    BY <2>4
  <2>6. Become(g) /\ (commands' # commands => g.all /\ commands' # <<>>)
    BY <2>1, <2>5, Zenon
  <2> HIDE DEF g
  <2>7. g.all => g.all = TRUE
    BY <2>3 DEF FileStates
  <2> QED
    BY <2>2, <2>6, <2>7, RequestOf, Zenon
<1> QED
  BY <1>1, <1>2

LEMMA InterfaceRequests ==
    ASSUME QueueInv, Interface
    PROVE  Request /\ loaded /\ loaded' = loaded
<1>0. extra \in Seq(Addons) /\ TypeInv /\ Files \in FileStates
  BY FilesType DEF QueueInv, TypeInv, TypeOK
<1>1. loaded /\ loaded' = loaded
  BY DEF Interface, SetExtraAddons, AddAddon, RemoveAddon, ClearAddons, RefreshAddons,
      DownloadAddon, Called, pluginVars
<1>2. ASSUME NEW list \in Lists, SetExtraAddons(list)
      PROVE  Request
  BY <1>2, AddonsAssumption, RefreshRequests DEF SetExtraAddons
<1>3. ASSUME NEW a \in Addons, NEW b \in BOOLEAN, AddAddon(a, b) \/ RemoveAddon(a, b)
      PROVE  Request
  <2>1. extra' \in Seq(Addons)
    <3>1. CASE AddAddon(a, b)
      BY <1>0, <3>1 DEF AddAddon
    <3>2. CASE RemoveAddon(a, b)
      BY <1>0, <3>2, FirstIsPlace, RemoveAtType DEF RemoveAddon, First
    <3> QED
      BY <1>3, <3>1, <3>2
  <2>2. PICK list \in Seq(Addons) : list = extra'
    BY <2>1
  <2>3. CASE b
    <3>1. Refresh(list, FALSE)
      BY <1>3, <2>2, <2>3 DEF AddAddon, RemoveAddon
    <3> QED
      BY <3>1, RefreshRequests
  <2>4. CASE ~b
    BY <1>3, <2>4, NoRequestMade DEF AddAddon, RemoveAddon, loadVars
  <2> QED
    BY <2>3, <2>4
<1>4. ASSUME ClearAddons
      PROVE  Request
  <2>1. Become(UnmountAll(Files)) /\ commands' = commands
    BY <1>4 DEF ClearAddons
  <2>2. SameLoads(Files, UnmountAll(Files))
    BY <1>0, UnmountLeavesLoads
  <2> QED
    BY <2>1, <2>2, NoRequestMade DEF Become, SameLoads, Files
<1>5. ASSUME NEW b \in BOOLEAN, RefreshAddons(b)
      PROVE  Request
  BY <1>0, <1>5, RefreshRequests DEF RefreshAddons
<1>6. ASSUME NEW a \in Addons, NEW i \in BOOLEAN, NEW f \in BOOLEAN, DownloadAddon(a, i, f)
      PROVE  Request
  <2>1. PICK starts : Become(StartDownload(Files, a, i, f, starts))
    BY <1>6 DEF DownloadAddon
  <2> DEFINE d == StartDownload(Files, a, i, f, starts)
  <2>2. Asked(Files, d, i)
    BY <1>0, DownloadFollows, Zenon DEF QueueInv
  <2>3. commands' = commands
    BY <1>6 DEF DownloadAddon
  <2> HIDE DEF d
  <2>4. /\ queue' = d.queue /\ important' = d.important /\ downloading' = d.downloading
        /\ Files.queue = queue /\ Files.important = important
        /\ Files'.queue = queue' /\ Files'.important = important'
        /\ Files'.downloading = downloading'
    BY <2>1 DEF Become, Files, d
  <2>5. Follows(Files)'
    BY <2>2, <2>4 DEF Asked, Follows
  <2> QED
    BY <2>2, <2>3, <2>4, <2>5 DEF Asked, Grows, Request
<1> QED
  BY <1>1, <1>2, <1>3, <1>4, <1>5, <1>6 DEF Interface

LEMMA StartupRequests ==
    ASSUME QueueInv, loaded, loaded' = loaded,
           Hook_StartupServer \/ Hook_GameServerSteamAPIActivated
    PROVE  Request
<1>1. extra \in Seq(Addons)
  BY DEF QueueInv, TypeInv, TypeOK
<1>2. Refresh(extra, FALSE) \/ Refresh(extra, TRUE)
  BY DEF Hook_StartupServer, StartupServerMounts, Hook_GameServerSteamAPIActivated
<1> QED
  BY <1>1, <1>2, RefreshRequests

\* A download has ended, and so has the plugin's wait for it.
LEMMA DownloadEnded ==
    ASSUME QueueIsSteams, QueueInv, NEW a \in Addons, NEW ok, OnAddonDownloaded(a, ok)
    PROVE  /\ a \in Range(queue) /\ loaded /\ loaded' = loaded
           /\ queue' = downloading' /\ NoDuplicates(queue')
           /\ Range(queue') = Range(queue) \ {a}
           /\ important' = important \ {a}
           /\ commands' = IF important = {a} THEN Append(commands, ReloadMap) ELSE commands
<1>1. /\ queue = downloading /\ NoDuplicates(queue) /\ important \subseteq Range(queue)
      /\ queue \in Seq(Addons)
  BY DEF QueueInv, Follows, Files, TypeInv, TypeOK
<1>2. a = Head(queue) /\ a \in Range(queue) /\ downloading' = Kept(queue, Addons \ {a})
  BY <1>1 DEF OnAddonDownloaded, QueueIsSteams
<1>3. queue # <<>>
  BY <1>2 DEF Range
<1>4. loaded
  BY <1>1, <1>3 DEF QueueInv
<1>5. /\ queue' = Tail(queue) /\ important' = important \ {a}
      /\ commands' = IF LastImportantDone(a) THEN Append(commands, ReloadMap) ELSE commands
  BY <1>2, <1>4, Zenon DEF OnAddonDownloaded, Dequeue
<1>6. LastImportantDone(a) <=> important = {a}
  BY DEF LastImportantDone
<1>7. /\ Kept(queue, Addons \ {a}) = Tail(queue) /\ NoDuplicates(Tail(queue))
      /\ Range(Tail(queue)) = Range(queue) \ {a}
  BY <1>1, <1>2, <1>3, HeadRemoved
<1>8. loaded' = loaded
  BY DEF OnAddonDownloaded, pluginVars
<1>9. commands' = IF important = {a} THEN Append(commands, ReloadMap) ELSE commands
  BY <1>5, <1>6, Zenon
<1> QED
  BY <1>2, <1>4, <1>5, <1>7, <1>8, <1>9

LEMMA QueueStep ==
    ASSUME QueueIsSteams, QueueInv, [Next]_vars
    PROVE  QueueInv'
<1> USE DEF loadVars, pluginVars
<1>0. TypeInv'
  BY NextTyped DEF QueueInv
<1>1. ASSUME Request, loaded, loaded' = loaded
      PROVE  QueueInv'
  BY <1>0, <1>1 DEF QueueInv, Request
<1>2. ASSUME UNCHANGED <<queue, important, downloading>>, loaded' = loaded
      PROVE  QueueInv'
  BY <1>0, <1>2 DEF QueueInv, Follows, Files
<1>3. CASE Interface
  BY <1>1, <1>3, InterfaceRequests
<1>4. CASE Hook_GameServerSteamAPIActivated
  <2>1. loaded' = loaded
    BY <1>4 DEF Hook_GameServerSteamAPIActivated
  <2>2. CASE loaded
    BY <1>1, <1>4, <2>1, <2>2, StartupRequests
  <2>3. CASE ~loaded
    BY <1>2, <1>4, <2>1, <2>3 DEF Hook_GameServerSteamAPIActivated
  <2> QED
    BY <2>2, <2>3
<1>5. ASSUME NEW a \in Addons, EngineDownloads(a)
      PROVE  QueueInv'
  BY <1>5 DEF EngineDownloads, QueueIsSteams
<1>6. ASSUME NEW a \in Addons, NEW ok \in Results, OnAddonDownloaded(a, ok)
      PROVE  QueueInv'
  <2>1. /\ loaded /\ loaded' = loaded
        /\ queue' = downloading' /\ NoDuplicates(queue')
        /\ Range(queue') = Range(queue) \ {a}
        /\ important' = important \ {a}
    BY <1>6, DownloadEnded
  <2>2. important \subseteq Range(queue)
    BY DEF QueueInv, Follows, Files
  <2> QED
    BY <1>0, <2>1, <2>2 DEF QueueInv, Follows, Files
<1>7. CASE RunCommand
  BY <1>2, <1>7 DEF RunCommand, Ask
<1>8. ASSUME NEW kind, NEW m \in Maps, ChooseMap(kind, m)
      PROVE  QueueInv'
  BY <1>2, <1>8 DEF ChooseMap, Ask
<1>9. CASE Hook_StartupServer
  <2>1. loaded' = loaded
    BY <1>9 DEF Hook_StartupServer
  <2>2. CASE loaded
    BY <1>1, <1>9, <2>1, <2>2, StartupRequests
  <2>3. CASE ~loaded
    BY <1>2, <1>9, <2>1, <2>3 DEF Hook_StartupServer
  <2> QED
    BY <2>2, <2>3
<1>10. CASE Load
  <2>1. loaded' = TRUE /\ UNCHANGED <<queue, important, downloading>>
    BY <1>10 DEF Load
  <2> QED
    BY <1>0, <2>1 DEF QueueInv, Follows, Files
<1>11. CASE Unload
  <2>1. downloading' = <<>>
    BY <1>11 DEF Unload, Called, QueueIsSteams
  <2>2. queue' = <<>> /\ important' = {}
    BY <1>11 DEF Unload, Fresh
  <2> QED
    BY <1>0, <2>1, <2>2 DEF QueueInv, Follows, Files, NoDuplicates
<1>12. CASE UNCHANGED vars
  BY <1>2, <1>12 DEF vars
<1> QED
  BY <1>3, <1>4, <1>5, <1>6, <1>7, <1>8, <1>9, <1>10, <1>11, <1>12 DEF Next, Steam

LEMMA AlwaysQueued ==
    ASSUME QueueIsSteams
    PROVE  Spec => []QueueInv
<1>1. Init => QueueInv
  <2> SUFFICES ASSUME Init PROVE QueueInv
    OBVIOUS
  <2>1. queue = <<>> /\ downloading = <<>> /\ important = {}
    BY DEF Init, Fresh
  <2> QED
    BY <2>1, InitTyped DEF QueueInv, Follows, Files, NoDuplicates
<1>2. QueueInv /\ [Next]_vars => QueueInv'
  BY QueueStep
<1> QED
  BY <1>1, <1>2, PTL DEF Spec

\* m_DownloadQueue never holds an item whose download has ended, nor
\* m_ImportantDownloads one that is not queued: no addon is refused for ever as
\* "already queued", and no reload waits for a download that is over.
THEOREM QueueIsWhatSteamHas ==
    ASSUME QueueIsSteams
    PROVE  Spec => []QueueFollowsSteam
<1>1. QueueInv => QueueFollowsSteam
  BY DEF QueueInv, Follows, Files, QueueFollowsSteam
<1> QED
  BY <1>1, AlwaysQueued, PTL

-----------------------------------------------------------------------------
(* The queue implements module DownloadService *)

LEMMA ServiceInit == Init => Service!Init
<1> SUFFICES ASSUME Init PROVE Service!Init
  OBVIOUS
<1>1. queue = <<>> /\ downloading = <<>> /\ important = {} /\ commands = <<>>
  BY DEF Init, Fresh
<1>2. loaded \in BOOLEAN
  BY Zenon DEF Init
<1>3. Range(<<>>) = {}
  BY DEF Range
<1>4. Range(queue) = {} /\ Range(downloading) = {} /\ (commands # <<>>) = FALSE
  BY <1>1, <1>3
<1> QED
  BY <1>1, <1>2, <1>4, Zenon DEF Service!Init

\* What the interface, a server start and Steam's coming up do to the queue is
\* what asking does to the service.
LEMMA RequestIsAsk ==
    ASSUME QueueInv, QueueInv', Request, loaded, loaded' = loaded
    PROVE  Service!Next
<1> DEFINE new == Range(queue') \ Range(queue)
           hurry == important' \ important
<1>1. Range(queue') \subseteq Addons /\ queue = downloading /\ queue' = downloading'
  BY RangeOfSeq DEF QueueInv, TypeInv, TypeOK, Follows, Files
<1>2. new \in SUBSET (Addons \ Range(queue)) /\ hurry \in SUBSET new
  BY <1>1 DEF Request
<1>3. /\ Range(queue') = Range(queue) \cup new
      /\ important' = important \cup hurry
      /\ Range(downloading') = Range(downloading) \cup new
  BY <1>1 DEF Request
<1>4. (commands' # <<>>) # (commands # <<>>) => commands' # <<>> /\ hurry = {}
  BY DEF Request
<1> HIDE DEF new, hurry
<1>5. Service!Ask
  BY <1>2, <1>3, <1>4, Zenon DEF Service!Ask
<1> QED
  BY <1>5 DEF Service!Next

LEMMA ServiceNext ==
    ASSUME QueueIsSteams, QueueInv, [Next]_vars
    PROVE  [Service!Next]_(Service!vars)
<1> USE DEF loadVars, pluginVars
<1>0. QueueInv'
  BY QueueStep
<1>1. ASSUME UNCHANGED <<loaded, queue, important, downloading, commands>>
      PROVE  [Service!Next]_(Service!vars)
  BY <1>1 DEF Service!vars
<1>2. CASE Interface
  BY <1>0, <1>2, InterfaceRequests, RequestIsAsk
<1>3. CASE Hook_GameServerSteamAPIActivated \/ Hook_StartupServer
  <2>1. loaded' = loaded
    BY <1>3 DEF Hook_GameServerSteamAPIActivated, Hook_StartupServer
  <2>2. CASE loaded
    BY <1>0, <1>3, <2>1, <2>2, StartupRequests, RequestIsAsk
  <2>3. CASE ~loaded
    <3>1. UNCHANGED <<queue, important, downloading, commands>>
      BY <1>3, <2>3 DEF Hook_GameServerSteamAPIActivated, Hook_StartupServer
    <3> QED
      BY <1>1, <2>1, <3>1
  <2> QED
    BY <2>2, <2>3
<1>4. ASSUME NEW a \in Addons, EngineDownloads(a)
      PROVE  [Service!Next]_(Service!vars)
  BY <1>4 DEF EngineDownloads, QueueIsSteams
<1>5. ASSUME NEW a \in Addons, NEW ok \in Results, OnAddonDownloaded(a, ok)
      PROVE  [Service!Next]_(Service!vars)
  <2>1. /\ a \in Range(queue) /\ loaded' = loaded /\ queue' = downloading'
        /\ Range(queue') = Range(queue) \ {a}
        /\ important' = important \ {a}
        /\ commands' = IF important = {a} THEN Append(commands, ReloadMap) ELSE commands
    BY <1>5, DownloadEnded
  <2>2. queue = downloading /\ commands \in Seq(Commands) /\ ReloadMap \in Commands
    BY ReloadMapType DEF QueueInv, Follows, Files, TypeInv, TypeOK
  <2>3. Append(commands, ReloadMap) # <<>>
    BY <2>2, AppendProperties, Zenon
  <2>4. (commands' # <<>>) = (commands # <<>> \/ important = {a})
    <3>1. CASE important = {a}
      <4>1. commands' = Append(commands, ReloadMap)
        BY <2>1, <3>1, Zenon
      <4> QED
        BY <2>3, <3>1, <4>1, Zenon
    <3>2. CASE important # {a}
      <4>1. commands' = commands
        BY <2>1, <3>2, Zenon
      <4> QED
        BY <3>2, <4>1, Zenon
    <3> QED
      BY <3>1, <3>2
  <2>5. Range(downloading) = Range(queue) /\ Range(downloading') = Range(queue')
    BY <2>1, <2>2
  <2>6. Service!End(a)
    BY <2>1, <2>4, <2>5, Zenon DEF Service!End
  <2> QED
    BY <2>6 DEF Service!Next
<1>6. CASE RunCommand
  <2>1. commands # <<>> /\ UNCHANGED <<loaded, queue, important, downloading>>
    BY <1>6 DEF RunCommand, Ask
  <2>2. CASE commands' # <<>>
    BY <2>1, <2>2 DEF Service!vars
  <2>3. CASE commands' = <<>>
    <3>1. Service!Reload
      BY <2>1, <2>3 DEF Service!Reload
    <3> QED
      BY <3>1 DEF Service!Next
  <2> QED
    BY <2>2, <2>3
<1>7. ASSUME NEW kind, NEW m \in Maps, ChooseMap(kind, m)
      PROVE  [Service!Next]_(Service!vars)
  BY <1>1, <1>7 DEF ChooseMap, Ask
<1>8. CASE Load
  <2>1. Service!Return
    <3>1. ~loaded /\ loaded' = TRUE /\ UNCHANGED <<queue, important, downloading, commands>>
      BY <1>8 DEF Load
    <3> QED
      BY <3>1 DEF Service!Return
  <2> QED
    BY <2>1 DEF Service!Next
<1>9. CASE Unload
  <2>1. loaded /\ loaded' = FALSE /\ UNCHANGED <<downloading, commands>>
    BY <1>9 DEF Unload, Called
  <2>2. queue' = <<>> /\ important' = {}
    BY <1>9 DEF Unload, Fresh
  <2>3. Range(queue') = {}
    BY <2>2 DEF Range
  <2>4. Service!Leave
    BY <2>1, <2>2, <2>3 DEF Service!Leave
  <2> QED
    BY <2>4 DEF Service!Next
<1>10. CASE UNCHANGED vars
  BY <1>1, <1>10 DEF vars
<1> QED
  BY <1>2, <1>3, <1>4, <1>5, <1>6, <1>7, <1>8, <1>9, <1>10 DEF Next, Steam

\* The queue implements DownloadService: whoever waits for an addon waits for the
\* end of that addon's own download, a reload comes with the end of the last
\* important one, and nothing else ends a wait.
THEOREM QueueIsAService ==
    ASSUME QueueIsSteams
    PROVE  Spec => ServesDownloads
<1>1. QueueInv /\ [Next]_vars => [Service!Next]_(Service!vars)
  BY ServiceNext
<1> QED
  BY <1>1, AlwaysQueued, ServiceInit, PTL DEF Spec, ServesDownloads, Service!Spec

-----------------------------------------------------------------------------
(* The level and the workshop map recorded for it *)

\* While nothing comes between a reload's command and its end, there is at most
\* one, for the level the plugin knows; what is recorded is the map that is
\* pending, or else the one that runs.
LevelInv ==
    /\ TypeInv
    /\ commands # <<>> => ~request.pending /\ Len(commands) = 1
    /\ loaded /\ ~astray =>
          /\ wsMap = IF request.pending THEN request.level ELSE level
          /\ commands # <<>> => Head(commands).level = wsMap

LEMMA RefreshCommands ==
    ASSUME NEW list, NEW b, Refresh(list, b)
    PROVE  \/ commands' = commands
           \/ b /\ commands' = Append(commands, ReloadMap)
BY Zenon DEF Refresh

\* Somebody calls the plugin, or Steam does, while no reload is under way.
LEMMA CallKeepsLevel ==
    ASSUME Calm, LevelInv, Free, TypeInv',
           UNCHANGED <<loaded, astray, wsMap, level, request>>,
           commands' = commands \/ commands' = Append(commands, ReloadMap)
    PROVE  LevelInv'
<1>1. commands = <<>> /\ ~request.pending
  BY DEF Free
<1>2. CASE commands' = commands
  BY <1>1, <1>2 DEF LevelInv
<1>3. CASE commands' = Append(commands, ReloadMap)
  <2>1. commands' = <<ReloadMap>>
    BY <1>1, <1>3
  <2>2. Len(commands') = 1 /\ Head(commands') = ReloadMap
    BY <2>1
  <2>3. loaded /\ ~astray => wsMap = level
    BY <1>1 DEF LevelInv
  <2>4. ReloadMap.level = level \/ ReloadMap.level = wsMap
    BY DEF ReloadMap
  <2> QED
    BY <1>1, <2>2, <2>3, <2>4 DEF LevelInv
<1> QED
  BY <1>2, <1>3

LEMMA InterfaceKeepsLevel ==
    ASSUME Calm, LevelInv, TypeInv', Interface
    PROVE  LevelInv'
<1> USE DEF pluginVars, hostVars
<1>1. Free /\ UNCHANGED <<loaded, astray, wsMap, level, request>>
  BY DEF Interface, SetExtraAddons, AddAddon, RemoveAddon, ClearAddons, RefreshAddons,
      DownloadAddon, Called
<1>2. commands' = commands \/ commands' = Append(commands, ReloadMap)
  <2>1. ASSUME NEW list \in Lists, SetExtraAddons(list)
        PROVE  commands' = commands
    BY <2>1, RefreshCommands DEF SetExtraAddons
  <2>2. ASSUME NEW a \in Addons, NEW b \in BOOLEAN, AddAddon(a, b) \/ RemoveAddon(a, b)
        PROVE  commands' = commands
    <3>1. PICK list : list = extra'
      OBVIOUS
    <3>2. Refresh(list, FALSE) \/ commands' = commands
      BY <2>2, <3>1 DEF AddAddon, RemoveAddon
    <3> QED
      BY <3>2, RefreshCommands
  <2>3. ASSUME NEW b \in BOOLEAN, RefreshAddons(b)
        PROVE  commands' = commands \/ commands' = Append(commands, ReloadMap)
    BY <2>3, RefreshCommands DEF RefreshAddons
  <2> QED
    BY <2>1, <2>2, <2>3 DEF Interface, ClearAddons, DownloadAddon
<1> QED
  BY <1>1, <1>2, CallKeepsLevel

\* A request is taken when none is pending and no command waits.
LEMMA AskKeepsLevel ==
    ASSUME Calm, LevelInv, TypeInv', NEW kind, NEW m \in Maps, Ask(kind, m),
           ~request.pending, commands' = <<>>,
           loaded /\ ~astray' /\ KeepsMap(kind, m) => wsMap = m
    PROVE  LevelInv'
<1>1. request'.pending /\ request'.level = m /\ loaded' = loaded /\ level' = level
  BY DEF Ask, Hook_SetPendingHostStateRequest
<1>2. loaded' /\ ~astray' => wsMap' = m
  <2> SUFFICES ASSUME loaded, ~astray'
               PROVE  wsMap' = m
    BY <1>1
  <2>1. wsMap' = WorkshopMap(kind, m) /\ ~Strays(kind, m)
    BY DEF Ask, Hook_SetPendingHostStateRequest
  <2>2. CASE KeepsMap(kind, m)
    BY <2>1, <2>2 DEF WorkshopMap
  <2>3. CASE ~KeepsMap(kind, m)
    <3>1. EngineAddons(kind, m) = <<>> => m = None
      BY <2>1, <2>3 DEF EngineAddons, KeepsMap, Strays, Own
    <3> QED
      BY <2>1, <2>3, <3>1 DEF WorkshopMap
  <2> QED
    BY <2>2, <2>3
<1> QED
  BY <1>1, <1>2 DEF LevelInv

LEMMA LevelStep ==
    ASSUME Calm, LevelInv, [Next]_vars
    PROVE  LevelInv'
<1> USE DEF pluginVars, hostVars
<1>0. TypeInv /\ TypeInv' /\ commands \in Seq(Commands)
  BY NextTyped DEF LevelInv, TypeInv, TypeOK
<1>1. CASE Interface
  BY <1>0, <1>1, InterfaceKeepsLevel
<1>2. CASE Hook_GameServerSteamAPIActivated
  <2>1. Free /\ UNCHANGED <<loaded, astray, wsMap, level, request>>
    BY <1>2 DEF Hook_GameServerSteamAPIActivated
  <2>2. Refresh(extra, TRUE) \/ commands' = commands
    BY <1>2 DEF Hook_GameServerSteamAPIActivated
  <2> QED
    BY <1>0, <2>1, <2>2, RefreshCommands, CallKeepsLevel
<1>3. ASSUME NEW a \in Addons, EngineDownloads(a)
      PROVE  LevelInv'
  BY <1>0, <1>3 DEF EngineDownloads, LevelInv
<1>4. ASSUME NEW a \in Addons, NEW ok \in Results, OnAddonDownloaded(a, ok)
      PROVE  LevelInv'
  <2>1. Free /\ UNCHANGED <<loaded, astray, wsMap, level, request>>
    BY <1>4 DEF OnAddonDownloaded
  <2>2. commands' = commands \/ commands' = Append(commands, ReloadMap)
    <3>1. \/ commands' = commands
          \/ commands' = IF LastImportantDone(a) THEN Append(commands, ReloadMap)
                         ELSE commands
      BY <1>4, Zenon DEF OnAddonDownloaded
    <3> QED
      BY <3>1, Zenon
  <2> QED
    BY <1>0, <2>1, <2>2, CallKeepsLevel
<1>5. CASE RunCommand
  <2>1. commands # <<>> /\ ~request.pending /\ Len(commands) = 1 /\ commands' = <<>>
    BY <1>0, <1>5 DEF RunCommand, LevelInv
  <2>2. PICK c \in Commands : c = Head(commands)
    BY <1>0, <2>1
  <2>3. PICK kind : Ask(kind, c.level)
    BY <1>5, <2>2 DEF RunCommand
  <2>4. loaded /\ ~astray' /\ KeepsMap(kind, c.level) => wsMap = c.level
    BY <2>1, <2>2, <2>3 DEF LevelInv, Ask, Hook_SetPendingHostStateRequest
  <2> QED
    BY <1>0, <2>1, <2>2, <2>3, <2>4, AskKeepsLevel DEF Commands
<1>6. ASSUME NEW kind \in {"map", "vote", "changelevel"}, NEW m \in Maps, ChooseMap(kind, m)
      PROVE  LevelInv'
  <2>1. commands = <<>> /\ commands' = <<>> /\ ~request.pending /\ Ask(kind, m)
    BY <1>6 DEF ChooseMap, Free
  <2>2. KeepsMap(kind, m) /\ ~Strays(kind, m) => m = level
    BY DEF KeepsMap, Strays
  <2>3. loaded /\ ~astray' /\ KeepsMap(kind, m) => wsMap = m
    BY <2>1, <2>2 DEF LevelInv, Ask, Hook_SetPendingHostStateRequest
  <2> QED
    BY <1>0, <2>1, <2>2, <2>3, AskKeepsLevel
<1>7. CASE Hook_StartupServer
  <2>1. /\ request.pending /\ level' = request.level /\ ~request'.pending
        /\ UNCHANGED <<loaded, astray, wsMap>>
    BY <1>7 DEF Hook_StartupServer, NoRequest
  <2>2. Refresh(extra, FALSE) \/ commands' = commands
    BY <1>7 DEF Hook_StartupServer, StartupServerMounts
  <2>3. commands' = <<>>
    BY <2>1, <2>2, RefreshCommands DEF LevelInv
  <2> QED
    BY <1>0, <2>1, <2>3 DEF LevelInv
<1>8. CASE Load
  <2>1. astray' = TRUE /\ UNCHANGED <<request, commands>>
    BY <1>8 DEF Load
  <2> QED
    BY <1>0, <2>1 DEF LevelInv
<1>9. CASE Unload
  <2>1. loaded' = FALSE /\ UNCHANGED <<request, commands>>
    BY <1>9 DEF Unload
  <2> QED
    BY <1>0, <2>1 DEF LevelInv
<1>10. CASE UNCHANGED vars
  BY <1>0, <1>10 DEF vars, LevelInv
<1> QED
  BY <1>1, <1>2, <1>3, <1>4, <1>5, <1>6, <1>7, <1>8, <1>9, <1>10 DEF Next, Steam

LEMMA AlwaysLevel ==
    ASSUME Calm
    PROVE  Spec => []LevelInv
<1>1. Init => LevelInv
  <2> SUFFICES ASSUME Init PROVE LevelInv
    OBVIOUS
  <2>1. commands = <<>> /\ ~request.pending /\ (loaded => wsMap = level)
    BY DEF Init, NoRequest
  <2> QED
    BY <2>1, InitTyped DEF LevelInv
<1>2. LevelInv /\ [Next]_vars => LevelInv'
  BY LevelStep
<1> QED
  BY <1>1, <1>2, PTL DEF Spec

\* A server starts with the workshop map it runs recorded in
\* m_sCurrentWorkshopMap, whether an operator, a vote, the end of the match or the
\* plugin's own reload chose it, while nothing comes between a reload's command and
\* its end: once a request has named its map, and until a changelevel to another
\* level, or a reload of a workshop map with a shipped map's name, leads astray.
THEOREM StartedLevelIsRecorded ==
    ASSUME Calm
    PROVE  Spec => LevelHasItsAddon
<1> DEFINE A == Hook_StartupServer /\ loaded /\ ~astray => wsMap' = level'
<1>1. LevelInv /\ [Next]_vars => [A]_vars
  BY DEF LevelInv, Hook_StartupServer
<1> QED
  BY <1>1, AlwaysLevel, PTL DEF Spec, LevelHasItsAddon

-----------------------------------------------------------------------------
(* What is told to the clients and what is mounted *)

LEMMA KeptConcat ==
    ASSUME NEW T, NEW s \in Seq(T), NEW t \in Seq(T), NEW S
    PROVE  Kept(s \o t, S) = Kept(s, S) \o Kept(t, S)
<1> DEFINE k == Len(t)
           u(n) == SubSeq(t, 1, n)
           U == {n \in 0..k : Kept(s \o u(n), S) = Kept(s, S) \o Kept(u(n), S)}
<1>1. k \in Nat /\ u(0) = <<>> /\ u(k) = t
  BY SubSeqFull
<1>2. Kept(s, S) \in Seq(T)
  BY KeptType
<1>3. 0 \in U
  <2>1. s \o <<>> = s /\ Kept(s, S) \o <<>> = Kept(s, S)
    BY <1>2
  <2>2. Kept(<<>>, S) = <<>>
    BY KeptEmpty
  <2> HIDE DEF u
  <2>3. Kept(s \o u(0), S) = Kept(s, S) \o Kept(u(0), S)
    BY <1>1, <2>1, <2>2, Zenon
  <2>4. 0 \in 0..k
    BY <1>1
  <2> QED
    BY <2>3, <2>4
<1>4. ASSUME NEW n \in 1..k, n - 1 \in U
      PROVE  n \in U
  <2> DEFINE p == u(n - 1)
             x == t[n]
             ks == Kept(s, S)
             kp == Kept(p, S)
  <2>1. n \in 0..k /\ n - 1 \in 0..k /\ x \in T
    BY <1>1
  <2>2. p \in Seq(T)
    BY <2>1, FirstElements
  <2>3. u(n) = Append(p, x)
    BY FrontAppend
  <2>4. Kept(s \o p, S) = ks \o kp
    BY <1>4
  <2>5. kp \in Seq(T)
    BY <2>2, KeptType
  <2> HIDE DEF p, x, u, ks, kp
  <2>6. s \o Append(p, x) = Append(s \o p, x) /\ s \o p \in Seq(T)
        /\ ks \o Append(kp, x) = Append(ks \o kp, x)
    BY <1>2, <2>1, <2>2, <2>5, SMTT(30) DEF ks
  <2>7. Kept(Append(s \o p, x), S) = IF x \in S THEN Append(Kept(s \o p, S), x)
                                     ELSE Kept(s \o p, S)
    BY <2>1, <2>6, KeptAppend, ZenonT(30)
  <2>8. Kept(Append(p, x), S) = IF x \in S THEN Append(kp, x) ELSE kp
    BY <2>1, <2>2, KeptAppend, Zenon DEF kp
  <2>9. Kept(s \o u(n), S) = ks \o Kept(u(n), S)
    <3>1. CASE x \in S
      BY <2>3, <2>4, <2>6, <2>7, <2>8, <3>1, Zenon
    <3>2. CASE x \notin S
      BY <2>3, <2>4, <2>6, <2>7, <2>8, <3>2, Zenon
    <3> QED
      BY <3>1, <3>2
  <2> QED
    BY <2>1, <2>9 DEF ks
<1> HIDE DEF U, u
<1>5. k \in U
  <2>1. \A n \in 0..k : n \in U
    BY <1>1, <1>3, <1>4, NumbersUpTo
  <2> QED
    BY <1>1, <2>1
<1> QED
  BY <1>1, <1>5 DEF U

LEMMA KeptOne ==
    ASSUME NEW x, NEW S
    PROVE  Kept(<<x>>, S) = IF x \in S THEN <<x>> ELSE <<>>
<1>1. <<>> \in Seq({x}) /\ x \in {x} /\ Append(<<>>, x) = <<x>>
  OBVIOUS
<1>2. Kept(Append(<<>>, x), S) = IF x \in S THEN Append(Kept(<<>>, S), x) ELSE Kept(<<>>, S)
  BY <1>1, KeptAppend, Zenon
<1>3. Kept(<<>>, S) = <<>>
  BY KeptEmpty
<1> QED
  BY <1>1, <1>2, <1>3

LEMMA RemovedElements ==
    ASSUME NEW T, NEW s \in Seq(T), NEW i \in DOMAIN s
    PROVE  /\ Len(RemoveAt(s, i)) = Len(s) - 1
           /\ \A j \in 1..(Len(s) - 1) :
                 RemoveAt(s, i)[j] = IF j < i THEN s[j] ELSE s[j + 1]
<1> DEFINE p == SubSeq(s, 1, i - 1)
           q == SubSeq(s, i + 1, Len(s))
<1>1. i \in Nat /\ i \in 1..Len(s) /\ Len(s) \in Nat /\ i - 1 \in 0..Len(s)
  OBVIOUS
<1>2. p \in Seq(T) /\ Len(p) = i - 1 /\ \A j \in 1..(i - 1) : p[j] = s[j]
  BY <1>1, FirstElements
<1>3. q \in Seq(T) /\ Len(q) = Len(s) - i /\ \A j \in 1..(Len(s) - i) : q[j] = s[i + j]
  <2>1. /\ q \in Seq(T)
        /\ Len(q) = IF i + 1 <= Len(s) THEN Len(s) - (i + 1) + 1 ELSE 0
        /\ \A j \in 1..(Len(s) - (i + 1) + 1) : q[j] = s[i + 1 + j - 1]
    <3>1. \A j \in (i + 1)..Len(s) : s[j] \in T
      BY <1>1
    <3>2. i + 1 \in Int /\ Len(s) \in Int
      BY <1>1
    <3> QED
      BY <3>1, <3>2, SubSeqProperties
  <2> HIDE DEF q
  <2>2. Len(q) = Len(s) - i
    BY <1>1, <2>1
  <2>3. ASSUME NEW j \in 1..(Len(s) - i)
        PROVE  q[j] = s[i + j]
    <3>1. j \in 1..(Len(s) - (i + 1) + 1) /\ i + 1 + j - 1 = i + j
      BY <1>1
    <3> QED
      BY <2>1, <3>1
  <2> QED
    BY <2>1, <2>2, <2>3
<1> HIDE DEF p, q
<1>4. Len(p \o q) = Len(s) - 1 /\
      \A j \in 1..(Len(s) - 1) : (p \o q)[j] = IF j < i THEN s[j] ELSE s[j + 1]
  <2>1. Len(p \o q) = Len(s) - 1
    BY <1>1, <1>2, <1>3
  <2>2. ASSUME NEW j \in 1..(Len(s) - 1)
        PROVE  (p \o q)[j] = IF j < i THEN s[j] ELSE s[j + 1]
    <3>1. (p \o q)[j] = IF j <= Len(p) THEN p[j] ELSE q[j - Len(p)]
      <4>1. j \in 1..(Len(p) + Len(q))
        BY <1>1, <1>2, <1>3
      <4> QED
        BY <1>2, <1>3, <4>1, ConcatProperties
    <3>2. CASE j < i
      BY <1>1, <1>2, <3>1, <3>2
    <3>3. CASE ~(j < i)
      <4>1. j - (i - 1) \in 1..(Len(s) - i) /\ i + (j - (i - 1)) = j + 1
        BY <1>1, <3>3
      <4>2. ~(j <= Len(p)) /\ j - Len(p) = j - (i - 1)
        BY <1>1, <1>2, <3>3
      <4> QED
        BY <1>3, <3>1, <3>3, <4>1, <4>2
    <3> QED
      BY <3>2, <3>3
  <2> QED
    BY <2>1, <2>2
<1> QED
  BY <1>4 DEF RemoveAt, p, q

LEMMA RemovedWithoutDuplicates ==
    ASSUME NEW T, NEW s \in Seq(T), NEW i \in DOMAIN s, NoDuplicates(s)
    PROVE  NoDuplicates(RemoveAt(s, i))
<1> DEFINE r == RemoveAt(s, i)
           at(j) == IF j < i THEN j ELSE j + 1
<1>1. r \in Seq(T)
  BY RemoveAtType
<1>2. Len(r) = Len(s) - 1
      /\ \A j \in 1..(Len(s) - 1) : r[j] = IF j < i THEN s[j] ELSE s[j + 1]
  BY RemovedElements
<1>3. i \in Nat /\ Len(s) \in Nat /\ DOMAIN s = 1..Len(s)
  OBVIOUS
<1> HIDE DEF r
<1>4. ASSUME NEW j \in DOMAIN r
      PROVE  j \in Nat /\ at(j) \in DOMAIN s /\ r[j] = s[at(j)]
  <2>1. j \in 1..(Len(s) - 1)
    BY <1>1, <1>2
  <2> QED
    BY <1>2, <1>3, <2>1
<1>5. ASSUME NEW j \in DOMAIN r, NEW k \in DOMAIN r, r[j] = r[k]
      PROVE  j = k
  <2>1. at(j) = at(k)
    BY <1>4, <1>5 DEF NoDuplicates
  <2> QED
    BY <1>3, <1>4, <2>1
<1> QED
  BY <1>5 DEF NoDuplicates, r

\* An element outside the set may as well be removed.
LEMMA KeptRemoved ==
    ASSUME NEW T, NEW s \in Seq(T), NEW i \in DOMAIN s, NEW S, s[i] \notin S
    PROVE  Kept(RemoveAt(s, i), S) = Kept(s, S)
<1> DEFINE p == SubSeq(s, 1, i - 1)
           q == SubSeq(s, i + 1, Len(s))
           x == s[i]
<1>1. i \in Nat /\ i \in 1..Len(s) /\ Len(s) \in Nat /\ i - 1 \in 0..Len(s) /\ x \in T
  OBVIOUS
<1>2. p \in Seq(T) /\ q \in Seq(T) /\ Append(p, x) = SubSeq(s, 1, i)
  BY <1>1, FirstElements, FrontAppend
<1>3. s = SubSeq(s, 1, i) \o q
  <2>1. 1 \in 1..(Len(s) + 1) /\ i \in (1 - 1)..Len(s) /\ Len(s) \in i..Len(s)
    BY <1>1
  <2>2. SubSeq(s, 1, i) \o SubSeq(s, i + 1, Len(s)) = SubSeq(s, 1, Len(s))
    BY <2>1, ConcatAdjacentSubSeq
  <2> QED
    BY <2>2, SubSeqFull
<1>4. RemoveAt(s, i) = p \o q
  BY DEF RemoveAt
<1> HIDE DEF p, q, x
<1>5. Append(p, x) \in Seq(T)
  BY <1>1, <1>2
<1>6. Kept(Append(p, x), S) = Kept(p, S)
  <2>1. Kept(Append(p, x), S) = IF x \in S THEN Append(Kept(p, S), x) ELSE Kept(p, S)
    BY <1>1, <1>2, KeptAppend, Zenon
  <2> QED
    BY <2>1 DEF x
<1> DEFINE px == Append(p, x)
<1> HIDE DEF px
<1>7. \A s1, s2 \in Seq(T) : Kept(s1 \o s2, S) = Kept(s1, S) \o Kept(s2, S)
  BY KeptConcat
<1>8. /\ Kept(px \o q, S) = Kept(px, S) \o Kept(q, S)
      /\ Kept(p \o q, S) = Kept(p, S) \o Kept(q, S)
  <2>1. px \in Seq(T)
    BY <1>5 DEF px
  <2> QED
    BY <1>2, <1>7, <2>1, Zenon
<1> QED
  BY <1>2, <1>3, <1>4, <1>6, <1>8, Zenon DEF px

\* What the clients are told, without what the server need not mount.
LEMMA KeptOfHostAddons ==
    ASSUME extra \in Seq(Addons), extra # <<>>, NEW given,
           NEW m \in Maps \cup {None}, NEW S, m \notin S
    PROVE  Kept(HostAddons(given, m), S) = Kept(extra, S)
<1> DEFINE rest == IF m \in Range(extra) THEN RemoveAt(extra, First(m)) ELSE extra
<1>1. m \in Range(extra) => /\ First(m) \in DOMAIN extra /\ extra[First(m)] = m
                            /\ RemoveAt(extra, First(m)) \in Seq(Addons)
  BY FirstIsPlace, RemoveAtType
<1>2. HostAddons(given, m) = IF m = None THEN extra ELSE <<m>> \o rest
  BY DEF HostAddons, First
<1>3. rest \in Seq(Addons) /\ Kept(rest, S) = Kept(extra, S)
  <2>1. CASE m \in Range(extra)
    <3>1. Kept(RemoveAt(extra, First(m)), S) = Kept(extra, S)
      BY <1>1, <2>1, KeptRemoved
    <3> QED
      BY <1>1, <2>1, <3>1
  <2>2. CASE m \notin Range(extra)
    BY <2>2
  <2> QED
    BY <2>1, <2>2
<1>4. Kept(<<>>, S) = <<>> /\ Kept(<<m>>, S) = <<>>
  BY KeptEmpty, KeptOne
<1> HIDE DEF rest
<1>5. CASE m = None
  BY <1>2, <1>5
<1>6. CASE m # None
  <2>1. <<m>> \in Seq(Addons)
    <3>1. m \in Addons
      BY <1>6, AddonsAssumption
    <3> QED
      BY <3>1
  <2>2. Kept(<<m>> \o rest, S) = Kept(<<m>>, S) \o Kept(rest, S)
    <3> DEFINE one == <<m>>
    <3>1. one \in Seq(Addons)
      BY <2>1
    <3> HIDE DEF one
    <3>2. Kept(one \o rest, S) = Kept(one, S) \o Kept(rest, S)
      <4>1. rest \in Seq(Addons)
        BY <1>3
      <4> QED
        BY <3>1, <4>1, KeptConcat, SMT
    <3> QED
      BY <3>2 DEF one
  <2>3. Kept(extra, S) \in Seq(Addons)
    BY KeptType
  <2>4. <<>> \o Kept(extra, S) = Kept(extra, S)
    BY <2>3
  <2> QED
    BY <1>2, <1>3, <1>4, <1>6, <2>2, <2>4
<1> QED
  BY <1>5, <1>6

LEMMA MountOne ==
    ASSUME NEW f \in FileStates, NEW a \in Addons, NEW starts, a \notin Range(f.mounted)
    PROVE  MountAddon(f, a, starts).mounted
           = IF a \in Mountable THEN Append(f.mounted, a) ELSE f.mounted
<1> DEFINE failed == [f EXCEPT !.all = FALSE]
           h == StartDownload(failed, a, TRUE, TRUE, starts)
           d == StartDownload(f, a, FALSE, TRUE, starts)
           g == UpdateDownload(f, a, starts)
<1>1. failed \in FileStates /\ failed.mounted = f.mounted
  BY DEF FileStates
<1>2. h.mounted = f.mounted
  <2> HIDE DEF failed
  <2>1. h.mounted = failed.mounted
    BY <1>1 DEF StartDownload, FileStates
  <2> QED
    BY <1>1, <2>1
<1>3. g \in FileStates /\ g.mounted = f.mounted
  <2>1. d \in FileStates
    BY StartDownloadType
  <2>2. d.mounted = f.mounted
    BY DEF StartDownload, FileStates
  <2>3. g = d \/ g = f
    BY Zenon DEF UpdateDownload
  <2> HIDE DEF d, g
  <2> QED
    BY <2>1, <2>2, <2>3, Zenon
<1> HIDE DEF failed, h, g
<1>4. /\ [g EXCEPT !.all = FALSE].mounted = f.mounted
      /\ OnPath(g, a).mounted = Append(f.mounted, a)
  BY <1>3 DEF FileStates, OnPath
<1>5. CASE a = wsMap \/ a \in LegacyItems
  <2>1. MountAddon(f, a, starts) = failed
    BY <1>5 DEF MountAddon, failed
  <2> QED
    BY <1>1, <1>5, <2>1 DEF Mountable, Usable
<1>6. CASE ~(a = wsMap \/ a \in LegacyItems) /\ a \notin installed
  <2>1. MountAddon(f, a, starts) = h
    BY <1>6 DEF MountAddon, h, failed
  <2> QED
    BY <1>2, <1>6, <2>1 DEF Mountable
<1>7. CASE ~(a = wsMap \/ a \in LegacyItems) /\ a \in installed
  <2>1. MountAddon(f, a, starts) = IF a \in NotFound THEN [g EXCEPT !.all = FALSE]
                                   ELSE OnPath(g, a)
    BY <1>7 DEF MountAddon, g
  <2> QED
    BY <1>4, <1>7, <2>1 DEF Mountable, Usable
<1> QED
  BY <1>5, <1>6, <1>7

\* A list without duplicates is mounted in its order.
LEMMA RemountedMounts ==
    ASSUME NoSingleFile, NEW list \in Seq(Addons), NEW starts, Files \in FileStates,
           InStep(Files), NoDuplicates(list)
    PROVE  Remounted(list, starts).mounted = Kept(list, Mountable)
<1>1. PICK after : Remounting(after, list, starts)
  BY RemountSteps
<1>2. PICK g : g \in [0..Len(list) -> Seq(Addons)] /\ Keeping(g, list, Mountable)
  BY KeptSteps, Zenon
<1> DEFINE n == Len(list)
           seen(k) == {list[j] : j \in 1..k}
           U == {k \in 0..n : after[k].mounted = g[k] /\ Range(after[k].mounted) \subseteq seen(k)}
<1>3. n \in Nat /\ DOMAIN list = 1..n
  OBVIOUS
<1>4. 0 \in U
  <2>1. after[0] = [Files EXCEPT !.mounted = <<>>, !.paths = <<>>]
    BY <1>1, AllUnmounted DEF Remounting
  <2>2. after[0].mounted = <<>>
    BY <2>1 DEF FileStates
  <2>3. g[0] = <<>> /\ Range(<<>>) = {}
    BY <1>2 DEF Keeping, Range
  <2> QED
    BY <1>3, <2>2, <2>3
<1>5. ASSUME NEW k \in 1..n, k - 1 \in U
      PROVE  k \in U
  <2> DEFINE p == after[k - 1]
             a == list[k]
  <2>1. /\ after[k] = MountAddon(p, a, starts) /\ a \in Addons
        /\ p \in FileStates /\ k \in 0..n
    BY <1>1, <1>3 DEF Remounting
  <2>2. g[k] = IF a \in Mountable THEN Append(g[k - 1], a) ELSE g[k - 1]
    BY <1>2 DEF Keeping
  <2>3. p.mounted = g[k - 1] /\ Range(p.mounted) \subseteq seen(k - 1)
    BY <1>5
  <2>4. a \notin seen(k - 1)
    <3> SUFFICES ASSUME NEW j \in 1..(k - 1)
                 PROVE  list[j] # list[k]
      OBVIOUS
    <3>1. j \in DOMAIN list /\ k \in DOMAIN list /\ j # k
      BY <1>3
    <3> QED
      BY <3>1 DEF NoDuplicates
  <2>5. seen(k) = seen(k - 1) \cup {a}
    <3>1. 1..k = (1..(k - 1)) \cup {k}
      BY <1>3
    <3> QED
      BY <3>1
  <2> HIDE DEF p, a, seen
  <2>6. a \notin Range(p.mounted)
    BY <2>3, <2>4
  <2>7. after[k].mounted = IF a \in Mountable THEN Append(p.mounted, a) ELSE p.mounted
    <3>1. p \in FileStates /\ a \in Addons
      BY <2>1
    <3>2. MountAddon(p, a, starts).mounted
          = IF a \in Mountable THEN Append(p.mounted, a) ELSE p.mounted
      BY <2>6, <3>1, MountOne
    <3> QED
      BY <2>1, <3>2
  <2>8. after[k].mounted = g[k]
    BY <2>2, <2>3, <2>7
  <2>9. p.mounted \in Seq(Addons)
    BY <2>1 DEF FileStates
  <2>10. Range(after[k].mounted) \subseteq seen(k)
    <3>1. Range(Append(p.mounted, a)) = Range(p.mounted) \cup {a}
      BY <2>1, <2>9, AppendRange
    <3> QED
      BY <2>3, <2>5, <2>7, <3>1
  <2> QED
    BY <2>1, <2>8, <2>10
<1> HIDE DEF U
<1>6. \A k \in 0..n : k \in U
  BY <1>3, <1>4, <1>5, NumbersUpTo
<1>7. n \in U
  BY <1>3, <1>6
<1> QED
  BY <1>1, <1>2, <1>7 DEF U, Remounting, Keeping

\* No value of mm_extra_addons names an addon twice.
NamedOnce == \A list \in Lists : NoDuplicates(list)

\* While nothing comes between, what was told when the map was chosen is still
\* what would be told; with extra addons, that does not depend on the engine's.
TellInv ==
    /\ MountInv
    /\ LevelInv
    /\ NoDuplicates(extra)
    /\ request.pending /\ loaded /\ extra # <<>> =>
          request.addons = HostAddons(<<>>, wsMap)

LEMMA ExtraNamedOnce ==
    ASSUME NamedOnce, TellInv, [Next]_vars
    PROVE  NoDuplicates(extra')
<1> USE DEF pluginVars, hostVars
<1>0. extra \in Seq(Addons) /\ NoDuplicates(extra)
  BY DEF TellInv, MountInv, TypeInv, TypeOK
<1>1. ASSUME NEW list \in Lists, SetExtraAddons(list)
      PROVE  NoDuplicates(extra')
  BY <1>1 DEF SetExtraAddons, NamedOnce
<1>2. ASSUME NEW a \in Addons, NEW b \in BOOLEAN, AddAddon(a, b)
      PROVE  NoDuplicates(extra')
  <2>1. extra' = Append(extra, a) /\ a \notin Range(extra)
    BY <1>2 DEF AddAddon
  <2> QED
    BY <1>0, <2>1, AppendWithoutDuplicates
<1>3. ASSUME NEW a \in Addons, NEW b \in BOOLEAN, RemoveAddon(a, b)
      PROVE  NoDuplicates(extra')
  <2>1. extra' = RemoveAt(extra, First(a)) /\ a \in Range(extra)
    BY <1>3 DEF RemoveAddon, First
  <2> QED
    BY <1>0, <2>1, FirstIsPlace, RemovedWithoutDuplicates
<1>4. ASSUME extra' = <<>>
      PROVE  NoDuplicates(extra')
  BY <1>4 DEF NoDuplicates
<1>5. CASE Interface
  <2>1. ClearAddons => extra' = <<>>
    BY DEF ClearAddons
  <2>2. ASSUME NEW b \in BOOLEAN, RefreshAddons(b)
        PROVE  extra' = extra
    BY <2>2 DEF RefreshAddons
  <2>3. ASSUME NEW a \in Addons, NEW i \in BOOLEAN, NEW f \in BOOLEAN, DownloadAddon(a, i, f)
        PROVE  extra' = extra
    BY <2>3 DEF DownloadAddon
  <2> QED
    BY <1>0, <1>1, <1>2, <1>3, <1>4, <1>5, <2>1, <2>2, <2>3 DEF Interface
<1>6. CASE Unload
  BY <1>4, <1>6 DEF Unload, Fresh
<1>7. CASE ~Interface /\ ~Unload
  <2>1. extra' = extra
    BY <1>7 DEF Next, Steam, Hook_GameServerSteamAPIActivated, EngineDownloads,
        OnAddonDownloaded, RunCommand, ChooseMap, Ask, Hook_StartupServer, Load, vars
  <2> QED
    BY <1>0, <2>1
<1> QED
  BY <1>5, <1>6, <1>7

LEMMA RequestStillTold ==
    ASSUME Calm, TellInv, [Next]_vars, request'.pending, loaded', extra' # <<>>
    PROVE  request'.addons = HostAddons(<<>>, wsMap)'
<1> USE DEF pluginVars, hostVars
<1>1. ASSUME NEW kind, NEW m, Ask(kind, m)
      PROVE  request'.addons = HostAddons(<<>>, wsMap)'
  <2>1. loaded /\ extra' = extra
    BY <1>1 DEF Ask
  <2>2. request'.addons = HostAddons(EngineAddons(kind, m), wsMap')
    BY <1>1, <2>1 DEF Ask, Hook_SetPendingHostStateRequest
  <2> QED
    BY <2>1, <2>2 DEF HostAddons
<1>2. CASE RunCommand
  BY <1>1, <1>2 DEF RunCommand
<1>3. ASSUME NEW kind, NEW m \in Maps, ChooseMap(kind, m)
      PROVE  request'.addons = HostAddons(<<>>, wsMap)'
  BY <1>1, <1>3 DEF ChooseMap
<1>4. ASSUME Free, request' = request
      PROVE  FALSE
  BY <1>4 DEF Free
<1>5. CASE Interface
  <2>1. Free /\ request' = request
    BY <1>5 DEF Interface, SetExtraAddons, AddAddon, RemoveAddon, ClearAddons,
        RefreshAddons, DownloadAddon, Called
  <2> QED
    BY <1>4, <2>1
<1>6. CASE Load \/ Unload \/ Hook_GameServerSteamAPIActivated
  BY <1>4, <1>6 DEF Load, Unload, Called, Hook_GameServerSteamAPIActivated
<1>7. ASSUME NEW a \in Addons, NEW ok \in Results, OnAddonDownloaded(a, ok)
      PROVE  FALSE
  BY <1>4, <1>7 DEF OnAddonDownloaded
<1>8. CASE Hook_StartupServer
  BY <1>8 DEF Hook_StartupServer, NoRequest
<1>9. ASSUME UNCHANGED <<loaded, request, wsMap, extra>>
      PROVE  request'.addons = HostAddons(<<>>, wsMap)'
  BY <1>9 DEF TellInv, HostAddons
<1>10. ASSUME NEW a \in Addons, EngineDownloads(a)
       PROVE  request'.addons = HostAddons(<<>>, wsMap)'
  BY <1>9, <1>10 DEF EngineDownloads
<1>11. CASE UNCHANGED vars
  BY <1>9, <1>11 DEF vars
<1> QED
  BY <1>2, <1>3, <1>5, <1>6, <1>7, <1>8, <1>10, <1>11 DEF Next, Steam

LEMMA AlwaysTold ==
    ASSUME NoSingleFile, NamedOnce, Calm
    PROVE  Spec => []TellInv
<1>1. Init => TellInv
  <2> SUFFICES ASSUME Init PROVE TellInv
    OBVIOUS
  <2>1. /\ mounted = <<>> /\ paths = <<>> /\ commands = <<>> /\ ~request.pending
        /\ (loaded => wsMap = level)
    BY DEF Init, Fresh, NoRequest
  <2>2. NoDuplicates(extra)
    <3>1. IF loaded THEN extra \in Lists ELSE extra = Fresh.extra
      BY Zenon DEF Init
    <3>2. Fresh.extra = <<>>
      BY DEF Fresh
    <3> QED
      BY <3>1, <3>2 DEF NamedOnce, NoDuplicates
  <2>3. TypeInv
    BY InitTyped
  <2> QED
    BY <2>1, <2>2, <2>3 DEF TellInv, MountInv, LevelInv, InStep, Files, NoDuplicates
<1>2. TellInv /\ [Next]_vars => TellInv'
  <2> SUFFICES ASSUME TellInv, [Next]_vars PROVE TellInv'
    OBVIOUS
  <2>1. MountInv'
    <3>1. TypeInv'
      BY NextTyped DEF TellInv, MountInv
    <3>2. CASE Next
      BY <3>1, <3>2, MountStep DEF TellInv, MountInv
    <3>3. CASE UNCHANGED vars
      BY <3>1, <3>3 DEF TellInv, MountInv, InStep, Files, vars, fileVars
    <3> QED
      BY <3>2, <3>3
  <2>2. LevelInv'
    BY LevelStep DEF TellInv
  <2>3. NoDuplicates(extra')
    BY ExtraNamedOnce
  <2>4. (request.pending /\ loaded /\ extra # <<>> =>
           request.addons = HostAddons(<<>>, wsMap))'
    BY RequestStillTold
  <2> QED
    BY <2>1, <2>2, <2>3, <2>4 DEF TellInv
<1> QED
  BY <1>1, <1>2, PTL DEF Spec

\* What the server mounts when it starts is what the clients were told when its
\* map was chosen, element by element in the same order, without the workshop map
\* and what cannot be mounted: m_MountedAddons, the host state request and
\* mm_extra_addons cannot drift apart while nothing comes between.
THEOREM MountsWhatItTells ==
    ASSUME NoSingleFile, NamedOnce, Calm
    PROVE  Spec => ServerMountsWhatItTells
<1>1. TellInv /\ [Next]_vars => [MountsAsTold]_vars
  <2> SUFFICES ASSUME TellInv, Hook_StartupServer, loaded, steamUp
               PROVE  mounted' = IF extra = <<>> THEN <<>>
                                 ELSE Kept(serverAddons', Mountable)
    BY DEF MountsAsTold
  <2>1. /\ extra # <<>> => serverAddons' = HostAddons(<<>>, wsMap)
        /\ Refresh(extra, FALSE) /\ steamUp'
    BY DEF TellInv, Hook_StartupServer, StartupServerMounts, pluginVars
  <2>2. PICK starts \in Startable : Become(Remounted(extra, starts))
    BY <2>1 DEF Refresh
  <2>3. extra \in Seq(Addons) /\ wsMap \in Maps \cup {None} /\ Files \in FileStates
    BY FilesType DEF TellInv, MountInv, TypeInv, TypeOK
  <2>4. mounted' = Kept(extra, Mountable)
    BY <2>2, <2>3, RemountedMounts DEF TellInv, MountInv, Become
  <2>5. wsMap \notin Mountable
    BY DEF Mountable
  <2>6. extra # <<>> => Kept(HostAddons(<<>>, wsMap), Mountable) = Kept(extra, Mountable)
    BY <2>3, <2>5, KeptOfHostAddons
  <2>7. Kept(<<>>, Mountable) = <<>>
    BY KeptEmpty
  <2> QED
    BY <2>1, <2>4, <2>6, <2>7
<1> QED
  BY <1>1, AlwaysTold, PTL DEF Spec, ServerMountsWhatItTells


-----------------------------------------------------------------------------
(* A plugin that stays loaded always knows one of the maps it was given.     *)

LEMMA MapStaysKnown ==
    ASSUME TypeInv, [Next]_vars, loaded, wsMap \in Maps, "reload" \notin Events
    PROVE  loaded' /\ wsMap' \in Maps
<1>1. CASE Interface
  BY <1>1 DEF Interface, SetExtraAddons, AddAddon, RemoveAddon, ClearAddons, RefreshAddons,
      DownloadAddon, hostVars, pluginVars
<1>2. CASE Steam
  BY <1>2 DEF Steam, Hook_GameServerSteamAPIActivated, EngineDownloads, OnAddonDownloaded,
      hostVars, pluginVars
<1>3. ASSUME NEW kind, NEW m \in Maps, Ask(kind, m)
      PROVE  loaded' /\ wsMap' \in Maps
  <2>1. loaded' /\ wsMap' = WorkshopMap(kind, m)
    BY <1>3 DEF Ask, Hook_SetPendingHostStateRequest
  <2>2. ~KeepsMap(kind, m) /\ EngineAddons(kind, m) = <<>> => None \in Maps
    BY AddonsAssumption DEF KeepsMap, EngineAddons, Own
  <2> QED
    BY <2>1, <2>2 DEF WorkshopMap
<1>4. CASE RunCommand
  <2>1. PICK c \in Commands : c = Head(commands)
    BY <1>4 DEF RunCommand, TypeInv, TypeOK
  <2>2. \E kind : Ask(kind, c.level)
    BY <1>4, <2>1 DEF RunCommand
  <2> QED
    BY <1>3, <2>1, <2>2 DEF Commands
<1>5. ASSUME NEW kind, NEW m \in Maps, ChooseMap(kind, m)
      PROVE  loaded' /\ wsMap' \in Maps
  BY <1>3, <1>5 DEF ChooseMap
<1>6. CASE Hook_StartupServer
  BY <1>6 DEF Hook_StartupServer, pluginVars
<1>7. CASE UNCHANGED vars
  BY <1>7 DEF vars, pluginVars, hostVars
<1>8. ~Load /\ ~Unload
  BY DEF Load, Unload, Called
<1> QED
  BY <1>1, <1>2, <1>4, <1>5, <1>6, <1>7, <1>8 DEF Next

=============================================================================
