----------------------------- MODULE ListLemmas -----------------------------
(***************************************************************************)
(* Induction and recursion over the naturals, for lists of any length.     *)
(* The induction theorems of the library take an operator, which the       *)
(* provers cannot instantiate; here a property is a set of numbers and a   *)
(* step is a function, which they can.                                     *)
(***************************************************************************)
EXTENDS Integers, Sequences, Functions, SequenceTheorems, WellFoundedInduction, TLAPS

\* Every set of numbers that is not empty has a least one.
LEMMA LeastNumber ==
    ASSUME NEW T, T \subseteq Nat, T # {}
    PROVE  \E n \in T : \A m \in T : n <= m
<1>1. PICK n \in T : \A m \in T : <<m, n>> \notin OpToRel(<, Nat)
  BY NatLessThanWellFounded, WFMin, Zenon
<1>2. ASSUME NEW m \in T
      PROVE  n <= m
  <2> SUFFICES ASSUME m < n PROVE FALSE
    OBVIOUS
  <2>1. m \in Nat /\ n \in Nat
    OBVIOUS
  <2> QED
    BY <1>1, <2>1 DEF OpToRel
<1> QED
  BY <1>2

\* A set that holds 0 and with each number the next one holds them all, up to k.
LEMMA NumbersUpTo ==
    ASSUME NEW k \in Nat, NEW T, 0 \in T,
           \A n \in 1..k : n - 1 \in T => n \in T
    PROVE  \A n \in 0..k : n \in T
<1> SUFFICES ASSUME (0..k) \ T # {} PROVE FALSE
  OBVIOUS
<1> DEFINE U == (0..k) \ T
<1>0. U \subseteq Nat /\ U # {}
  OBVIOUS
<1>1. PICK n \in U : \A m \in U : n <= m
  BY <1>0, LeastNumber
<1>2. n \in 1..k /\ n - 1 \in 0..k /\ ~(n <= n - 1)
  <2>1. n \in 0..k /\ n # 0
    OBVIOUS
  <2> QED
    BY <2>1
<1>3. n - 1 \in T
  BY <1>1, <1>2
<1> QED
  BY <1>2, <1>3

\* g holds what k steps make of a base, one after the other.
Stepping(g, S, base, k, step) ==
    /\ g \in [0..k -> S]
    /\ g[0] = base
    /\ \A n \in 1..k : g[n] = step[n][g[n - 1]]

\* Steps from a base can be taken, however many.
LEMMA Steps ==
    ASSUME NEW S, NEW base \in S, NEW k \in Nat, NEW step \in [1..k -> [S -> S]]
    PROVE  \E g : Stepping(g, S, base, k, step)
<1> DEFINE Good(m) == \E g \in [0..m -> S] :
                          g[0] = base /\ \A n \in 1..m : g[n] = step[n][g[n - 1]]
           T == {m \in 0..k : Good(m)}
<1>1. Good(0)
  <2> DEFINE g == [n \in 0..0 |-> base]
  <2>1. g \in [0..0 -> S] /\ g[0] = base /\ \A n \in 1..0 : g[n] = step[n][g[n - 1]]
    OBVIOUS
  <2> QED
    BY <2>1
<1>2. ASSUME NEW m \in 1..k, Good(m - 1)
      PROVE  Good(m)
  <2>1. PICK g \in [0..(m - 1) -> S] :
            g[0] = base /\ \A n \in 1..(m - 1) : g[n] = step[n][g[n - 1]]
    BY <1>2
  <2> DEFINE last == step[m][g[m - 1]]
             h == [n \in 0..m |-> IF n = m THEN last ELSE g[n]]
  <2>2. last \in S
    OBVIOUS
  <2> HIDE DEF last
  <2>3. h \in [0..m -> S]
    BY <2>2
  <2>4. h[0] = base
    BY <2>1
  <2>5. ASSUME NEW n \in 1..m
        PROVE  h[n] = step[n][h[n - 1]]
    <3>1. n \in 0..m /\ n - 1 \in 0..m /\ n - 1 # m
      OBVIOUS
    <3>2. h[n - 1] = g[n - 1]
      BY <3>1
    <3>3. CASE n = m
      BY <3>1, <3>2, <3>3 DEF last
    <3>4. CASE n # m
      BY <2>1, <3>1, <3>2, <3>4
    <3> QED
      BY <3>3, <3>4
  <2> HIDE DEF h
  <2> QED
    BY <2>3, <2>4, <2>5
<1> HIDE DEF Good
<1>3. 0 \in T /\ \A n \in 1..k : n - 1 \in T => n \in T
  BY <1>1, <1>2
<1> HIDE DEF T
<1>4. \A n \in 0..k : n \in T
  BY <1>3, NumbersUpTo
<1>5. k \in T
  BY <1>4
<1> QED
  BY <1>5 DEF T, Good, Stepping

\* What every step keeps in a set is in it throughout.
LEMMA RunType ==
    ASSUME NEW S, NEW k \in Nat, NEW h, h = [n \in 0..k |-> h[n]], h[0] \in S,
           \A n \in 1..k : h[n - 1] \in S => h[n] \in S
    PROVE  h \in [0..k -> S]
<1> DEFINE U == {n \in 0..k : h[n] \in S}
<1>1. 0 \in U
  OBVIOUS
<1>2. ASSUME NEW n \in 1..k, n - 1 \in U
      PROVE  n \in U
  <2>1. n \in 0..k
    OBVIOUS
  <2> QED
    BY <1>2, <2>1
<1> HIDE DEF U
<1>3. \A n \in 0..k : n \in U
  BY <1>1, <1>2, NumbersUpTo
<1>4. \A n \in 0..k : h[n] \in S
  BY <1>3 DEF U
<1> QED
  BY <1>4

\* A function on 1..n is a list.
LEMMA FunctionIsList ==
    ASSUME NEW S, NEW n \in Nat, NEW t \in [1..n -> S]
    PROVE  t \in Seq(S) /\ Len(t) = n
<1>1. t \in Seq(S)
  BY SeqDef
<1> QED
  BY <1>1

\* The first m elements of a list.
LEMMA FirstElements ==
    ASSUME NEW T, NEW s \in Seq(T), NEW m \in 0..Len(s)
    PROVE  /\ SubSeq(s, 1, m) \in Seq(T)
           /\ Len(SubSeq(s, 1, m)) = m
           /\ DOMAIN SubSeq(s, 1, m) = 1..m
           /\ \A j \in 1..m : j \in DOMAIN s /\ SubSeq(s, 1, m)[j] = s[j]
<1>1. m \in Nat /\ Len(s) \in Nat /\ \A i \in 1..m : s[i] \in T /\ i \in DOMAIN s
  OBVIOUS
<1>2. /\ SubSeq(s, 1, m) \in Seq(T)
      /\ Len(SubSeq(s, 1, m)) = IF 1 <= m THEN m - 1 + 1 ELSE 0
      /\ \A i \in 1..(m - 1 + 1) : SubSeq(s, 1, m)[i] = s[1 + i - 1]
  BY <1>1, SubSeqProperties
<1> QED
  BY <1>1, <1>2

\* The first m elements are the first m - 1 and one more.
LEMMA FrontAppend ==
    ASSUME NEW T, NEW s \in Seq(T), NEW m \in 1..Len(s)
    PROVE  SubSeq(s, 1, m) = Append(SubSeq(s, 1, m - 1), s[m])
<1> DEFINE l == SubSeq(s, 1, m)
           r == Append(SubSeq(s, 1, m - 1), s[m])
<1>1. m \in Nat /\ m - 1 \in Nat /\ m \in 0..Len(s) /\ m - 1 \in 0..Len(s) /\ s[m] \in T
      /\ m \in 1..m
  OBVIOUS
<1>2. /\ l \in Seq(T) /\ Len(l) = m
      /\ \A j \in 1..m : l[j] = s[j]
  BY <1>1, FirstElements
<1>3. /\ SubSeq(s, 1, m - 1) \in Seq(T) /\ Len(SubSeq(s, 1, m - 1)) = m - 1
      /\ \A j \in 1..(m - 1) : SubSeq(s, 1, m - 1)[j] = s[j]
  BY <1>1, FirstElements
<1>4. r \in Seq(T) /\ Len(r) = m /\ r[m] = s[m] /\ \A j \in 1..(m - 1) : r[j] = s[j]
  BY <1>1, <1>3
<1>5. ASSUME NEW j \in 1..m
      PROVE  l[j] = r[j]
  <2>1. j = m \/ j \in 1..(m - 1)
    BY <1>1
  <2> QED
    BY <1>2, <1>4, <2>1
<1> HIDE DEF l, r
<1>6. l = r
  BY <1>2, <1>4, <1>5, SeqEqual
<1> QED
  BY <1>6 DEF l, r

\* The first place of a list at which an element of a set stands.
LEMMA FirstPlace ==
    ASSUME NEW T, NEW s \in Seq(T), NEW S, \E i \in DOMAIN s : s[i] \in S
    PROVE  \E i \in DOMAIN s : s[i] \in S /\ \A j \in 1..(i - 1) : s[j] \notin S
<1> DEFINE I == {i \in DOMAIN s : s[i] \in S}
<1>1. I # {} /\ I \subseteq Nat
  OBVIOUS
<1>2. PICK i \in I : \A j \in I : i <= j
  BY <1>1, LeastNumber
<1>3. ASSUME NEW j \in 1..(i - 1)
      PROVE  s[j] \notin S
  <2>1. j \in DOMAIN s /\ i \in Nat /\ ~(i <= j)
    OBVIOUS
  <2> QED
    BY <1>2, <2>1
<1> QED
  BY <1>3
=============================================================================
