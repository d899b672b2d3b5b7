------------------------- MODULE RssDocumentsProofs -------------------------
(***************************************************************************)
(* Machine-checked theorems about the two readers of                       *)
(* rss_asset_preferences.h, for any width of the IDs and any documents.    *)
(***************************************************************************)
EXTENDS RssDocuments, ListLemmas, FiniteSetTheorems

Characters == 0..9 \cup {Other}

-----------------------------------------------------------------------------
(* Decimal numbers: the checked arithmetic of ParseDecimalUll against the    *)
(* unbounded arithmetic of IdOf.                                             *)

LEMMA WidthIsNumber == MaxId \in Nat /\ MaxDigits \in Nat
BY NumbersAssumption

\* A number within the width is not changed by it.
LEMMA WithinWidth ==
    ASSUME NEW x \in 0..MaxId
    PROVE  x % (MaxId + 1) = x
BY WidthIsNumber

\* The check before the multiplication is exact.
LEMMA CheckIsExact ==
    ASSUME NEW v \in Nat, NEW d \in 0..9
    PROVE  v > (MaxId - d) \div 10 <=> v * 10 + d > MaxId
BY WidthIsNumber

\* One round: the number, while it is within the width, and else Overflow.
LEMMA OneRound ==
    ASSUME NEW number \in Nat, NEW v, NEW d \in 0..9,
           v = IF number <= MaxId THEN number ELSE Overflow
    PROVE  Accumulate(v, d) = IF number * 10 + d <= MaxId THEN number * 10 + d ELSE Overflow
<1>0. v \in Nat
  BY WidthIsNumber DEF Overflow
<1>1. CASE number * 10 + d <= MaxId
  <2>0. v = number /\ ~(v * 10 + d > MaxId)
    BY <1>1, WidthIsNumber
  <2>1. v = number /\ ~(v > (MaxId - d) \div 10)
    BY <1>0, <2>0, CheckIsExact, Zenon
  <2>2. v * 10 + d \in 0..MaxId
    BY <1>1, <2>1, WidthIsNumber
  <2> QED
    BY <1>1, <2>1, <2>2, WithinWidth DEF Accumulate
<1>2. CASE ~(number * 10 + d <= MaxId)
  <2>1. v * 10 + d > MaxId
    BY <1>2, WidthIsNumber DEF Overflow
  <2>2. v > (MaxId - d) \div 10
    BY <1>0, <2>1, CheckIsExact
  <2> QED
    BY <1>2, <2>2 DEF Accumulate
<1> QED
  BY <1>1, <1>2

\* number[n] is what the first n digits denote, value[n] what the loop has then.
Counting(number, value, text) ==
    /\ number[0] = 0 /\ value[0] = 0
    /\ \A n \in 1..Len(text) :
          /\ number[n] = number[n - 1] * 10 + text[n]
          /\ value[n] = Accumulate(value[n - 1], text[n])

\* What is read off the last number or value.
Denoted(number, text)  == IF number[Len(text)] <= MaxId THEN number[Len(text)] ELSE 0
Collected(value, text) == IF value[Len(text)] = Overflow THEN 0 ELSE value[Len(text)]

\* The loops behind IdOf and ParseDecimalUll, digit by digit.
LEMMA Loops ==
    ASSUME NEW text \in Seq(0..9), Len(text) \in 1..MaxDigits
    PROVE  \E number, value :
               /\ Counting(number, value, text)
               /\ IdOf(text) = Denoted(number, text)
               /\ ParseDecimalUll(text) = Collected(value, text)
<1> DEFINE k == Len(text)
           IsNumber(g) == g = [n \in 0..Len(text) |->
               IF n = 0 THEN 0 ELSE g[n - 1] * 10 + text[n]]
           IsValue(g) == g = [n \in 0..Len(text) |->
               IF n = 0 THEN 0 ELSE Accumulate(g[n - 1], text[n])]
           number == CHOOSE g : IsNumber(g)
           value == CHOOSE g : IsValue(g)
           digitStep == [n \in 1..k |-> [v \in Nat |-> v * 10 + text[n]]]
           roundStep == [n \in 1..k |-> [v \in Nat |-> Accumulate(v, text[n])]]
<1>0. k \in Nat /\ 0 \in Nat /\ \A n \in 1..k : text[n] \in 0..9
  OBVIOUS
<1>1. digitStep \in [1..k -> [Nat -> Nat]]
  BY <1>0
<1>2. roundStep \in [1..k -> [Nat -> Nat]]
  <2>1. ASSUME NEW v \in Nat, NEW d \in 0..9
        PROVE  Accumulate(v, d) \in Nat
    <3>1. MaxId + 1 \in Nat \ {0} /\ v * 10 + d \in Nat
      BY WidthIsNumber
    <3>2. (v * 10 + d) % (MaxId + 1) \in Nat
      BY <3>1
    <3> QED
      BY <3>1, <3>2 DEF Accumulate, Overflow
  <2> QED
    BY <1>0, <2>1
<1> HIDE DEF digitStep, roundStep, k
<1>3. \E g : Stepping(g, Nat, 0, k, digitStep)
  BY <1>0, <1>1, Steps, Zenon
<1>4. PICK g : Stepping(g, Nat, 0, k, digitStep)
  BY <1>3
<1>5. IsNumber(g)
  <2>1. ASSUME NEW n \in 0..k
        PROVE  g[n] = IF n = 0 THEN 0 ELSE g[n - 1] * 10 + text[n]
    <3>1. CASE n = 0
      BY <1>4, <3>1 DEF Stepping
    <3>2. CASE n # 0
      <4>1. n \in 1..k /\ n - 1 \in 0..k
        BY <1>0, <3>2
      <4> QED
        BY <1>4, <3>2, <4>1 DEF Stepping, digitStep
    <3> QED
      BY <3>1, <3>2
  <2>2. g = [n \in 0..k |-> g[n]]
    BY <1>4 DEF Stepping
  <2> QED
    BY <2>1, <2>2 DEF k
<1>6. PICK h : Stepping(h, Nat, 0, k, roundStep)
  BY <1>0, <1>2, Steps, Zenon
<1>7. IsValue(h)
  <2>1. ASSUME NEW n \in 0..k
        PROVE  h[n] = IF n = 0 THEN 0 ELSE Accumulate(h[n - 1], text[n])
    <3>1. CASE n = 0
      BY <1>6, <3>1 DEF Stepping
    <3>2. CASE n # 0
      <4>1. n \in 1..k /\ n - 1 \in 0..k
        BY <1>0, <3>2
      <4> QED
        BY <1>6, <3>2, <4>1 DEF Stepping, roundStep
    <3> QED
      BY <3>1, <3>2
  <2>2. h = [n \in 0..k |-> h[n]]
    BY <1>6 DEF Stepping
  <2> QED
    BY <2>1, <2>2 DEF k
<1>8. IsNumber(number) /\ IsValue(value)
  BY <1>5, <1>7
<1>9. Other \notin Range(text) /\ text # <<>> /\ ~(Len(text) > MaxDigits)
  <2>1. Other \notin 0..9
    BY NumbersAssumption
  <2>2. \A n \in DOMAIN text : text[n] \in 0..9
    OBVIOUS
  <2>5. Other \notin Range(text)
    BY <2>1, <2>2, Zenon DEF Range
  <2>3. Len(text) \in 1..MaxDigits /\ MaxDigits \in Nat
    BY WidthIsNumber
  <2>4. text # <<>> /\ ~(Len(text) > MaxDigits)
    BY <2>3
  <2> QED
    BY <2>4, <2>5
<1>10. IdOf(text) = Denoted(number, text)
  BY <1>9 DEF IdOf, Denoted
<1>11. ParseDecimalUll(text) = Collected(value, text)
  BY <1>9 DEF ParseDecimalUll, Collected
<1>12. Counting(number, value, text)
  <2> HIDE DEF number, value
  <2>1. ASSUME NEW n \in 1..Len(text)
        PROVE  /\ number[n] = number[n - 1] * 10 + text[n]
               /\ value[n] = Accumulate(value[n - 1], text[n])
    <3>1. n \in 0..Len(text) /\ n # 0
      OBVIOUS
    <3> QED
      BY <1>8, <3>1
  <2>2. number[0] = 0 /\ value[0] = 0
    BY <1>0, <1>8 DEF k
  <2> QED
    BY <2>1, <2>2 DEF Counting
<1> QED
  BY <1>10, <1>11, <1>12

\* ParseDecimalUll reads the number a text denotes, whatever its length and its
\* leading zeros, and refuses exactly what denotes no ID.
LEMMA ParsesTheNumber ==
    ASSUME NEW text \in Seq(Characters)
    PROVE  ParseDecimalUll(text) = IdOf(text) /\ IdOf(text) \in 0..MaxId
<1>1. CASE ~(Len(text) \in 1..MaxDigits) \/ Other \in Range(text)
  <2>1. text = <<>> \/ Len(text) > MaxDigits \/ Other \in Range(text)
    BY <1>1, WidthIsNumber
  <2> QED
    BY <1>1, <2>1, WidthIsNumber DEF ParseDecimalUll, IdOf
<1>2. CASE Len(text) \in 1..MaxDigits /\ Other \notin Range(text)
  <2>1. \A n \in 1..Len(text) : text[n] \in 0..9
    BY <1>2 DEF Range, Characters
  <2>2. text \in Seq(0..9)
    BY <2>1
  <2>3. PICK number, value :
            /\ Counting(number, value, text)
            /\ IdOf(text) = Denoted(number, text)
            /\ ParseDecimalUll(text) = Collected(value, text)
    BY <1>2, <2>2, Loops
  <2> DEFINE k == Len(text)
             U == {n \in 0..k : /\ number[n] \in Nat
                                /\ value[n] = IF number[n] <= MaxId THEN number[n] ELSE Overflow}
  <2>4. k \in Nat /\ 0 \in U
    BY <2>3, WidthIsNumber DEF Counting
  <2>5. ASSUME NEW n \in 1..k, n - 1 \in U
        PROVE  n \in U
    <3>1. text[n] \in 0..9 /\ n \in 0..k
      BY <2>1, <2>4
    <3>2. /\ number[n] = number[n - 1] * 10 + text[n]
          /\ value[n] = Accumulate(value[n - 1], text[n])
      BY <2>3 DEF Counting
    <3>3. number[n - 1] \in Nat
      BY <2>5
    <3>4. value[n] = IF number[n - 1] * 10 + text[n] <= MaxId
                     THEN number[n - 1] * 10 + text[n] ELSE Overflow
      <4> DEFINE m == number[n - 1]
                 v == value[n - 1]
                 d == text[n]
      <4>1. m \in Nat /\ d \in 0..9 /\ v = IF m <= MaxId THEN m ELSE Overflow
        BY <2>5, <3>1
      <4> HIDE DEF m, v, d
      <4>2. Accumulate(v, d) = IF m * 10 + d <= MaxId THEN m * 10 + d ELSE Overflow
        BY <4>1, OneRound
      <4>3. value[n] = Accumulate(v, d)
        BY <3>2, Zenon DEF v, d
      <4>4. value[n] = IF m * 10 + d <= MaxId THEN m * 10 + d ELSE Overflow
        BY <4>2, <4>3, Zenon
      <4> QED
        BY <4>4, Zenon DEF m, d
    <3>5. number[n - 1] * 10 + text[n] \in Nat
      <4>1. \A m \in Nat, d \in 0..9 : m * 10 + d \in Nat
        OBVIOUS
      <4> QED
        BY <3>1, <3>3, <4>1, Zenon
    <3> QED
      BY <3>1, <3>2, <3>4, <3>5
  <2> HIDE DEF U, k
  <2>6. \A n \in 0..k : n \in U
    BY <2>4, <2>5, NumbersUpTo
  <2>7. k \in U
    BY <2>4, <2>6
  <2>8. /\ number[k] \in Nat
        /\ value[k] = IF number[k] <= MaxId THEN number[k] ELSE Overflow
    BY <2>7 DEF U
  <2>9. Denoted(number, text) = Collected(value, text) /\ Denoted(number, text) \in 0..MaxId
    BY <2>8, WidthIsNumber DEF Denoted, Collected, Overflow, k
  <2> QED
    BY <2>3, <2>9
<1> QED
  BY <1>1, <1>2

-----------------------------------------------------------------------------
(* The legacy list *)

Ids(list) == {IdOf(list[i].text) : i \in DOMAIN list}

\* Every line is an ID, and none of them comes twice.
AllIds(list) == 0 \notin Ids(list) /\ Cardinality(Ids(list)) = Len(list)

LegacyUnits == {Quoted(text) : text \in Lines}

\* The set collected so far is that of the lines read, each a new ID, until a line
\* is refused; the caller's set waits for the end.
LegacyInv ==
    reader = "legacy" =>
        /\ at \in Verdicts \cup {"line"}
        /\ doc \in Seq(LegacyUnits)
        /\ at # "rejected" => AllIds(doc) /\ parsed = Ids(doc) /\ IsFiniteSet(Ids(doc))
        /\ at = "rejected" => ~AllIds(doc)
        /\ out = IF at = "accepted" THEN parsed ELSE Before

\* The IDs of a list with one line more.
LEMMA OneLineMore ==
    ASSUME NEW list \in Seq(LegacyUnits), NEW text \in Lines
    PROVE  /\ Append(list, Quoted(text)) \in Seq(LegacyUnits)
           /\ Len(Append(list, Quoted(text))) = Len(list) + 1
           /\ Ids(Append(list, Quoted(text))) = Ids(list) \cup {IdOf(text)}
<1> DEFINE more == Append(list, Quoted(text))
<1>1. Quoted(text) \in LegacyUnits /\ Quoted(text).text = text
  BY DEF LegacyUnits, Quoted
<1>2. /\ more \in Seq(LegacyUnits) /\ Len(more) = Len(list) + 1
      /\ more[Len(list) + 1] = Quoted(text)
      /\ \A i \in DOMAIN list : more[i] = list[i]
  BY <1>1
<1>3. DOMAIN more = DOMAIN list \cup {Len(list) + 1}
  BY <1>2
<1> HIDE DEF more
<1>4. Ids(more) = Ids(list) \cup {IdOf(text)}
  BY <1>1, <1>2, <1>3 DEF Ids
<1> QED
  BY <1>2, <1>4 DEF more

LEMMA LineParses ==
    ASSUME NEW text \in Lines
    PROVE  ParseDecimalUll(text) = IdOf(text)
<1>1. text \in Seq(Characters)
  BY NumbersAssumption DEF Characters
<1> QED
  BY <1>1, ParsesTheNumber

LEMMA NoLines ==
    /\ <<>> \in Seq(LegacyUnits)
    /\ AllIds(<<>>) /\ Ids(<<>>) = {} /\ IsFiniteSet(Ids(<<>>))
<1>1. Ids(<<>>) = {}
  BY DEF Ids
<1> QED
  BY <1>1, FS_EmptySet DEF AllIds

LEMMA LineKeepsLegacy ==
    ASSUME LegacyInv, NEW text \in Lines, ReadLine(text)
    PROVE  LegacyInv'
<1>0. /\ reader = "legacy" /\ at = "line" /\ doc \in Seq(LegacyUnits)
      /\ AllIds(doc) /\ parsed = Ids(doc) /\ IsFiniteSet(Ids(doc)) /\ out = Before
  BY DEF LegacyInv, ReadLine
<1>1. /\ doc' \in Seq(LegacyUnits) /\ Len(doc') = Len(doc) + 1
      /\ Ids(doc') = Ids(doc) \cup {IdOf(text)}
  BY <1>0, OneLineMore DEF ReadLine
<1>2. ParseDecimalUll(text) = IdOf(text)
  BY LineParses
<1>3. CASE LineIsNew(text)
  <2>1. /\ IdOf(text) \notin Ids(doc) /\ IdOf(text) # 0
        /\ at' = "line" /\ parsed' = Ids(doc')
    BY <1>0, <1>1, <1>2, <1>3 DEF LineIsNew, ReadLine
  <2>2. IsFiniteSet(Ids(doc')) /\ Cardinality(Ids(doc')) = Cardinality(Ids(doc)) + 1
    BY <1>0, <1>1, <2>1, FS_AddElement
  <2>3. AllIds(doc')
    BY <1>0, <1>1, <2>1, <2>2 DEF AllIds
  <2> QED
    BY <1>0, <1>1, <2>1, <2>2, <2>3 DEF LegacyInv, ReadLine, AllIds, Ids
<1>4. CASE ~LineIsNew(text)
  <2>1. at' = "rejected" /\ (IdOf(text) \in Ids(doc) \/ IdOf(text) = 0)
    BY <1>0, <1>2, <1>4 DEF LineIsNew, ReadLine
  <2>2. ASSUME IdOf(text) = 0
        PROVE  ~AllIds(doc')
    BY <1>1, <2>2 DEF AllIds
  <2>3. ASSUME IdOf(text) \in Ids(doc)
        PROVE  ~AllIds(doc')
    <3>1. Ids(doc') = Ids(doc) /\ Len(doc) \in Nat
      BY <1>0, <1>1, <2>3
    <3>2. Len(doc') # Len(doc)
      BY <1>1, <3>1
    <3>3. Cardinality(Ids(doc')) = Len(doc)
      BY <1>0, <3>1, Zenon DEF AllIds
    <3> QED
      BY <3>2, <3>3 DEF AllIds
  <2>4. ~AllIds(doc')
    BY <2>1, <2>2, <2>3
  <2>5. ~AllIds(doc)'
    BY <2>4 DEF AllIds, Ids
  <2> QED
    BY <1>0, <1>1, <2>1, <2>5 DEF LegacyInv, ReadLine, Verdicts
<1> QED
  BY <1>3, <1>4

\* A legacy list is migrated when all its lines are distinct IDs, the IDs that its
\* digits denote, and else the caller's set is left alone.
THEOREM LegacyListsAreWhole == DocSpec => []LegacyListIsWhole
<1>1. DocInit => LegacyInv
  BY NoLines DEF DocInit, ScanInit, LegacyInv, Verdicts
<1>2. LegacyInv /\ [DocNext]_docVars => LegacyInv'
  <2> SUFFICES ASSUME LegacyInv, [DocNext]_docVars PROVE LegacyInv'
    OBVIOUS
  <2>1. CASE UNCHANGED docVars
    BY <2>1 DEF docVars, scanVars, LegacyInv, AllIds, Ids
  <2>2. CASE reader # "legacy" /\ DocNext
    BY <2>2 DEF DocNext, Read, EndOfDocument, ReadLine, EndOfLines, LegacyInv
  <2>3. ASSUME NEW text \in Lines, ReadLine(text)
        PROVE  LegacyInv'
    BY <2>3, LineKeepsLegacy
  <2>4. ASSUME NEW readOk \in BOOLEAN, EndOfLines(readOk)
        PROVE  LegacyInv'
    BY <2>4 DEF EndOfLines, LegacyInv, scanVars, Verdicts, AllIds, Ids
  <2> QED
    BY <2>1, <2>2, <2>3, <2>4 DEF DocNext, Read, EndOfDocument, Reading
<1>3. LegacyInv => LegacyListIsWhole
  BY DEF LegacyInv, LegacyListIsWhole, AllIds, Ids, Verdicts
<1> QED
  BY <1>1, <1>2, <1>3, PTL DEF DocSpec

-----------------------------------------------------------------------------
(* The preference document *)

\* The places of a document where an ID stands, and those of them whose value is
\* true: a "true" follows, and no other ID is between.
QuotedAt(list) == {i \in DOMAIN list : list[i].kind = "quoted"}

IsLast(list, i, n) == \A k \in (i + 1)..n : list[k].kind # "quoted"

IsTrue(list, i) == \E j \in DOMAIN list : i < j /\ list[j].kind = "true" /\ IsLast(list, i, j)

Met(list)      == {IdOf(list[i].text) : i \in QuotedAt(list)}
OptedOut(list) == {IdOf(list[i].text) : i \in {k \in QuotedAt(list) : IsTrue(list, k)}}

\* The last ID of a document is v.
LastMet(list, v) == \E i \in QuotedAt(list) : v = IdOf(list[i].text) /\ IsLast(list, i, Len(list))

\* Every quoted entry is an ID, and no two are the same number, however they are
\* written and whatever their values.
DistinctIds(list) ==
    /\ 0 \notin Met(list)
    /\ \A i, j \in QuotedAt(list) : i # j => IdOf(list[i].text) # IdOf(list[j].text)

\* A document that is accepted has distinct IDs and both keys, and the caller gets
\* those that are true; any other leaves the caller's set alone.
AcceptedIsDistinct ==
    reader = "jsonc" /\ written = NotWritten =>
        IF at = "accepted"
        THEN DistinctIds(doc) /\ out = OptedOut(doc) /\ keys = {"version", "opt_out_steam_ids"}
        ELSE out = Before

Places == {"start", "key", "colon", "value", "pairEnd", "entry", "entryColon",
           "entryValue", "entryEnd", "tail"}

\* What is known of the document so far, unless it was refused, and in an entry
\* that the ID read is the last one met.
ReadInv ==
    reader = "jsonc" /\ written = NotWritten =>
        /\ at \in Places \cup Verdicts
        /\ ahead = <<>>
        /\ doc \in Seq(Units)
        /\ at # "rejected" =>
              /\ DistinctIds(doc)
              /\ seenIds = Met(doc)
              /\ parsed = OptedOut(doc)
        /\ at \in {"entryColon", "entryValue"} => LastMet(doc, id)
        /\ at = "accepted" => keys = {"version", "opt_out_steam_ids"}
        /\ out = IF at = "accepted" THEN parsed ELSE Before

LEMMA UnitKinds ==
    ASSUME NEW u \in Units
    PROVE  /\ u.kind \in Marks \cup {"quoted"}
           /\ u.kind = "quoted" => u.text \in IdTexts
<1>1. ASSUME NEW m \in Marks, u = Unit(m)
      PROVE  u.kind = m /\ m # "quoted"
  BY <1>1 DEF Unit, Marks
<1>2. ASSUME NEW t \in IdTexts, u = Quoted(t)
      PROVE  u.kind = "quoted" /\ u.text = t
  BY <1>2 DEF Quoted
<1> QED
  BY <1>1, <1>2 DEF Units

LEMMA TextParses ==
    ASSUME NEW text \in IdTexts
    PROVE  ParseDecimalUll(text) = IdOf(text)
<1>1. text \in Seq(Characters)
  BY NumbersAssumption DEF Characters
<1> QED
  BY <1>1, ParsesTheNumber

\* Where IDs and their values are taken, and where the parser goes from there.
LEMMA EntryPlaces ==
    ASSUME at \in Places, NEW u, Accepts(u)
    PROVE  /\ Goes(u) \in Places
           /\ u.kind = "true" => at = "entryValue"
           /\ Goes(u) = "entryColon" => u.kind = "quoted"
           /\ Goes(u) = "entryValue" => at = "entryColon" /\ u.kind = ":"
<1>1. u.kind \in Takes[at]
  BY DEF Accepts
<1>2. CASE at = "start"
  BY <1>1, <1>2 DEF Takes, Goes, Places
<1>3. CASE at = "key"
  BY <1>1, <1>3 DEF Takes, Goes, Places
<1>4. CASE at = "colon"
  BY <1>1, <1>4 DEF Takes, Goes, Places
<1>5. CASE at = "value"
  BY <1>1, <1>5 DEF Takes, Goes, Places
<1>6. CASE at = "pairEnd"
  BY <1>1, <1>6 DEF Takes, Goes, Places
<1>7. CASE at = "entry"
  BY <1>1, <1>7 DEF Takes, Goes, Places
<1>8. CASE at = "entryColon"
  BY <1>1, <1>8 DEF Takes, Goes, Places
<1>9. CASE at = "entryValue"
  BY <1>1, <1>9 DEF Takes, Goes, Places
<1>10. CASE at = "entryEnd"
  BY <1>1, <1>10 DEF Takes, Goes, Places
<1>11. CASE at = "tail"
  BY <1>1, <1>11 DEF Takes
<1> QED
  BY <1>2, <1>3, <1>4, <1>5, <1>6, <1>7, <1>8, <1>9, <1>10, <1>11 DEF Places

\* One unit more at the end of a document.
LEMMA OneUnitMore ==
    ASSUME NEW list \in Seq(Units), NEW u \in Units, NEW more, more = Append(list, u)
    PROVE  /\ more \in Seq(Units)
           /\ Len(more) = Len(list) + 1
           /\ more[Len(list) + 1] = u
           /\ \A i \in 1..Len(list) : more[i] = list[i]
           /\ DOMAIN more = 1..(Len(list) + 1)
OBVIOUS

LEMMA OneUnitIsTrue ==
    ASSUME NEW list \in Seq(Units), NEW u \in Units, NEW more, more = Append(list, u),
           NEW i \in 1..(Len(list) + 1)
    PROVE  IsTrue(more, i) <=> /\ i \in 1..Len(list)
                               /\ \/ IsTrue(list, i)
                                  \/ u.kind = "true" /\ IsLast(list, i, Len(list))
<1> DEFINE n == Len(list)
<1>0. /\ n \in Nat /\ DOMAIN list = 1..n /\ DOMAIN more = 1..(n + 1)
      /\ more[n + 1] = u /\ \A k \in 1..n : more[k] = list[k]
  BY OneUnitMore
<1> HIDE DEF n
<1>1. ASSUME NEW j \in 1..n
      PROVE  IsLast(more, i, j) <=> IsLast(list, i, j)
  <2>1. \A k \in (i + 1)..j : k \in 1..n
    BY <1>0, <1>1 DEF n
  <2> QED
    BY <1>0, <2>1 DEF IsLast
<1>2. u.kind = "true" => (IsLast(more, i, n + 1) <=> IsLast(list, i, n))
  <2> SUFFICES ASSUME u.kind = "true"
               PROVE  IsLast(more, i, n + 1) <=> IsLast(list, i, n)
    OBVIOUS
  <2>1. \A k \in (i + 1)..n : k \in 1..n /\ k \in (i + 1)..(n + 1)
    BY <1>0 DEF n
  <2>2. \A k \in (i + 1)..(n + 1) : k = n + 1 \/ k \in (i + 1)..n
    BY <1>0 DEF n
  <2> QED
    BY <1>0, <2>1, <2>2 DEF IsLast
<1>3. i \in 1..n \/ i = n + 1
  BY <1>0 DEF n
<1>4. \A j \in 1..(n + 1) : i < j => (i \in 1..n /\ (j \in 1..n \/ j = n + 1))
  BY <1>0, <1>3
<1>5. IsTrue(more, i) <=> /\ i \in 1..n
                          /\ \/ IsTrue(list, i)
                             \/ u.kind = "true" /\ IsLast(list, i, n)
  <2>1. ASSUME IsTrue(more, i)
        PROVE  i \in 1..n /\ (IsTrue(list, i) \/ (u.kind = "true" /\ IsLast(list, i, n)))
    <3>1. PICK j \in 1..(n + 1) : i < j /\ more[j].kind = "true" /\ IsLast(more, i, j)
      BY <1>0, <2>1 DEF IsTrue
    <3>2. i \in 1..n
      BY <1>4, <3>1
    <3>3. CASE j \in 1..n
      BY <1>0, <1>1, <3>1, <3>2, <3>3 DEF IsTrue
    <3>4. CASE j = n + 1
      BY <1>0, <1>2, <3>1, <3>2, <3>4
    <3> QED
      BY <1>4, <3>1, <3>3, <3>4
  <2>2. ASSUME i \in 1..n, IsTrue(list, i)
        PROVE  IsTrue(more, i)
    <3>1. PICK j \in 1..n : i < j /\ list[j].kind = "true" /\ IsLast(list, i, j)
      BY <1>0, <2>2 DEF IsTrue
    <3>2. j \in 1..(n + 1)
      BY <1>0
    <3> QED
      BY <1>0, <1>1, <3>1, <3>2 DEF IsTrue
  <2>3. ASSUME i \in 1..n, u.kind = "true", IsLast(list, i, n)
        PROVE  IsTrue(more, i)
    <3>1. n + 1 \in 1..(n + 1) /\ i < n + 1
      BY <1>0, <2>3
    <3> QED
      BY <1>0, <1>2, <2>3, <3>1 DEF IsTrue
  <2> QED
    BY <2>1, <2>2, <2>3
<1> QED
  BY <1>5 DEF n

\* The second document opts out the last ID of the first one as well.
OptsOutLast(list, more) ==
    \A v : LastMet(list, v) => OptedOut(more) = OptedOut(list) \cup {v}

\* The IDs of a document with one unit more: a quoted text is met, and a "true"
\* opts out the last ID before it.
LEMMA OneUnitMet ==
    ASSUME NEW list \in Seq(Units), NEW u \in Units, NEW more, more = Append(list, u)
    PROVE  /\ Met(more) = IF u.kind = "quoted" THEN Met(list) \cup {IdOf(u.text)} ELSE Met(list)
           /\ u.kind # "true" => OptedOut(more) = OptedOut(list)
           /\ u.kind = "true" => OptsOutLast(list, more)
<1> DEFINE n == Len(list)
<1>9. /\ n \in Nat /\ DOMAIN list = 1..n /\ DOMAIN more = 1..(n + 1)
      /\ more[n + 1] = u /\ \A k \in 1..n : more[k] = list[k]
  BY OneUnitMore
<1>0. /\ n \in Nat /\ more[n + 1] = u /\ \A i \in 1..n : more[i] = list[i]
      /\ QuotedAt(more) = QuotedAt(list) \cup (IF u.kind = "quoted" THEN {n + 1} ELSE {})
      /\ QuotedAt(list) \subseteq 1..n
  <2> HIDE DEF n
  <2> QED
    BY <1>9 DEF QuotedAt
<1>11. \A i \in QuotedAt(list) : i \in 1..(n + 1) /\ i \in 1..n
  BY <1>0
<1>1. \A i \in QuotedAt(list) :
          IsTrue(more, i) <=> IsTrue(list, i) \/ (u.kind = "true" /\ IsLast(list, i, n))
  BY <1>11, OneUnitIsTrue, Zenon
<1>2. ~IsTrue(more, n + 1)
  <2>1. n + 1 \in 1..(n + 1) /\ n + 1 \notin 1..n
    BY <1>0
  <2> QED
    BY <2>1, OneUnitIsTrue
<1> HIDE DEF n
<1>3. Met(more) = IF u.kind = "quoted" THEN Met(list) \cup {IdOf(u.text)} ELSE Met(list)
  BY <1>0 DEF Met
<1>4. \A i \in QuotedAt(list) : more[i] = list[i]
  BY <1>0
<1>5. {k \in QuotedAt(more) : IsTrue(more, k)} =
          {k \in QuotedAt(list) : IsTrue(list, k) \/ (u.kind = "true" /\ IsLast(list, k, n))}
  BY <1>0, <1>1, <1>2
<1> DEFINE F == {k \in QuotedAt(list) : IsTrue(list, k) \/ (u.kind = "true" /\ IsLast(list, k, n))}
<1>12. F \subseteq QuotedAt(list)
  OBVIOUS
<1> HIDE DEF F
<1>10. OptedOut(more) = {IdOf(more[i].text) : i \in F}
  BY <1>5 DEF OptedOut, F
<1>6. OptedOut(more) = {IdOf(list[i].text) : i \in F}
  BY <1>4, <1>12, <1>10
<1>7. ASSUME u.kind # "true"
      PROVE  OptedOut(more) = OptedOut(list)
  <2>1. F = {k \in QuotedAt(list) : IsTrue(list, k)}
    BY <1>7 DEF F
  <2> QED
    BY <1>6, <2>1 DEF OptedOut
<1>8. ASSUME NEW i \in QuotedAt(list), u.kind = "true", IsLast(list, i, n)
      PROVE  OptedOut(more) = OptedOut(list) \cup {IdOf(list[i].text)}
  <2>1. ASSUME NEW k \in QuotedAt(list), IsLast(list, k, n)
        PROVE  k = i
    <3>1. k \in 1..n /\ i \in 1..n /\ list[k].kind = "quoted" /\ list[i].kind = "quoted"
      BY <1>0, <2>1 DEF QuotedAt
    <3>2. ~(i < k)
      BY <1>0, <1>8, <3>1 DEF IsLast
    <3>3. ~(k < i)
      BY <1>0, <2>1, <3>1 DEF IsLast
    <3> QED
      BY <1>0, <3>1, <3>2, <3>3
  <2>2. F = {k \in QuotedAt(list) : IsTrue(list, k)} \cup {i}
    BY <1>8, <2>1 DEF F
  <2> QED
    BY <1>6, <2>2 DEF OptedOut
<1>13. ASSUME NEW v, u.kind = "true", LastMet(list, v)
       PROVE  OptedOut(more) = OptedOut(list) \cup {v}
  BY <1>8, <1>13 DEF LastMet, n
<1> QED
  BY <1>3, <1>7, <1>13 DEF OptsOutLast

LEMMA EmptyDocument ==
    /\ <<>> \in Seq(Units)
    /\ DistinctIds(<<>>) /\ Met(<<>>) = {} /\ OptedOut(<<>>) = {}
<1>1. QuotedAt(<<>>) = {}
  BY DEF QuotedAt
<1> QED
  BY <1>1 DEF DistinctIds, Met, OptedOut

\* A new ID keeps them distinct, and so does what is no ID.
LEMMA OneUnitDistinct ==
    ASSUME NEW list \in Seq(Units), NEW u \in Units, NEW more, more = Append(list, u),
           DistinctIds(list), u.kind = "quoted" => IdOf(u.text) \notin Met(list) \cup {0}
    PROVE  DistinctIds(more)
<1> DEFINE n == Len(list)
<1>1. /\ n \in Nat /\ DOMAIN list = 1..n /\ DOMAIN more = 1..(n + 1)
      /\ more[n + 1] = u /\ \A k \in 1..n : more[k] = list[k]
  BY OneUnitMore
<1>2. Met(more) = IF u.kind = "quoted" THEN Met(list) \cup {IdOf(u.text)} ELSE Met(list)
  BY OneUnitMet
<1> HIDE DEF n
<1>3. 0 \notin Met(more)
  BY <1>2 DEF DistinctIds
<1>4. ASSUME NEW i \in QuotedAt(more)
      PROVE  \/ i \in QuotedAt(list) /\ more[i] = list[i] /\ IdOf(list[i].text) \in Met(list)
             \/ i = n + 1 /\ more[i] = u /\ u.kind = "quoted"
  BY <1>1 DEF QuotedAt, Met
<1>5. ASSUME NEW i \in QuotedAt(more), NEW j \in QuotedAt(more), i # j
      PROVE  IdOf(more[i].text) # IdOf(more[j].text)
  <2>1. CASE i \in QuotedAt(list) /\ more[i] = list[i] /\ j \in QuotedAt(list) /\ more[j] = list[j]
    BY <1>5, <2>1 DEF DistinctIds
  <2>2. CASE i = n + 1 /\ more[i] = u /\ u.kind = "quoted"
    BY <1>4, <1>5, <2>2
  <2>3. CASE j = n + 1 /\ more[j] = u /\ u.kind = "quoted"
    BY <1>4, <1>5, <2>3
  <2> QED
    BY <1>4, <2>1, <2>2, <2>3
<1> QED
  BY <1>3, <1>5 DEF DistinctIds

\* The last ID met stays the last until another is met.
LEMMA OneUnitLast ==
    ASSUME NEW list \in Seq(Units), NEW u \in Units, NEW more, more = Append(list, u)
    PROVE  /\ \A v : u.kind # "quoted" /\ LastMet(list, v) => LastMet(more, v)
           /\ u.kind = "quoted" => LastMet(more, IdOf(u.text))
<1> DEFINE n == Len(list)
<1>1. /\ n \in Nat /\ DOMAIN list = 1..n /\ DOMAIN more = 1..(n + 1)
      /\ more[n + 1] = u /\ (\A k \in 1..n : more[k] = list[k]) /\ Len(more) = n + 1
  BY OneUnitMore
<1>0. Len(list) = n
  OBVIOUS
<1> HIDE DEF n
<1>2. ASSUME NEW v, u.kind # "quoted", LastMet(list, v)
      PROVE  LastMet(more, v)
  <2>0. PICK i \in QuotedAt(list) : v = IdOf(list[i].text) /\ IsLast(list, i, n)
    BY <1>0, <1>2 DEF LastMet
  <2>1. i \in 1..n
    BY <1>1 DEF QuotedAt
  <2>2. \A k \in (i + 1)..(n + 1) : k = n + 1 \/ (k \in (i + 1)..n /\ k \in 1..n)
    BY <1>1, <2>1
  <2>3. i \in QuotedAt(more) /\ more[i] = list[i] /\ IsLast(more, i, n + 1)
    BY <1>1, <1>2, <2>0, <2>1, <2>2 DEF QuotedAt, IsLast
  <2> QED
    BY <1>1, <2>0, <2>3 DEF LastMet
<1>3. ASSUME u.kind = "quoted"
      PROVE  LastMet(more, IdOf(u.text))
  <2>1. n + 1 \in QuotedAt(more) /\ IsLast(more, n + 1, n + 1)
    BY <1>1, <1>3 DEF QuotedAt, IsLast
  <2> QED
    BY <1>1, <2>1 DEF LastMet
<1> QED
  BY <1>2, <1>3

LEMMA ReadKeeps ==
    ASSUME ReadInv, reader = "jsonc", written = NotWritten,
           NEW u \in Units \cup Range(ahead), Read(u)
    PROVE  ReadInv'
<1>0. /\ at \in Places /\ at # "rejected" /\ at # "accepted"
      /\ ahead = <<>> /\ doc \in Seq(Units)
      /\ DistinctIds(doc) /\ seenIds = Met(doc) /\ parsed = OptedOut(doc) /\ out = Before
      /\ at \in {"entryColon", "entryValue"} => LastMet(doc, id)
  BY DEF ReadInv, Read, Reading, Verdicts
<1> DEFINE more == Append(doc, u)
<1>1. u \in Units /\ more = Append(doc, u)
  BY <1>0 DEF Range
<1> HIDE DEF more
<1>2. ahead' = <<>> /\ out' = Before /\ doc' = more
  BY <1>0, <1>1 DEF Read, Comes
<1>3. /\ more \in Seq(Units)
      /\ Met(more) = IF u.kind = "quoted" THEN Met(doc) \cup {IdOf(u.text)} ELSE Met(doc)
      /\ u.kind # "true" => OptedOut(more) = OptedOut(doc)
      /\ u.kind = "true" => OptsOutLast(doc, more)
      /\ \A v : u.kind # "quoted" /\ LastMet(doc, v) => LastMet(more, v)
      /\ u.kind = "quoted" => LastMet(more, IdOf(u.text))
      /\ (u.kind = "quoted" => IdOf(u.text) \notin Met(doc) \cup {0}) => DistinctIds(more)
  <2>1. more \in Seq(Units)
    BY <1>0, <1>1, OneUnitMore, Zenon
  <2>2. /\ Met(more) = IF u.kind = "quoted" THEN Met(doc) \cup {IdOf(u.text)} ELSE Met(doc)
        /\ u.kind # "true" => OptedOut(more) = OptedOut(doc)
        /\ u.kind = "true" => OptsOutLast(doc, more)
    BY <1>0, <1>1, OneUnitMet, Zenon
  <2>4. /\ \A v : u.kind # "quoted" /\ LastMet(doc, v) => LastMet(more, v)
        /\ u.kind = "quoted" => LastMet(more, IdOf(u.text))
    BY <1>0, <1>1, OneUnitLast, Zenon
  <2>5. ASSUME u.kind = "quoted" => IdOf(u.text) \notin Met(doc) \cup {0}
        PROVE  DistinctIds(more)
    BY <1>0, <1>1, <2>5, OneUnitDistinct, Zenon
  <2> QED
    BY <2>1, <2>2, <2>4, <2>5
<1>4. u.kind = "quoted" => ParseDecimalUll(u.text) = IdOf(u.text)
  BY <1>1, UnitKinds, TextParses
<1>5. SUFFICES /\ at' \in Places \cup Verdicts /\ at' # "accepted"
               /\ at' # "rejected" =>
                     DistinctIds(more) /\ seenIds' = Met(more) /\ parsed' = OptedOut(more)
               /\ at' \in {"entryColon", "entryValue"} => LastMet(more, id')
  <2>1. /\ DistinctIds(doc)' = DistinctIds(more) /\ Met(doc)' = Met(more)
        /\ OptedOut(doc)' = OptedOut(more) /\ LastMet(doc, id)' = LastMet(more, id')
    BY <1>2 DEF DistinctIds, Met, OptedOut, LastMet, QuotedAt, IsTrue, IsLast
  <2>2. out' = IF at' = "accepted" THEN parsed' ELSE Before
    BY <1>2
  <2> QED
    BY <1>2, <1>3, <2>1, <2>2 DEF ReadInv
<1>6. CASE u.kind = "gap" /\ UNCHANGED <<at, scanVars>>
  <2>1. at' = at /\ id' = id /\ seenIds' = seenIds /\ parsed' = parsed
    BY <1>6 DEF scanVars
  <2> QED
    BY <1>0, <1>3, <1>6, <2>1
<1>7. CASE u.kind # "gap" /\ Accepts(u) /\ at' = Goes(u) /\ Notes(u)
  <2>1. /\ Goes(u) \in Places
        /\ u.kind = "true" => at = "entryValue"
        /\ Goes(u) = "entryColon" => u.kind = "quoted"
        /\ Goes(u) = "entryValue" => at = "entryColon" /\ u.kind = ":"
    BY <1>0, <1>7, EntryPlaces
  <2>2. Goes(u) # "accepted" /\ Goes(u) # "rejected"
    BY <2>1 DEF Places
  <2>3. u.kind = "quoted" => IdOf(u.text) \notin Met(doc) \cup {0}
    BY <1>0, <1>4, <1>7 DEF Accepts, IdIsNew
  <2>4. DistinctIds(more)
    BY <1>3, <2>3
  <2>5. seenIds' = Met(more)
    BY <1>0, <1>3, <1>4, <1>7 DEF Notes
  <2>6. parsed' = OptedOut(more)
    BY <1>0, <1>3, <1>7, <2>1 DEF Notes, OptsOutLast
  <2>7. at' \in {"entryColon", "entryValue"} => LastMet(more, id')
    BY <1>0, <1>3, <1>4, <1>7, <2>1 DEF Notes
  <2> QED
    BY <1>7, <2>1, <2>2, <2>4, <2>5, <2>6, <2>7
<1>8. CASE at' = "rejected"
  BY <1>8 DEF Verdicts
<1> QED
  BY <1>6, <1>7, <1>8 DEF Read

\* What the parser accepts has every ID once, as a number, and what the caller
\* gets are those that are true; what it refuses leaves the caller's set alone.
\* (README "Numeric duplicate IDs are rejected even when their first value is
\* false, before publishing output".)
THEOREM AcceptedIdsAreDistinct == DocSpec => []AcceptedIsDistinct
<1>1. DocInit => ReadInv
  <2>1. NotWritten \notin WrittenSets
    <3>1. WrittenSets \subseteq SUBSET (1..MaxId)
      BY NumbersAssumption
    <3>2. NotWritten \notin SUBSET (1..MaxId)
      BY DEF NotWritten
    <3> QED
      BY <3>1, <3>2, Zenon
  <2> QED
    BY <2>1, EmptyDocument DEF DocInit, ScanInit, ReadInv, Places, Verdicts
<1>2. ReadInv /\ [DocNext]_docVars => ReadInv'
  <2> SUFFICES ASSUME ReadInv, [DocNext]_docVars PROVE ReadInv'
    OBVIOUS
  <2>0. SUFFICES ASSUME (reader = "jsonc" /\ written = NotWritten)'
                 PROVE  ReadInv'
    BY DEF ReadInv
  <2>1. reader = "jsonc" /\ written = NotWritten
    BY <2>0 DEF DocNext, Read, EndOfDocument, ReadLine, EndOfLines, docVars
  <2>2. CASE UNCHANGED docVars
    BY <2>2 DEF docVars, scanVars, ReadInv, DistinctIds, Met, OptedOut, LastMet, QuotedAt,
        IsTrue, IsLast
  <2>3. ASSUME NEW u \in Units \cup Range(ahead), Read(u)
        PROVE  ReadInv'
    BY <2>1, <2>3, ReadKeeps
  <2>4. CASE EndOfDocument
    <3>1. /\ UNCHANGED <<doc, id, seenIds, parsed, keys, ahead>>
          /\ at' \in {"accepted", "incomplete"} /\ at # "rejected" /\ out = Before
          /\ at' = "accepted" => keys = {"version", "opt_out_steam_ids"}
          /\ out' = IF at' = "accepted" THEN parsed ELSE out
      BY <2>1, <2>4 DEF EndOfDocument, Whole, Reading, scanVars, Verdicts, ReadInv
    <3>2. DistinctIds(doc)' = DistinctIds(doc) /\ Met(doc)' = Met(doc)
          /\ OptedOut(doc)' = OptedOut(doc)
      BY <3>1 DEF DistinctIds, Met, OptedOut, QuotedAt, IsTrue, IsLast
    <3> QED
      BY <2>1, <3>1, <3>2 DEF ReadInv, Verdicts
  <2> QED
    BY <2>1, <2>2, <2>3, <2>4 DEF DocNext, ReadLine, EndOfLines
<1>3. ReadInv => AcceptedIsDistinct
  BY DEF ReadInv, AcceptedIsDistinct
<1> QED
  BY <1>1, <1>2, <1>3, PTL DEF DocSpec

\* The quotients of a number by the powers of ten, down to zero.
Quotients(q, v) ==
    /\ q \in [0..(v + 1) -> Nat]
    /\ q[0] = v
    /\ \A n \in 1..(v + 1) : q[n] = q[n - 1] \div 10

\* The writer's digits are the remainders of the quotients, up to the first that is
\* zero.
DigitsFrom(q, v, length) ==
    /\ Quotients(q, v)
    /\ length \in 1..(v + 1) /\ q[length] = 0
    /\ \A n \in 1..(length - 1) : q[n] # 0
    /\ DigitsOf(v) = [i \in 1..length |-> q[length - i] % 10]

LEMMA QuotientIsLess ==
    ASSUME NEW x \in Nat
    PROVE  /\ x \div 10 \in Nat /\ x % 10 \in 0..9
           /\ x = (x \div 10) * 10 + (x % 10)
           /\ x # 0 => x \div 10 <= x - 1
           /\ x = 0 => x \div 10 = 0
OBVIOUS

LEMMA QuotientsShrink ==
    ASSUME NEW v \in Nat, NEW q, Quotients(q, v)
    PROVE  q[v + 1] = 0
<1> DEFINE T == {n \in 0..(v + 1) : q[n] <= v - n \/ q[n] = 0}
<1>1. v + 1 \in Nat /\ 0 \in T
  BY DEF Quotients
<1>2. ASSUME NEW n \in 1..(v + 1), n - 1 \in T
      PROVE  n \in T
  <2>1. n \in 0..(v + 1) /\ n - 1 \in 0..(v + 1)
    OBVIOUS
  <2>2. q[n - 1] \in Nat /\ q[n] = q[n - 1] \div 10
    BY <2>1 DEF Quotients
  <2> DEFINE x == q[n - 1]
  <2>3. /\ x # 0 => x \div 10 <= x - 1
        /\ x = 0 => x \div 10 = 0
        /\ x \in Nat /\ x \div 10 \in Nat
    BY <2>2, QuotientIsLess
  <2>4. x <= v - (n - 1) \/ x = 0
    BY <1>2
  <2> HIDE DEF x
  <2>5. x \div 10 <= v - n \/ x \div 10 = 0
    BY <2>3, <2>4
  <2> QED
    BY <2>1, <2>2, <2>5 DEF x
<1> HIDE DEF T
<1>3. \A n \in 0..(v + 1) : n \in T
  BY <1>1, <1>2, NumbersUpTo
<1>4. v + 1 \in T /\ v + 1 \in 0..(v + 1)
  BY <1>1, <1>3
<1>5. q[v + 1] \in Nat
  BY <1>4 DEF Quotients
<1> QED
  BY <1>4, <1>5 DEF T

LEMMA DigitsFromQuotients ==
    ASSUME NEW v \in Nat
    PROVE  \E q, length : DigitsFrom(q, v, length)
<1> DEFINE k == v + 1
           IsQuotient(g) == g = [n \in 0..(v + 1) |-> IF n = 0 THEN v ELSE g[n - 1] \div 10]
           q == CHOOSE g : IsQuotient(g)
           divide == [n \in 1..k |-> [x \in Nat |-> x \div 10]]
           End(n) == q[n] = 0 /\ (n = 1 \/ q[n - 1] # 0)
           length == CHOOSE n \in 1..(v + 1) : End(n)
<1>0. k \in Nat /\ v \in Nat
  OBVIOUS
<1>1. divide \in [1..k -> [Nat -> Nat]]
  BY QuotientIsLess
<1> HIDE DEF divide, k
<1>2. PICK g : Stepping(g, Nat, v, k, divide)
  BY <1>0, <1>1, Steps, Zenon
<1>3. IsQuotient(g)
  <2>1. ASSUME NEW n \in 0..k
        PROVE  g[n] = IF n = 0 THEN v ELSE g[n - 1] \div 10
    <3>1. CASE n = 0
      BY <1>2, <3>1 DEF Stepping
    <3>2. CASE n # 0
      <4>1. n \in 1..k /\ n - 1 \in 0..k
        BY <1>0, <3>2
      <4> QED
        BY <1>2, <3>2, <4>1 DEF Stepping, divide
    <3> QED
      BY <3>1, <3>2
  <2>2. g = [n \in 0..k |-> g[n]]
    BY <1>2 DEF Stepping
  <2> QED
    BY <2>1, <2>2 DEF k
<1>4. IsQuotient(q)
  BY <1>3
<1> HIDE DEF q
<1>5. \A n \in 0..k : q[n] = IF n = 0 THEN v ELSE q[n - 1] \div 10
  BY <1>4 DEF k
<1>6. Quotients(q, v)
  <2>1. q = [n \in 0..k |-> q[n]]
    BY <1>4 DEF k
  <2>2. q[0] \in Nat /\ q[0] = v
    BY <1>0, <1>5
  <2>3. ASSUME NEW n \in 1..k
        PROVE  q[n] = q[n - 1] \div 10
    <3>1. n \in 0..k /\ n # 0
      BY <1>0
    <3> QED
      BY <1>5, <3>1
  <2>4. \A n \in 1..k : q[n - 1] \in Nat => q[n] \in Nat
    BY <2>3, QuotientIsLess
  <2>5. q \in [0..k -> Nat]
    BY <1>0, <2>1, <2>2, <2>4, RunType
  <2> QED
    BY <2>2, <2>3, <2>5 DEF Quotients, k
<1>7. \E n \in 1..k : End(n)
  <2> DEFINE Z == {n \in 1..k : q[n] = 0}
  <2>1. k \in Z
    BY <1>0, <1>6, QuotientsShrink DEF k
  <2>2. Z \subseteq Nat /\ Z # {}
    BY <2>1
  <2>3. PICK n \in Z : \A m \in Z : n <= m
    BY <2>2, LeastNumber
  <2>4. n = 1 \/ (n - 1 \in 1..k /\ ~(n <= n - 1))
    BY <1>0
  <2> QED
    BY <2>3, <2>4
<1>8. length \in 1..k /\ q[length] = 0 /\ (length = 1 \/ q[length - 1] # 0)
  BY <1>7 DEF k
<1>9. DigitsOf(v) = [i \in 1..length |-> q[length - i] % 10]
  BY DEF DigitsOf, q
<1> HIDE DEF length, End
<1>10. \A n \in 1..(length - 1) : q[n] # 0
  <2> SUFFICES ASSUME NEW m \in 1..(length - 1), q[m] = 0
               PROVE  FALSE
    OBVIOUS
  <2> DEFINE T == {j \in 0..(length - 1 - m) : q[m + j] = 0}
  <2>1. length - 1 - m \in Nat /\ 0 \in T
    BY <1>0, <1>8
  <2>2. ASSUME NEW j \in 1..(length - 1 - m), j - 1 \in T
        PROVE  j \in T
    <3>1. m + j \in 1..k /\ (m + j) - 1 = m + (j - 1) /\ j \in 0..(length - 1 - m)
      BY <1>0, <1>8
    <3>2. q[m + j] = q[m + (j - 1)] \div 10
      BY <1>6, <3>1 DEF Quotients, k
    <3>3. q[m + (j - 1)] = 0
      BY <2>2
    <3> QED
      BY <3>1, <3>2, <3>3
  <2> HIDE DEF T
  <2>3. \A j \in 0..(length - 1 - m) : j \in T
    BY <2>1, <2>2, NumbersUpTo
  <2>4. length - 1 - m \in T
    BY <2>1, <2>3
  <2>5. m + (length - 1 - m) = length - 1 /\ length # 1
    BY <1>0, <1>8
  <2> QED
    BY <1>8, <2>4, <2>5 DEF T
<1> QED
  BY <1>6, <1>8, <1>9, <1>10 DEF DigitsFrom, k

\* The digits are as many as the width allows, and denote the number.
LEMMA DigitsFit ==
    ASSUME NEW v \in 1..MaxId
    PROVE  DigitsOf(v) \in Seq(0..9) /\ Len(DigitsOf(v)) \in 1..MaxDigits
<1>1. v \in Nat /\ MaxId \in Nat
  BY WidthIsNumber
<1>2. PICK q, length : DigitsFrom(q, v, length)
  BY <1>1, DigitsFromQuotients
<1>3. PICK r, width : DigitsFrom(r, MaxId, width)
  BY <1>1, DigitsFromQuotients
<1>0. length \in 1..(v + 1) /\ width \in 1..(MaxId + 1)
  BY <1>2, <1>3 DEF DigitsFrom
<1>10. length \in Nat /\ width \in Nat /\ length >= 1 /\ width >= 1
  BY <1>0
<1>4. q \in [0..(v + 1) -> Nat] /\ r \in [0..(MaxId + 1) -> Nat]
  BY <1>2, <1>3 DEF DigitsFrom, Quotients
<1>5. DigitsOf(v) \in [1..length -> 0..9]
  <2>1. ASSUME NEW i \in 1..length
        PROVE  q[length - i] % 10 \in 0..9
    <3>1. length - i \in 0..(v + 1)
      BY <1>0
    <3> QED
      BY <1>4, <3>1, QuotientIsLess
  <2> QED
    BY <1>2, <2>1 DEF DigitsFrom
<1>6. DigitsOf(v) \in Seq(0..9) /\ Len(DigitsOf(v)) = length
  BY <1>5, <1>10, FunctionIsList, Zenon
<1>7. width = MaxDigits
  <2>1. DigitsOf(MaxId) = [i \in 1..width |-> r[width - i] % 10]
    BY <1>3 DEF DigitsFrom
  <2>2. Len(DigitsOf(MaxId)) = width
    BY <1>10, <1>4, <2>1
  <2> QED
    BY <2>2, WidthAssumption
<1>8. length <= width
  <2> SUFFICES ASSUME width < length PROVE FALSE
    BY <1>10, <1>4
  <2> DEFINE T == {n \in 0..width : q[n] <= r[n]}
  <2>0. ASSUME NEW n \in 0..width
        PROVE  n \in 0..(v + 1) /\ n \in 0..(MaxId + 1)
    <3>1. width \in Nat /\ length <= v + 1 /\ width <= MaxId + 1 /\ width <= v + 1
      BY <1>0, <1>1, <1>10
    <3> QED
      BY <1>1, <3>1
  <2>1. 0 \in T
    <3>1. q[0] = v /\ r[0] = MaxId
      BY <1>2, <1>3 DEF DigitsFrom, Quotients
    <3> QED
      BY <1>1, <1>10, <3>1
  <2>2. ASSUME NEW n \in 1..width, n - 1 \in T
        PROVE  n \in T
    <3>1. n \in 0..width /\ n - 1 \in 0..width /\ n \in 1..(v + 1) /\ n \in 1..(MaxId + 1)
      BY <1>10, <1>4, <2>0
    <3>2. q[n] = q[n - 1] \div 10 /\ r[n] = r[n - 1] \div 10
      BY <1>2, <1>3, <3>1 DEF DigitsFrom, Quotients
    <3> DEFINE x == q[n - 1]
               y == r[n - 1]
    <3>3. x \in Nat /\ y \in Nat /\ x <= y
      BY <1>10, <1>4, <2>0, <2>2, <3>1
    <3> HIDE DEF x, y
    <3>4. x \div 10 <= y \div 10
      BY <3>3
    <3> QED
      BY <3>1, <3>2, <3>4 DEF x, y
  <2> HIDE DEF T
  <2>3. \A n \in 0..width : n \in T
    BY <1>10, <1>4, <2>1, <2>2, NumbersUpTo
  <2>4. width \in T /\ width \in 0..width
    BY <1>10, <1>4, <2>3
  <2>5. q[width] = 0
    <3>1. r[width] = 0 /\ q[width] \in Nat
      BY <1>10, <1>3, <1>4, <2>0, <2>4 DEF DigitsFrom
    <3>2. q[width] <= r[width]
      BY <2>4 DEF T
    <3> QED
      BY <3>1, <3>2
  <2>6. width \in 1..(length - 1)
    BY <1>10, <1>4
  <2> QED
    BY <1>2, <2>5, <2>6 DEF DigitsFrom
<1> QED
  BY <1>10, <1>4, <1>6, <1>7, <1>8

\* The writer's digits denote the number they were made of, in the width of the ID.
LEMMA DigitsDenote ==
    ASSUME NEW v \in 1..MaxId
    PROVE  ParseDecimalUll(DigitsOf(v)) = v
<1> DEFINE text == DigitsOf(v)
<1>1. v \in Nat /\ MaxId \in Nat /\ v <= MaxId
  BY WidthIsNumber
<1>2. text \in Seq(0..9) /\ Len(text) \in 1..MaxDigits
  BY DigitsFit
<1>3. PICK q, length : DigitsFrom(q, v, length)
  BY <1>1, DigitsFromQuotients
<1>4. PICK number, value : Counting(number, value, text) /\ IdOf(text) = Denoted(number, text)
  BY <1>2, Loops
<1>14. length \in 1..(v + 1) /\ text = [i \in 1..length |-> q[length - i] % 10]
  BY <1>3 DEF DigitsFrom
<1>15. q \in [0..(v + 1) -> Nat] /\ q[0] = v /\ q[length] = 0
  BY <1>3 DEF DigitsFrom, Quotients
<1>5. length \in Nat /\ length \in 1..(v + 1) /\ q \in [0..(v + 1) -> Nat]
      /\ text = [i \in 1..length |-> q[length - i] % 10]
  BY <1>1, <1>14, <1>15
<1>6. Len(text) = length
  BY <1>5
<1> HIDE DEF text
<1> DEFINE T == {n \in 0..length : number[n] = q[length - n]}
<1>7. 0 \in T
  BY <1>4, <1>5, <1>15 DEF Counting
<1>8. ASSUME NEW n \in 1..length, n - 1 \in T
      PROVE  n \in T
  <2>1. /\ n \in 0..length /\ length - n \in 0..(v + 1)
        /\ length - n + 1 \in 1..(v + 1) /\ length - (n - 1) = length - n + 1
        /\ (length - n + 1) - 1 = length - n
    BY <1>1, <1>5
  <2> DEFINE x == q[length - n]
  <2>2. x \in Nat /\ text[n] = x % 10
    BY <1>5, <2>1
  <2>3. q[length - (n - 1)] = x \div 10
    BY <1>3, <2>1 DEF DigitsFrom, Quotients
  <2>4. number[n] = number[n - 1] * 10 + text[n] /\ number[n - 1] = q[length - (n - 1)]
    BY <1>4, <1>6, <1>8 DEF Counting
  <2>5. number[n] = (x \div 10) * 10 + (x % 10)
    BY <2>2, <2>3, <2>4
  <2>6. number[n] = x
    BY <2>2, <2>5, QuotientIsLess
  <2> QED
    BY <2>1, <2>6
<1> HIDE DEF T
<1>9. \A n \in 0..length : n \in T
  BY <1>5, <1>7, <1>8, NumbersUpTo
<1>10. length \in T
  BY <1>5, <1>9
<1>11. number[length] = v
  <2>1. number[length] = q[length - length] /\ length - length = 0
    BY <1>5, <1>10 DEF T
  <2> QED
    BY <1>15, <2>1
<1>12. IdOf(text) = v
  BY <1>1, <1>4, <1>6, <1>11 DEF Denoted
<1>13. text \in Seq(Characters)
  BY <1>2 DEF Characters
<1> QED
  BY <1>12, <1>13, ParsesTheNumber DEF text

-----------------------------------------------------------------------------
(* The document the plugin writes *)

TypedUnits == [kind : Marks \cup {"quoted"}, text : Seq(Characters)]

LEMMA UnitsAreTyped ==
    /\ Units \subseteq TypedUnits
    /\ \A m \in Marks : Unit(m) \in TypedUnits /\ Unit(m).kind = m
    /\ \A t \in Seq(Characters) : Quoted(t) \in TypedUnits
    /\ \A t \in Lines : Quoted(t) \in TypedUnits
<1>1. IdTexts \subseteq Seq(Characters) /\ Lines \subseteq Seq(Characters)
  BY NumbersAssumption DEF Characters
<1>2. \A m \in Marks : Unit(m) \in TypedUnits /\ Unit(m).kind = m
  BY DEF Unit, TypedUnits
<1>3. \A t \in Seq(Characters) : Quoted(t) \in TypedUnits
  BY DEF Quoted, TypedUnits
<1> QED
  BY <1>1, <1>2, <1>3 DEF Units

\* The units of an entry, one by one.
IsEntry(entry, v, isLast) ==
    /\ entry \in Seq(TypedUnits)
    /\ Len(entry) = IF isLast THEN 5 ELSE 6
    /\ entry[1] = Quoted(DigitsOf(v)) /\ entry[2] = Unit(":")
    /\ entry[3] = Unit("gap") /\ entry[4] = Unit("true")
    /\ entry[5] = IF isLast THEN Unit("gap") ELSE Unit(",")
    /\ ~isLast => entry[6] = Unit("gap")

LEMMA BehindFour ==
    ASSUME NEW S, NEW s \in Seq(S), Len(s) = 4, NEW t \in Seq(S), Len(t) = 1 \/ Len(t) = 2
    PROVE  /\ s \o t \in Seq(S) /\ Len(s \o t) = 4 + Len(t)
           /\ (s \o t)[1] = s[1] /\ (s \o t)[2] = s[2]
           /\ (s \o t)[3] = s[3] /\ (s \o t)[4] = s[4]
           /\ (s \o t)[5] = t[1]
           /\ Len(t) = 2 => (s \o t)[6] = t[2]
<1>1. /\ s \o t \in Seq(S) /\ Len(s \o t) = Len(s) + Len(t)
      /\ \A i \in 1..(Len(s) + Len(t)) : (s \o t)[i] = IF i <= Len(s) THEN s[i] ELSE t[i - Len(s)]
  BY ConcatProperties, Zenon
<1>2. ASSUME NEW i \in 1..4
      PROVE  (s \o t)[i] = s[i]
  <2>1. i \in 1..(Len(s) + Len(t)) /\ i <= Len(s)
    OBVIOUS
  <2> QED
    BY <1>1, <2>1
<1>6. Len(s) = 4 /\ Len(t) \in Nat /\ (Len(t) = 1 \/ Len(t) = 2)
  OBVIOUS
<1>7. ASSUME NEW i \in 1..Len(t)
      PROVE  (s \o t)[4 + i] = t[i]
  <2>1. 4 + i \in 1..(Len(s) + Len(t)) /\ ~(4 + i <= Len(s)) /\ 4 + i - Len(s) = i
    BY <1>6
  <2> QED
    BY <1>1, <2>1
<1>3. (s \o t)[5] = t[1]
  <2>1. 1 \in 1..Len(t)
    <3> DEFINE n == Len(t)
    <3>1. n \in Nat /\ (n = 1 \/ n = 2)
      BY <1>6
    <3> HIDE DEF n
    <3>2. 1 \in 1..n
      BY <3>1
    <3> QED
      BY <3>2 DEF n
  <2>2. 4 + 1 = 5
    OBVIOUS
  <2> QED
    BY <1>7, <2>1, <2>2
<1>4. Len(t) = 2 => (s \o t)[6] = t[2]
  <2>1. Len(t) = 2 => 2 \in 1..Len(t)
    BY <1>6
  <2>2. 4 + 2 = 6
    OBVIOUS
  <2> QED
    BY <1>7, <2>1, <2>2
<1>5. 1 \in 1..4 /\ 2 \in 1..4 /\ 3 \in 1..4 /\ 4 \in 1..4
  OBVIOUS
<1> QED
  BY <1>1, <1>2, <1>3, <1>4, <1>5

LEMMA PartsAreTyped ==
    /\ Opening \in Seq(TypedUnits) /\ Len(Opening) = 13
    /\ Closing \in Seq(TypedUnits) /\ Len(Closing) = 4
    /\ \A v \in 1..MaxId, isLast \in BOOLEAN : IsEntry(Entry(v, isLast), v, isLast)
<1>1. \A m \in Marks : Unit(m) \in TypedUnits
  BY UnitsAreTyped
<1>2. /\ Unit("{") \in TypedUnits /\ Unit("gap") \in TypedUnits /\ Unit("version") \in TypedUnits
      /\ Unit(":") \in TypedUnits /\ Unit("1") \in TypedUnits /\ Unit(",") \in TypedUnits
      /\ Unit("opt_out_steam_ids") \in TypedUnits /\ Unit("}") \in TypedUnits
      /\ Unit("true") \in TypedUnits
  BY <1>1 DEF Marks
<1> DEFINE open == Unit("{")
           gap == Unit("gap")
           version == Unit("version")
           colon == Unit(":")
           one == Unit("1")
           comma == Unit(",")
           optouts == Unit("opt_out_steam_ids")
           close == Unit("}")
<1>6. {open, gap, version, colon, one, comma, optouts, close} \subseteq TypedUnits
  BY <1>2
<1>7. /\ Opening = <<open, gap, version, colon, gap, one, comma, gap, optouts, colon, gap, open, gap>>
      /\ Closing = <<close, gap, close, gap>>
  BY DEF Opening, Closing
<1> HIDE DEF open, gap, version, colon, one, comma, optouts, close
<1>3. Opening \in Seq(TypedUnits) /\ Len(Opening) = 13
  BY <1>6, <1>7
<1>4. Closing \in Seq(TypedUnits) /\ Len(Closing) = 4
  BY <1>6, <1>7
<1>5. ASSUME NEW v \in 1..MaxId, NEW isLast \in BOOLEAN
      PROVE  IsEntry(Entry(v, isLast), v, isLast)
  <2>1. DigitsOf(v) \in Seq(Characters)
    <3>1. DigitsOf(v) \in Seq(0..9)
      BY DigitsFit
    <3> QED
      BY <3>1 DEF Characters
  <2> DEFINE a == Quoted(DigitsOf(v))
             b == Unit(":")
             c == Unit("gap")
             d == Unit("true")
             e == Unit(",")
             s == <<a, b, c, d>>
             t == Separator(isLast)
  <2>2. {a, b, c, d, e} \subseteq TypedUnits /\ t = IF isLast THEN <<c>> ELSE <<e, c>>
    BY <1>2, <2>1, UnitsAreTyped DEF Separator
  <2>3. Entry(v, isLast) = s \o t
    BY DEF Entry
  <2> HIDE DEF a, b, c, d, e, t
  <2>4. /\ s \in Seq(TypedUnits) /\ Len(s) = 4
        /\ s[1] = a /\ s[2] = b /\ s[3] = c /\ s[4] = d
    BY <2>2
  <2>5. /\ t \in Seq(TypedUnits) /\ (Len(t) = 1 \/ Len(t) = 2)
        /\ isLast => Len(t) = 1 /\ t[1] = c
        /\ ~isLast => Len(t) = 2 /\ t[1] = e /\ t[2] = c
    BY <2>2
  <2> HIDE DEF s
  <2>6. /\ s \o t \in Seq(TypedUnits) /\ Len(s \o t) = 4 + Len(t)
        /\ (s \o t)[1] = s[1] /\ (s \o t)[2] = s[2]
        /\ (s \o t)[3] = s[3] /\ (s \o t)[4] = s[4]
        /\ (s \o t)[5] = t[1]
        /\ Len(t) = 2 => (s \o t)[6] = t[2]
    BY <2>4, <2>5, BehindFour
  <2>9. (isLast => 4 + Len(t) = 5) /\ (~isLast => 4 + Len(t) = 6)
    <3>1. \A n : (n = 1 => 4 + n = 5) /\ (n = 2 => 4 + n = 6)
      OBVIOUS
    <3> QED
      BY <2>5, <3>1, Zenon
  <2>7. s \o t \in Seq(TypedUnits) /\ Len(s \o t) = IF isLast THEN 5 ELSE 6
    BY <2>6, <2>9
  <2>8. /\ (s \o t)[5] = IF isLast THEN c ELSE e
        /\ ~isLast => (s \o t)[6] = c
    BY <2>5, <2>6
  <2> QED
    BY <2>3, <2>4, <2>6, <2>7, <2>8, Zenon DEF IsEntry, a, b, c, d, e
<1> QED
  BY <1>3, <1>4, <1>5

Later(ids, v) == {w \in ids : w > v}

LEMMA LeastLater ==
    ASSUME NEW ids, ids \subseteq 1..MaxId, NEW v \in 0..MaxId, Later(ids, v) # {}
    PROVE  /\ Min(Later(ids, v)) \in ids /\ Min(Later(ids, v)) > v
           /\ \A w \in ids : w > v => Min(Later(ids, v)) <= w
<1>0. MaxId \in Nat /\ 1..MaxId \subseteq Nat
  BY WidthIsNumber
<1>1. Later(ids, v) \subseteq Nat
  BY <1>0 DEF Later
<1>2. \E n \in Later(ids, v) : \A m \in Later(ids, v) : n <= m
  BY <1>1, LeastNumber
<1>3. Min(Later(ids, v)) \in Later(ids, v) /\ \A m \in Later(ids, v) : Min(Later(ids, v)) <= m
  BY <1>2 DEF Min
<1> QED
  BY <1>3 DEF Later

\* What is written behind the IDs up to v: the entry of the next one, or the end.
LEMMA BehindIsNext ==
    ASSUME NEW ids, ids \subseteq 1..MaxId
    PROVE  /\ Behind(ids) \in [0..MaxId -> Seq(TypedUnits)]
           /\ \A v \in 0..MaxId :
                 Behind(ids)[v] = LET later == Later(ids, v)
                                      next == Min(later)
                                  IN  IF later = {} THEN Closing
                                      ELSE Entry(next, later = {next}) \o Behind(ids)[next]
<1> DEFINE S == Seq(TypedUnits)
           IsLastOf(w) == Later(ids, w - 1) = {w}
           step == [n \in 1..MaxId |-> [s \in S |->
                       IF MaxId - n + 1 \in ids
                       THEN Entry(MaxId - n + 1, IsLastOf(MaxId - n + 1)) \o s ELSE s]]
           Next(g, v) == LET later == Later(ids, v)
                             next == Min(later)
                         IN  IF later = {} THEN Closing ELSE Entry(next, later = {next}) \o g[next]
           IsBehind(g) == g = [v \in 0..MaxId |-> Next(g, v)]
<1>0. \A w \in ids : w \in 1..MaxId
  OBVIOUS
<1>1. MaxId \in Nat /\ Closing \in S
  BY WidthIsNumber, PartsAreTyped
<1>2. step \in [1..MaxId -> [S -> S]]
  <2>1. ASSUME NEW n \in 1..MaxId, NEW s \in S
        PROVE  (IF MaxId - n + 1 \in ids
                THEN Entry(MaxId - n + 1, IsLastOf(MaxId - n + 1)) \o s ELSE s) \in S
    <3>1. MaxId - n + 1 \in 1..MaxId
      BY <1>1
    <3>2. Entry(MaxId - n + 1, IsLastOf(MaxId - n + 1)) \in S
      BY <3>1, PartsAreTyped DEF IsEntry, S
    <3> QED
      BY <3>2, ConcatProperties
  <2> QED
    BY <2>1
<1> HIDE DEF step, S
<1>3. PICK f : Stepping(f, S, Closing, MaxId, step)
  BY <1>1, <1>2, Steps, Zenon
<1> DEFINE g == [v \in 0..MaxId |-> f[MaxId - v]]
<1>4. g \in [0..MaxId -> S] /\ g[MaxId] = Closing
  <2>1. \A v \in 0..MaxId : MaxId - v \in 0..MaxId
    BY <1>1
  <2>2. f \in [0..MaxId -> S] /\ f[0] = Closing /\ MaxId \in 0..MaxId /\ MaxId - MaxId = 0
    BY <1>1, <1>3 DEF Stepping
  <2> QED
    BY <2>1, <2>2
<1>5. ASSUME NEW v \in 0..(MaxId - 1)
      PROVE  g[v] = IF v + 1 \in ids THEN Entry(v + 1, IsLastOf(v + 1)) \o g[v + 1] ELSE g[v + 1]
  <2>1. /\ v \in 0..MaxId /\ v + 1 \in 0..MaxId /\ MaxId - v \in 1..MaxId
        /\ MaxId - (MaxId - v) + 1 = v + 1 /\ MaxId - v - 1 = MaxId - (v + 1)
    BY <1>1
  <2>2. f[MaxId - v] = step[MaxId - v][f[MaxId - v - 1]] /\ f[MaxId - v - 1] = g[v + 1]
    BY <1>3, <2>1 DEF Stepping
  <2>3. g[v] = step[MaxId - v][g[v + 1]] /\ g[v + 1] \in S
    BY <1>4, <2>1, <2>2
  <2> HIDE DEF g, IsLastOf
  <2> QED
    BY <2>1, <2>3 DEF step
<1> HIDE DEF g
<1>6. ASSUME NEW v \in 0..MaxId, Later(ids, v) = {}
      PROVE  g[v] = Closing
  <2> DEFINE T == {n \in 0..(MaxId - v) : g[MaxId - n] = Closing}
  <2>1. 0 \in T /\ MaxId - v \in Nat
    BY <1>1, <1>4
  <2>2. ASSUME NEW n \in 1..(MaxId - v), n - 1 \in T
        PROVE  n \in T
    <3>1. /\ MaxId - n \in 0..(MaxId - 1) /\ (MaxId - n) + 1 = MaxId - (n - 1)
          /\ n \in 0..(MaxId - v) /\ (MaxId - n) + 1 > v
      BY <1>1
    <3>2. (MaxId - n) + 1 \notin ids
      BY <1>6, <3>1 DEF Later
    <3> QED
      BY <1>5, <2>2, <3>1, <3>2
  <2> HIDE DEF T
  <2>3. \A n \in 0..(MaxId - v) : n \in T
    BY <2>1, <2>2, NumbersUpTo
  <2>4. MaxId - v \in T /\ MaxId - (MaxId - v) = v
    BY <1>1, <2>1, <2>3
  <2> QED
    BY <2>4 DEF T
<1>7. ASSUME NEW v \in 0..MaxId, Later(ids, v) # {}
      PROVE  LET next == Min(Later(ids, v))
             IN  g[v] = Entry(next, Later(ids, v) = {next}) \o g[next]
  <2> DEFINE next == Min(Later(ids, v))
  <2>1. next \in ids /\ next > v /\ \A w \in ids : w > v => next <= w
    BY <1>7, LeastLater
  <2> HIDE DEF next
  <2>2. next \in 1..MaxId /\ next - 1 - v \in Nat
    BY <1>1, <2>1
  <2> DEFINE T == {n \in 0..(next - 1 - v) : g[next - 1 - n] = g[next - 1]}
  <2>3. 0 \in T
    BY <2>2
  <2>4. ASSUME NEW n \in 1..(next - 1 - v), n - 1 \in T
        PROVE  n \in T
    <3>1. /\ next - 1 - n \in 0..(MaxId - 1) /\ (next - 1 - n) + 1 = next - 1 - (n - 1)
          /\ n \in 0..(next - 1 - v) /\ (next - 1 - n) + 1 > v /\ ~(next <= (next - 1 - n) + 1)
      BY <1>1, <2>2
    <3>2. (next - 1 - n) + 1 \notin ids
      BY <2>1, <3>1
    <3> QED
      BY <1>5, <2>4, <3>1, <3>2
  <2> HIDE DEF T
  <2>5. \A n \in 0..(next - 1 - v) : n \in T
    BY <2>2, <2>3, <2>4, NumbersUpTo
  <2>6. next - 1 - v \in T /\ next - 1 - (next - 1 - v) = v
    BY <2>2, <2>5
  <2>7. g[v] = g[next - 1]
    BY <2>6 DEF T
  <2>8. next - 1 \in 0..(MaxId - 1) /\ (next - 1) + 1 = next
    BY <1>1, <2>2
  <2>9. Later(ids, next - 1) = Later(ids, v)
    <3>1. \A w \in ids : w > next - 1 <=> w > v
      BY <1>1, <2>1, <2>2
    <3> QED
      BY <3>1 DEF Later
  <2>10. g[next - 1] = Entry(next, IsLastOf(next)) \o g[next]
    BY <1>5, <2>1, <2>8
  <2> QED
    BY <2>7, <2>9, <2>10 DEF next
<1>8. IsBehind(g)
  <2>1. ASSUME NEW v \in 0..MaxId
        PROVE  g[v] = Next(g, v)
    BY <1>6, <1>7
  <2>2. g = [v \in 0..MaxId |-> g[v]]
    BY <1>4
  <2> QED
    BY <2>1, <2>2
<1> DEFINE h == CHOOSE f2 : IsBehind(f2)
<1>9. IsBehind(h)
  BY <1>8
<1>10. Behind(ids) = h
  BY DEF Behind, Later
<1> HIDE DEF h
<1>11. \A v \in 0..MaxId : h[v] = Next(h, v)
  BY <1>9
<1>12. h \in [0..MaxId -> S]
  <2> DEFINE T == {n \in 0..MaxId : \A v \in (MaxId - n)..MaxId : h[v] \in S}
  <2>1. Later(ids, MaxId) = {}
    <3>1. \A w \in 1..MaxId : ~(w > MaxId)
      BY <1>1
    <3> QED
      BY <1>0, <3>1 DEF Later
  <2>2. 0 \in T
    BY <1>1, <1>11, <2>1
  <2>3. ASSUME NEW n \in 1..MaxId, n - 1 \in T
        PROVE  n \in T
    <3>1. /\ MaxId - n \in 0..MaxId /\ n \in 0..MaxId
          /\ \A v \in (MaxId - n)..MaxId : v = MaxId - n \/ v \in (MaxId - (n - 1))..MaxId
      BY <1>1
    <3>2. \A v \in (MaxId - (n - 1))..MaxId : h[v] \in S
      BY <2>3
    <3>3. h[MaxId - n] \in S
      <4> DEFINE v == MaxId - n
                 next == Min(Later(ids, v))
      <4>1. CASE Later(ids, v) = {}
        BY <1>1, <1>11, <3>1, <4>1
      <4>2. CASE Later(ids, v) # {}
        <5>1. next \in ids /\ next > v
          BY <3>1, <4>2, LeastLater
        <5>5. next \in 1..MaxId
          BY <1>0, <5>1
        <5>2. next \in 1..MaxId /\ next \in (MaxId - (n - 1))..MaxId
          <6> HIDE DEF next
          <6> QED
            BY <1>1, <3>1, <5>1, <5>5
        <5>3. Entry(next, Later(ids, v) = {next}) \in S /\ h[next] \in S
          BY <3>2, <5>2, PartsAreTyped DEF S, IsEntry
        <5>4. h[v] = Entry(next, Later(ids, v) = {next}) \o h[next]
          BY <1>11, <3>1, <4>2
        <5> QED
          BY <5>3, <5>4, ConcatProperties DEF S
      <4> QED
        BY <4>1, <4>2
    <3> QED
      BY <3>1, <3>2, <3>3
  <2> HIDE DEF T
  <2>4. \A n \in 0..MaxId : n \in T
    BY <1>1, <2>2, <2>3, NumbersUpTo
  <2>5. MaxId \in T /\ MaxId - MaxId = 0
    BY <1>1, <2>4
  <2>6. \A v \in 0..MaxId : h[v] \in S
    BY <2>5 DEF T
  <2> HIDE DEF Next
  <2>8. h = [v \in 0..MaxId |-> h[v]]
    BY <1>9
  <2> QED
    BY <2>6, <2>8
<1> QED
  BY <1>10, <1>11, <1>12 DEF S

LEMMA WrittenIsTyped ==
    ASSUME NEW ids, ids \subseteq 1..MaxId
    PROVE  Written(ids) \in Seq(TypedUnits)
<1>1. 0 \in 0..MaxId
  BY WidthIsNumber
<1>2. Behind(ids)[0] \in Seq(TypedUnits)
  BY <1>1, BehindIsNext
<1>3. Opening \in Seq(TypedUnits)
  BY PartsAreTyped
<1> QED
  BY <1>2, <1>3, ConcatProperties DEF Written

DocTypes ==
    /\ reader \in {"jsonc", "legacy", "none"}
    /\ written \in {NotWritten} \cup SUBSET (1..MaxId)
    /\ ahead \in Seq(TypedUnits) /\ doc \in Seq(TypedUnits)
    /\ at \in Places \cup Verdicts \cup {"line"}
    /\ key \in {"", "version", "opt_out_steam_ids"}
    /\ keys \subseteq {"version", "opt_out_steam_ids"}
    /\ id \in 0..MaxId
    /\ seenIds \subseteq 1..MaxId /\ parsed \subseteq 1..MaxId /\ out \subseteq 0..MaxId
    /\ reader = "jsonc" => at # "line"
    /\ at \in {"colon", "value"} => key # ""
    /\ at \in {"entryColon", "entryValue"} => id # 0

\* What comes next is typed, and so is what is left.
LEMMA ComesTyped ==
    ASSUME DocTypes, NEW u \in Units \cup Range(ahead), Read(u)
    PROVE  u \in TypedUnits /\ ahead' \in Seq(TypedUnits) /\ doc' \in Seq(TypedUnits)
<1>1. ahead \in Seq(TypedUnits) /\ doc \in Seq(TypedUnits)
  BY DEF DocTypes
<1>2. u \in TypedUnits
  <2>1. Range(ahead) \subseteq TypedUnits
    BY <1>1 DEF Range
  <2> QED
    BY <2>1, UnitsAreTyped
<1>3. ahead' \in Seq(TypedUnits)
  <2>1. ahead' = ahead \/ (ahead # <<>> /\ ahead' = Tail(ahead))
    BY DEF Read, Comes
  <2> QED
    BY <1>1, <2>1, HeadTailProperties
<1>4. doc' \in Seq(TypedUnits)
  BY <1>1, <1>2 DEF Read
<1> QED
  BY <1>2, <1>3, <1>4

\* Where keys are taken.
LEMMA KeyPlaces ==
    ASSUME at \in Places, NEW u, Accepts(u)
    PROVE  /\ Goes(u) = "value" => at = "colon"
           /\ Goes(u) = "colon" => at = "key" /\ u.kind # "}"
           /\ at = "key" /\ u.kind # "}" => u.kind \in {"version", "opt_out_steam_ids"}
           /\ Goes(u) # "line"
<1>1. u.kind \in Takes[at]
  BY DEF Accepts
<1>2. CASE at = "start"
  BY <1>1, <1>2 DEF Takes, Goes, Places
<1>3. CASE at = "key"
  BY <1>1, <1>3 DEF Takes, Goes, Places
<1>4. CASE at = "colon"
  BY <1>1, <1>4 DEF Takes, Goes, Places
<1>5. CASE at = "value"
  BY <1>1, <1>5 DEF Takes, Goes, Places
<1>6. CASE at = "pairEnd"
  BY <1>1, <1>6 DEF Takes, Goes, Places
<1>7. CASE at = "entry"
  BY <1>1, <1>7 DEF Takes, Goes, Places
<1>8. CASE at = "entryColon"
  BY <1>1, <1>8 DEF Takes, Goes, Places
<1>9. CASE at = "entryValue"
  BY <1>1, <1>9 DEF Takes, Goes, Places
<1>10. CASE at = "entryEnd"
  BY <1>1, <1>10 DEF Takes, Goes, Places
<1>11. CASE at = "tail"
  BY <1>1, <1>11 DEF Takes
<1> QED
  BY <1>2, <1>3, <1>4, <1>5, <1>6, <1>7, <1>8, <1>9, <1>10, <1>11 DEF Places

LEMMA ReadKeepsTypes ==
    ASSUME DocTypes, NEW u \in Units \cup Range(ahead), Read(u)
    PROVE  DocTypes'
<1>1. u \in TypedUnits /\ ahead' \in Seq(TypedUnits) /\ doc' \in Seq(TypedUnits)
  BY ComesTyped
<1>2. at \in Places /\ reader = "jsonc"
  BY DEF Read, Reading, DocTypes
<1>3. /\ reader' = reader /\ written' = written /\ out' = out
  BY DEF Read
<1>4. CASE UNCHANGED scanVars /\ at' \in {at, "rejected"}
  BY <1>1, <1>2, <1>3, <1>4 DEF DocTypes, scanVars, Verdicts
<1>5. CASE Accepts(u) /\ at' = Goes(u) /\ Notes(u)
  <2>1. /\ Goes(u) \in Places
        /\ u.kind = "true" => at = "entryValue"
        /\ Goes(u) = "entryColon" => u.kind = "quoted"
        /\ Goes(u) = "entryValue" => at = "entryColon" /\ u.kind = ":"
    BY <1>2, <1>5, EntryPlaces
  <2>2. /\ Goes(u) = "value" => at = "colon"
        /\ Goes(u) = "colon" => at = "key" /\ u.kind # "}"
        /\ at = "key" /\ u.kind # "}" => u.kind \in {"version", "opt_out_steam_ids"}
        /\ Goes(u) # "line"
    BY <1>2, <1>5, KeyPlaces
  <2>3. u.kind = "quoted" => ParseDecimalUll(u.text) \in 1..MaxId
    <3>1. u.text \in Seq(Characters)
      BY <1>1 DEF TypedUnits
    <3>2. ParseDecimalUll(u.text) \in 0..MaxId
      BY <3>1, ParsesTheNumber
    <3>3. u.kind = "quoted" => ParseDecimalUll(u.text) # 0
      BY <1>5 DEF Accepts, IdIsNew
    <3> QED
      BY <3>2, <3>3, WidthIsNumber
  <2>4. /\ key' \in {"", "version", "opt_out_steam_ids"}
        /\ at' \in {"colon", "value"} => key' # ""
    <3>1. CASE at = "key" /\ u.kind # "}"
      BY <1>5, <2>2, <3>1 DEF Notes
    <3>2. CASE ~(at = "key" /\ u.kind # "}")
      <4>1. key' = key /\ at' # "colon" /\ (at' = "value" => at = "colon")
        BY <1>5, <2>2, <3>2 DEF Notes
      <4> QED
        BY <4>1 DEF DocTypes
    <3> QED
      BY <3>1, <3>2
  <2>5. keys' \subseteq {"version", "opt_out_steam_ids"}
    BY <1>5 DEF Notes, DocTypes
  <2>6. /\ id' \in 0..MaxId /\ seenIds' \subseteq 1..MaxId
        /\ at' \in {"entryColon", "entryValue"} => id' # 0
    <3>1. CASE u.kind = "quoted"
      <4>1. id' = ParseDecimalUll(u.text) /\ seenIds' = seenIds \cup {id'}
        BY <1>5, <3>1 DEF Notes
      <4>2. id' \in 1..MaxId
        BY <2>3, <3>1, <4>1
      <4>3. id' \in 0..MaxId /\ id' # 0
        BY <4>2
      <4> QED
        BY <4>1, <4>2, <4>3 DEF DocTypes
    <3>2. CASE u.kind # "quoted"
      BY <1>5, <2>1, <3>2 DEF Notes, DocTypes
    <3> QED
      BY <3>1, <3>2
  <2>7. parsed' \subseteq 1..MaxId
    <3>1. CASE u.kind = "true"
      <4>2. id \in 0..MaxId /\ id # 0
        BY <2>1, <3>1 DEF DocTypes
      <4>1. id \in 1..MaxId
        BY <4>2, WidthIsNumber
      <4> QED
        BY <1>5, <3>1, <4>1 DEF Notes, DocTypes
    <3>2. CASE u.kind # "true"
      BY <1>5, <3>2 DEF Notes, DocTypes
    <3> QED
      BY <3>1, <3>2
  <2> QED
    BY <1>1, <1>2, <1>3, <1>5, <2>1, <2>2, <2>4, <2>5, <2>6, <2>7 DEF DocTypes
<1> QED
  BY <1>4, <1>5 DEF Read

LEMMA ParsedIsTyped ==
    ASSUME DocTypes
    PROVE  parsed \subseteq 0..MaxId
<1>1. parsed \subseteq 1..MaxId
  BY DEF DocTypes
<1>2. 1..MaxId \subseteq 0..MaxId
  BY WidthIsNumber
<1> QED
  BY <1>1, <1>2

\* A document of any length, an operator's or the plugin's, keeps its types while
\* it is read, and no ID that is kept is outside the width or zero.
THEOREM DocTypeCorrect == DocSpec => []DocTypeOK
<1>1. DocInit => DocTypes
  <2> SUFFICES ASSUME DocInit PROVE DocTypes
    OBVIOUS
  <2>1. ahead \in Seq(TypedUnits) /\ written \in {NotWritten} \cup SUBSET (1..MaxId)
    <3>1. WrittenSets \subseteq SUBSET (1..MaxId)
      BY NumbersAssumption
    <3>2. \/ written = NotWritten /\ ahead = <<>>
          \/ written \in WrittenSets /\ ahead = Written(written)
      BY DEF DocInit
    <3>3. <<>> \in Seq(TypedUnits)
      OBVIOUS
    <3>4. CASE written = NotWritten /\ ahead = <<>>
      BY <3>3, <3>4, Zenon
    <3>5. CASE written \in WrittenSets /\ ahead = Written(written)
      <4>1. written \in SUBSET (1..MaxId)
        BY <3>1, <3>5, Zenon
      <4> QED
        BY <3>5, <4>1, WrittenIsTyped
    <3> QED
      BY <3>2, <3>4, <3>5
  <2>2. doc \in Seq(TypedUnits)
    <3>1. doc = <<>>
      BY DEF DocInit, ScanInit
    <3>2. <<>> \in Seq(TypedUnits)
      OBVIOUS
    <3> QED
      BY <3>1, <3>2
  <2>3. 0 \in 0..MaxId
    BY WidthIsNumber
  <2> QED
    BY <2>1, <2>2, <2>3 DEF DocInit, ScanInit, DocTypes, Places, Verdicts, Before
<1>2. DocTypes /\ [DocNext]_docVars => DocTypes'
  <2> SUFFICES ASSUME DocTypes, [DocNext]_docVars PROVE DocTypes'
    OBVIOUS
  <2>1. CASE UNCHANGED docVars
    BY <2>1 DEF docVars, scanVars, DocTypes
  <2>2. ASSUME NEW u \in Units \cup Range(ahead), Read(u)
        PROVE  DocTypes'
    BY <2>2, ReadKeepsTypes
  <2>3. CASE EndOfDocument
    <3>1. parsed \subseteq 0..MaxId
      BY ParsedIsTyped
    <3> QED
      BY <2>3, <3>1 DEF EndOfDocument, Reading, DocTypes, scanVars, Verdicts
  <2>4. ASSUME NEW text \in Lines, ReadLine(text)
        PROVE  DocTypes'
    <3>1. Quoted(text) \in TypedUnits
      BY UnitsAreTyped
    <3>2. doc' \in Seq(TypedUnits)
      <4>1. doc \in Seq(TypedUnits) /\ doc' = Append(doc, Quoted(text))
        BY <2>4 DEF ReadLine, DocTypes
      <4> QED
        BY <3>1, <4>1
    <3>3. parsed' \subseteq 1..MaxId
      <4>1. text \in Seq(Characters)
        BY NumbersAssumption DEF Characters
      <4>2. ParseDecimalUll(text) \in 0..MaxId
        BY <4>1, ParsesTheNumber
      <4>3. ParseDecimalUll(text) # 0 => ParseDecimalUll(text) \in 1..MaxId
        BY <4>2, WidthIsNumber
      <4> QED
        BY <2>4, <4>3 DEF ReadLine, LineIsNew, DocTypes
    <3>4. at' \in {"line", "rejected"} /\ reader = "legacy"
      BY <2>4 DEF ReadLine
    <3> QED
      BY <2>4, <3>2, <3>3, <3>4 DEF ReadLine, DocTypes, Verdicts
  <2>5. ASSUME NEW readOk \in BOOLEAN, EndOfLines(readOk)
        PROVE  DocTypes'
    <3>1. parsed \subseteq 0..MaxId
      BY ParsedIsTyped
    <3> QED
      BY <2>5, <3>1 DEF EndOfLines, DocTypes, scanVars, Verdicts
  <2> QED
    BY <2>1, <2>2, <2>3, <2>4, <2>5 DEF DocNext
<1>3. DocTypes => DocTypeOK
  <2> SUFFICES ASSUME DocTypes PROVE DocTypeOK
    OBVIOUS
  <2>1. Range(ahead) \cup Range(doc) \subseteq
           [kind : Marks \cup {"quoted"}, text : Seq(0..9 \cup {Other})]
    <3>1. ahead \in Seq(TypedUnits) /\ doc \in Seq(TypedUnits)
      BY DEF DocTypes
    <3>2. Range(ahead) \subseteq TypedUnits /\ Range(doc) \subseteq TypedUnits
      BY <3>1 DEF Range
    <3> QED
      BY <3>2 DEF TypedUnits, Characters
  <2>2. DOMAIN Takes = Places
    BY DEF Takes, Places
  <2> QED
    BY <2>1, <2>2 DEF DocTypes, DocTypeOK
<1> QED
  BY <1>1, <1>2, <1>3, PTL DEF DocSpec

-----------------------------------------------------------------------------
(* Reading back what was written *)

\* What is left of a part from its n-th unit on, and the rest behind it.
Left(part, n, rest) == SubSeq(part, n, Len(part)) \o rest

LEMMA LeftTaken ==
    ASSUME NEW T, NEW part \in Seq(T), NEW rest \in Seq(T), NEW n \in 1..Len(part)
    PROVE  /\ Left(part, n, rest) # <<>>
           /\ Head(Left(part, n, rest)) = part[n]
           /\ Tail(Left(part, n, rest)) = Left(part, n + 1, rest)
<1> DEFINE m == Len(part)
           s == SubSeq(part, n, m)
           t == SubSeq(part, n + 1, m)
<1>1. m \in Nat /\ n \in Nat /\ 1 <= n /\ n <= m /\ Len(rest) \in Nat
  OBVIOUS
<1>2. /\ s \in Seq(T) /\ Len(s) = m - n + 1
      /\ \A i \in 1..(m - n + 1) : s[i] = part[n + i - 1]
  BY SubSeqProperties
<1>3. /\ t \in Seq(T) /\ Len(t) = m - n
      /\ \A i \in 1..(m - n) : t[i] = part[n + i]
  <2>1. \A i \in (n + 1)..m : i \in DOMAIN part /\ part[i] \in T
    BY <1>1
  <2>2. /\ t \in Seq(T)
        /\ Len(t) = IF n + 1 <= m THEN m - (n + 1) + 1 ELSE 0
        /\ \A i \in 1..(m - (n + 1) + 1) : t[i] = part[(n + 1) + i - 1]
    BY <1>1, <2>1, SubSeqProperties
  <2> QED
    BY <1>1, <2>2
<1> HIDE DEF s, t, m
<1>11. /\ s \o rest \in Seq(T) /\ Len(s \o rest) = Len(s) + Len(rest)
       /\ \A i \in 1..(Len(s) + Len(rest)) :
             (s \o rest)[i] = IF i <= Len(s) THEN s[i] ELSE rest[i - Len(s)]
  BY <1>2, ConcatProperties, Zenon
<1>12. /\ t \o rest \in Seq(T) /\ Len(t \o rest) = Len(t) + Len(rest)
       /\ \A i \in 1..(Len(t) + Len(rest)) :
             (t \o rest)[i] = IF i <= Len(t) THEN t[i] ELSE rest[i - Len(t)]
  BY <1>3, ConcatProperties, Zenon
<1>4. /\ s \o rest \in Seq(T) /\ Len(s \o rest) = m - n + 1 + Len(rest)
      /\ \A i \in 1..(m - n + 1 + Len(rest)) :
            (s \o rest)[i] = IF i <= m - n + 1 THEN s[i] ELSE rest[i - (m - n + 1)]
  <2>1. Len(s) = m - n + 1
    BY <1>2
  <2> QED
    BY <1>11, <2>1, Zenon
<1>5. /\ t \o rest \in Seq(T) /\ Len(t \o rest) = m - n + Len(rest)
      /\ \A i \in 1..(m - n + Len(rest)) :
            (t \o rest)[i] = IF i <= m - n THEN t[i] ELSE rest[i - (m - n)]
  <2>1. Len(t) = m - n
    BY <1>3
  <2> QED
    BY <1>12, <2>1, Zenon
<1>6. s \o rest # <<>> /\ 1 \in 1..(m - n + 1 + Len(rest)) /\ 1 \in 1..(m - n + 1)
  BY <1>1, <1>4
<1>7. Head(s \o rest) = part[n]
  BY <1>1, <1>2, <1>4, <1>6
<1>8. /\ Tail(s \o rest) \in Seq(T) /\ Len(Tail(s \o rest)) = m - n + Len(rest)
      /\ \A i \in 1..(m - n + Len(rest)) : Tail(s \o rest)[i] = (s \o rest)[i + 1]
  <2>1. /\ Tail(s \o rest) \in Seq(T) /\ Len(Tail(s \o rest)) = Len(s \o rest) - 1
        /\ \A i \in 1..(Len(s \o rest) - 1) : Tail(s \o rest)[i] = (s \o rest)[i + 1]
    BY <1>4, <1>6, HeadTailProperties, Zenon
  <2>2. Len(s \o rest) - 1 = m - n + Len(rest)
    BY <1>1, <1>4
  <2> QED
    BY <2>1, <2>2, Zenon
<1>9. ASSUME NEW i \in 1..(m - n + Len(rest))
      PROVE  Tail(s \o rest)[i] = (t \o rest)[i]
  <2>1. i + 1 \in 1..(m - n + 1 + Len(rest)) /\ (i + 1) - (m - n + 1) = i - (m - n)
    BY <1>1
  <2>2. CASE i <= m - n
    <3>1. i \in 1..(m - n) /\ i + 1 \in 1..(m - n + 1) /\ i + 1 <= m - n + 1 /\ n + (i + 1) - 1 = n + i
      BY <1>1, <2>2
    <3>2. Tail(s \o rest)[i] = s[i + 1] /\ (t \o rest)[i] = t[i]
      BY <1>4, <1>5, <1>8, <2>1, <2>2, <3>1
    <3>3. s[i + 1] = part[n + (i + 1) - 1] /\ t[i] = part[n + i]
      BY <1>2, <1>3, <3>1, Zenon
    <3> QED
      BY <3>1, <3>2, <3>3
  <2>3. CASE ~(i <= m - n)
    <3>1. ~(i + 1 <= m - n + 1)
      BY <1>1, <2>3
    <3> QED
      BY <1>4, <1>5, <1>8, <2>1, <2>3, <3>1
  <2> QED
    BY <2>2, <2>3
<1>10. Tail(s \o rest) = t \o rest
  BY <1>5, <1>8, <1>9, SeqEqual
<1> QED
  BY <1>6, <1>7, <1>10 DEF Left, s, t, m

LEMMA LeftAll ==
    ASSUME NEW T, NEW part \in Seq(T), NEW rest \in Seq(T)
    PROVE  /\ Left(part, 1, rest) = part \o rest
           /\ Left(part, Len(part) + 1, rest) = rest
<1>1. SubSeq(part, 1, Len(part)) = part
  BY SubSeqFull
<1>2. SubSeq(part, Len(part) + 1, Len(part)) = <<>>
  BY SubSeqEmpty
<1> QED
  BY <1>1, <1>2, ConcatEmptySeq DEF Left

OneKey == {"version"}
BothKeys == {"version", "opt_out_steam_ids"}

\* The IDs up to one, and those below it.
UpTo(ids, v) == {w \in ids : w <= v}
Below(ids, v) == {w \in ids : w < v}

\* The parser is before the n-th unit of the opening, of an entry or of the closing.
OpensAt(ids, n, place, k, ks) ==
    /\ ahead = Left(Opening, n, Behind(ids)[0])
    /\ at = place /\ key = k /\ keys = ks /\ seenIds = {} /\ parsed = {}

EntryOf(ids, v) == Entry(v, Later(ids, v) = {})

EntersAt(ids, v, n, place, seen, got) ==
    /\ ahead = Left(EntryOf(ids, v), n, Behind(ids)[v])
    /\ at = place /\ keys = BothKeys /\ seenIds = seen /\ parsed = got
    /\ n \in 2..4 => id = v

Nothing == <<>>

ClosesAt(ids, n, place) ==
    /\ ahead = Left(Closing, n, Nothing)
    /\ at = place /\ keys = BothKeys /\ parsed = ids

InOpening(ids) ==
    \/ OpensAt(ids, 1, "start", "", {})
    \/ OpensAt(ids, 2, "key", "", {})
    \/ OpensAt(ids, 3, "key", "", {})
    \/ OpensAt(ids, 4, "colon", "version", {})
    \/ OpensAt(ids, 5, "value", "version", {})
    \/ OpensAt(ids, 6, "value", "version", {})
    \/ OpensAt(ids, 7, "pairEnd", "version", OneKey)
    \/ OpensAt(ids, 8, "key", "version", OneKey)
    \/ OpensAt(ids, 9, "key", "version", OneKey)
    \/ OpensAt(ids, 10, "colon", "opt_out_steam_ids", OneKey)
    \/ OpensAt(ids, 11, "value", "opt_out_steam_ids", OneKey)
    \/ OpensAt(ids, 12, "value", "opt_out_steam_ids", OneKey)
    \/ OpensAt(ids, 13, "entry", "opt_out_steam_ids", BothKeys)

InEntry(ids, v) ==
    \/ EntersAt(ids, v, 1, "entry", Below(ids, v), Below(ids, v))
    \/ EntersAt(ids, v, 2, "entryColon", UpTo(ids, v), Below(ids, v))
    \/ EntersAt(ids, v, 3, "entryValue", UpTo(ids, v), Below(ids, v))
    \/ EntersAt(ids, v, 4, "entryValue", UpTo(ids, v), Below(ids, v))
    \/ EntersAt(ids, v, 5, "entryEnd", UpTo(ids, v), UpTo(ids, v))
    \/ /\ Later(ids, v) # {}
       /\ EntersAt(ids, v, 6, "entry", UpTo(ids, v), UpTo(ids, v))

InClosing(ids) ==
    \/ ClosesAt(ids, 1, "entry")
    \/ ClosesAt(ids, 1, "entryEnd")
    \/ ClosesAt(ids, 2, "pairEnd")
    \/ ClosesAt(ids, 3, "pairEnd")
    \/ ClosesAt(ids, 4, "tail")
    \/ ClosesAt(ids, 5, "tail")

Stage(ids) == InOpening(ids) \/ (\E v \in ids : InEntry(ids, v)) \/ InClosing(ids)

WrittenInv ==
    written # NotWritten =>
        /\ reader = "jsonc"
        /\ written \subseteq 1..MaxId
        /\ \/ Stage(written)
           \/ at = "accepted" /\ out = written

-----------------------------------------------------------------------------
(* What a unit of the document does *)

LEMMA GapRead ==
    ASSUME NEW u, Read(u), ahead # <<>>, u.kind = "gap"
    PROVE  /\ ahead' = Tail(ahead) /\ at' = at
           /\ key' = key /\ keys' = keys /\ id' = id /\ seenIds' = seenIds /\ parsed' = parsed
BY DEF Read, Comes, scanVars

LEMMA MarkRead ==
    ASSUME NEW u, Read(u), ahead # <<>>, u.kind # "gap", u.kind # "quoted",
           u.kind \in Takes[at], at = "value" => key \notin keys
    PROVE  /\ ahead' = Tail(ahead) /\ at' = Goes(u)
           /\ key' = IF at = "key" /\ u.kind # "}" THEN u.kind ELSE key
           /\ keys' = IF at = "value" THEN keys \cup {key} ELSE keys
           /\ id' = id /\ seenIds' = seenIds
           /\ parsed' = IF u.kind = "true" THEN parsed \cup {id} ELSE parsed
<1>1. Accepts(u)
  BY DEF Accepts, KeyIsNew
<1>2. at' = Goes(u) /\ Notes(u)
  BY <1>1 DEF Read
<1> QED
  BY <1>2 DEF Notes, Read, Comes

LEMMA IdRead ==
    ASSUME NEW u, Read(u), ahead # <<>>, u.kind = "quoted", at = "entry",
           ParseDecimalUll(u.text) \notin seenIds \cup {0}
    PROVE  /\ ahead' = Tail(ahead) /\ at' = "entryColon" /\ keys' = keys
           /\ id' = ParseDecimalUll(u.text)
           /\ seenIds' = seenIds \cup {ParseDecimalUll(u.text)}
           /\ parsed' = parsed
<1>1. Accepts(u)
  BY DEF Accepts, IdIsNew, Takes
<1>2. at' = Goes(u) /\ Notes(u)
  BY <1>1 DEF Read
<1>3. Goes(u) = "entryColon"
  BY DEF Goes
<1> QED
  BY <1>2, <1>3 DEF Notes, Read, Comes

\* Where a mark leads.
LEMMA Moves ==
    ASSUME NEW u
    PROVE  /\ at = "start" /\ u.kind = "{" => u.kind \in Takes[at] /\ Goes(u) = "key"
           /\ at = "key" /\ u.kind \in BothKeys => u.kind \in Takes[at] /\ Goes(u) = "colon"
           /\ at = "colon" /\ u.kind = ":" => u.kind \in Takes[at] /\ Goes(u) = "value"
           /\ at = "value" /\ key = "version" /\ u.kind = "1" =>
                 u.kind \in Takes[at] /\ Goes(u) = "pairEnd"
           /\ at = "value" /\ key # "version" /\ u.kind = "{" =>
                 u.kind \in Takes[at] /\ Goes(u) = "entry"
           /\ at = "pairEnd" /\ u.kind = "," => u.kind \in Takes[at] /\ Goes(u) = "key"
           /\ at = "entryColon" /\ u.kind = ":" =>
                 u.kind \in Takes[at] /\ Goes(u) = "entryValue"
           /\ at = "entryValue" /\ u.kind = "true" =>
                 u.kind \in Takes[at] /\ Goes(u) = "entryEnd"
           /\ at = "entryEnd" /\ u.kind = "," => u.kind \in Takes[at] /\ Goes(u) = "entry"
           /\ at \in {"entry", "entryEnd"} /\ u.kind = "}" =>
                 u.kind \in Takes[at] /\ Goes(u) = "pairEnd"
           /\ at = "pairEnd" /\ u.kind = "}" => u.kind \in Takes[at] /\ Goes(u) = "tail"
<1>1. ASSUME at = "start", u.kind = "{"
      PROVE  u.kind \in Takes[at] /\ Goes(u) = "key"
  <2>1. u.kind \in Takes[at]
    BY <1>1 DEF Takes
  <2>2. Goes(u) = "key"
    BY <1>1 DEF Goes
  <2> QED
    BY <2>1, <2>2
<1>2. ASSUME at = "key", u.kind \in BothKeys
      PROVE  u.kind \in Takes[at] /\ Goes(u) = "colon"
  <2>1. u.kind \in Takes[at]
    BY <1>2 DEF Takes, BothKeys
  <2>2. Goes(u) = "colon"
    BY <1>2 DEF Goes, BothKeys
  <2> QED
    BY <2>1, <2>2
<1>3. ASSUME at = "colon", u.kind = ":"
      PROVE  u.kind \in Takes[at] /\ Goes(u) = "value"
  <2>1. u.kind \in Takes[at]
    BY <1>3 DEF Takes
  <2>2. Goes(u) = "value"
    BY <1>3 DEF Goes
  <2> QED
    BY <2>1, <2>2
<1>4. ASSUME at = "value" /\ key = "version", u.kind = "1"
      PROVE  u.kind \in Takes[at] /\ Goes(u) = "pairEnd"
  <2>1. u.kind \in Takes[at]
    BY <1>4 DEF Takes
  <2>2. Goes(u) = "pairEnd"
    BY <1>4 DEF Goes
  <2> QED
    BY <2>1, <2>2
<1>5. ASSUME at = "value" /\ key # "version", u.kind = "{"
      PROVE  u.kind \in Takes[at] /\ Goes(u) = "entry"
  <2>1. u.kind \in Takes[at]
    BY <1>5 DEF Takes
  <2>2. Goes(u) = "entry"
    BY <1>5 DEF Goes
  <2> QED
    BY <2>1, <2>2
<1>6. ASSUME at = "pairEnd", u.kind = ","
      PROVE  u.kind \in Takes[at] /\ Goes(u) = "key"
  <2>1. u.kind \in Takes[at]
    BY <1>6 DEF Takes
  <2>2. Goes(u) = "key"
    BY <1>6 DEF Goes
  <2> QED
    BY <2>1, <2>2
<1>7. ASSUME at = "entryColon", u.kind = ":"
      PROVE  u.kind \in Takes[at] /\ Goes(u) = "entryValue"
  <2>1. u.kind \in Takes[at]
    BY <1>7 DEF Takes
  <2>2. Goes(u) = "entryValue"
    BY <1>7 DEF Goes
  <2> QED
    BY <2>1, <2>2
<1>8. ASSUME at = "entryValue", u.kind = "true"
      PROVE  u.kind \in Takes[at] /\ Goes(u) = "entryEnd"
  <2>1. u.kind \in Takes[at]
    BY <1>8 DEF Takes
  <2>2. Goes(u) = "entryEnd"
    BY <1>8 DEF Goes
  <2> QED
    BY <2>1, <2>2
<1>9. ASSUME at = "entryEnd", u.kind = ","
      PROVE  u.kind \in Takes[at] /\ Goes(u) = "entry"
  <2>1. u.kind \in Takes[at]
    BY <1>9 DEF Takes
  <2>2. Goes(u) = "entry"
    BY <1>9 DEF Goes
  <2> QED
    BY <2>1, <2>2
<1>10. ASSUME at \in {"entry", "entryEnd"}, u.kind = "}"
      PROVE  u.kind \in Takes[at] /\ Goes(u) = "pairEnd"
  <2>1. u.kind \in Takes[at]
    <3>1. CASE at = "entry"
      BY <1>10, <3>1 DEF Takes
    <3>2. CASE at = "entryEnd"
      BY <1>10, <3>2 DEF Takes
    <3> QED
      BY <1>10, <3>1, <3>2
  <2>2. Goes(u) = "pairEnd"
    BY <1>10 DEF Goes
  <2> QED
    BY <2>1, <2>2
<1>11. ASSUME at = "pairEnd", u.kind = "}"
      PROVE  u.kind \in Takes[at] /\ Goes(u) = "tail"
  <2>1. u.kind \in Takes[at]
    BY <1>11 DEF Takes
  <2>2. Goes(u) = "tail"
    BY <1>11 DEF Goes
  <2> QED
    BY <2>1, <2>2
<1> QED
  BY <1>1, <1>2, <1>3, <1>4, <1>5, <1>6, <1>7, <1>8, <1>9, <1>10, <1>11, ZenonT(60)

LEMMA UnitsByKind ==
    /\ \A m \in Marks : Unit(m).kind = m
    /\ Opening[1].kind = "{" /\ Opening[2].kind = "gap" /\ Opening[3].kind = "version"
    /\ Opening[4].kind = ":" /\ Opening[5].kind = "gap" /\ Opening[6].kind = "1"
    /\ Opening[7].kind = "," /\ Opening[8].kind = "gap"
    /\ Opening[9].kind = "opt_out_steam_ids" /\ Opening[10].kind = ":"
    /\ Opening[11].kind = "gap" /\ Opening[12].kind = "{" /\ Opening[13].kind = "gap"
    /\ Closing[1].kind = "}" /\ Closing[2].kind = "gap"
    /\ Closing[3].kind = "}" /\ Closing[4].kind = "gap"
<1>1. \A m : Unit(m).kind = m
  BY DEF Unit
<1>2. /\ Opening[1] = Unit("{") /\ Opening[2] = Unit("gap") /\ Opening[3] = Unit("version")
      /\ Opening[4] = Unit(":") /\ Opening[5] = Unit("gap") /\ Opening[6] = Unit("1")
      /\ Opening[7] = Unit(",") /\ Opening[8] = Unit("gap")
      /\ Opening[9] = Unit("opt_out_steam_ids") /\ Opening[10] = Unit(":")
      /\ Opening[11] = Unit("gap") /\ Opening[12] = Unit("{") /\ Opening[13] = Unit("gap")
  BY DEF Opening
<1>3. /\ Closing[1] = Unit("}") /\ Closing[2] = Unit("gap")
      /\ Closing[3] = Unit("}") /\ Closing[4] = Unit("gap")
  BY DEF Closing
<1> QED
  BY <1>1, <1>2, <1>3

\* A unit of the opening is taken.
LEMMA OpeningTaken ==
    ASSUME NEW ids, ids \subseteq 1..MaxId, NEW n \in 1..13,
           NEW p, NEW k, NEW ks, OpensAt(ids, n, p, k, ks), NEW u, Read(u)
    PROVE  /\ u = Opening[n]
           /\ ahead # <<>> /\ Tail(ahead) = Left(Opening, n + 1, Behind(ids)[0])
<1> DEFINE rest == Behind(ids)[0]
<1>1. Opening \in Seq(TypedUnits) /\ Len(Opening) = 13 /\ rest \in Seq(TypedUnits)
  <2>1. 0 \in 0..MaxId
    BY WidthIsNumber
  <2> QED
    BY <2>1, PartsAreTyped, BehindIsNext
<1>2. n \in 1..Len(Opening)
  BY <1>1
<1> HIDE DEF rest
<1>3. /\ Left(Opening, n, rest) # <<>> /\ Head(Left(Opening, n, rest)) = Opening[n]
      /\ Tail(Left(Opening, n, rest)) = Left(Opening, n + 1, rest)
  BY <1>1, <1>2, LeftTaken, Zenon
<1>4. ahead = Left(Opening, n, rest)
  BY DEF OpensAt, rest
<1>5. ahead # <<>> /\ u = Opening[n] /\ Tail(ahead) = Left(Opening, n + 1, rest)
  BY <1>3, <1>4 DEF Read, Comes
<1> QED
  BY <1>5 DEF rest

LEMMA OpeningGap ==
    ASSUME NEW ids, ids \subseteq 1..MaxId, NEW n \in 1..13,
           NEW p, NEW k, NEW ks, OpensAt(ids, n, p, k, ks), NEW u, Read(u),
           u.kind = "gap", NEW m, m = n + 1
    PROVE  OpensAt(ids, m, p, k, ks)'
<1>1. ahead # <<>> /\ Tail(ahead) = Left(Opening, m, Behind(ids)[0])
  BY OpeningTaken
<1>2. /\ ahead' = Tail(ahead) /\ at' = at /\ key' = key /\ keys' = keys
      /\ seenIds' = seenIds /\ parsed' = parsed
  BY <1>1, GapRead
<1> QED
  BY <1>1, <1>2 DEF OpensAt

LEMMA OpeningMark ==
    ASSUME NEW ids, ids \subseteq 1..MaxId, NEW n \in 1..13,
           NEW p, NEW k, NEW ks, OpensAt(ids, n, p, k, ks), NEW u, Read(u),
           u.kind \notin {"gap", "quoted", "true"}, u.kind \in Takes[at],
           at = "value" => key \notin keys,
           NEW m, m = n + 1, NEW q, q = Goes(u),
           NEW k2, k2 = IF p = "key" /\ u.kind # "}" THEN u.kind ELSE k,
           NEW ks2, ks2 = IF p = "value" THEN ks \cup {k} ELSE ks
    PROVE  OpensAt(ids, m, q, k2, ks2)'
<1>1. ahead # <<>> /\ Tail(ahead) = Left(Opening, m, Behind(ids)[0])
  BY OpeningTaken
<1>2. /\ ahead' = Tail(ahead) /\ at' = Goes(u)
      /\ key' = IF at = "key" /\ u.kind # "}" THEN u.kind ELSE key
      /\ keys' = IF at = "value" THEN keys \cup {key} ELSE keys
      /\ seenIds' = seenIds /\ parsed' = parsed
  BY <1>1, MarkRead
<1> QED
  BY <1>1, <1>2 DEF OpensAt

\* The opening leads to the first entry, or to the end.
LEMMA OpeningStep ==
    ASSUME NEW ids, ids \subseteq 1..MaxId, InOpening(ids), NEW u, Read(u)
    PROVE  InOpening(ids)' \/ OpensAt(ids, 14, "entry", "opt_out_steam_ids", BothKeys)'
<1>1. CASE OpensAt(ids, 1, "start", "", {})
  <2>1. 1 \in 1..13 /\ 1 + 1 = 2
    OBVIOUS
  <2>2. u = Opening[1]
    BY <1>1, <2>1, OpeningTaken, Zenon
  <2>3. /\ u.kind \notin {"gap", "quoted", "true"} /\ u.kind \in Takes[at]
        /\ Goes(u) = "key" /\ (at = "value" => key \notin keys)
    BY <1>1, <2>2, UnitsByKind, Moves DEF OpensAt, OneKey, BothKeys
  <2>4. /\ "" = IF "start" = "key" /\ u.kind # "}" THEN u.kind ELSE ""
        /\ {} = IF "start" = "value" THEN {} \cup {""} ELSE {}
    BY <2>2, UnitsByKind DEF OneKey, BothKeys
  <2>5. OpensAt(ids, 2, "key", "", {})'
    BY <1>1, <2>1, <2>3, <2>4, OpeningMark
  <2> QED
    BY <2>5 DEF InOpening
<1>2. CASE OpensAt(ids, 2, "key", "", {})
  <2>1. 2 \in 1..13 /\ 2 + 1 = 3
    OBVIOUS
  <2>2. u = Opening[2] /\ u.kind = "gap"
    <3>1. u = Opening[2]
      BY <1>2, <2>1, OpeningTaken, Zenon
    <3> QED
      BY <3>1, UnitsByKind
  <2>3. OpensAt(ids, 3, "key", "", {})'
    BY <1>2, <2>1, <2>2, OpeningGap
  <2> QED
    BY <2>3 DEF InOpening
<1>3. CASE OpensAt(ids, 3, "key", "", {})
  <2>1. 3 \in 1..13 /\ 3 + 1 = 4
    OBVIOUS
  <2>2. u = Opening[3]
    BY <1>3, <2>1, OpeningTaken, Zenon
  <2>3. /\ u.kind \notin {"gap", "quoted", "true"} /\ u.kind \in Takes[at]
        /\ Goes(u) = "colon" /\ (at = "value" => key \notin keys)
    BY <1>3, <2>2, UnitsByKind, Moves DEF OpensAt, OneKey, BothKeys
  <2>4. /\ "version" = IF "key" = "key" /\ u.kind # "}" THEN u.kind ELSE ""
        /\ {} = IF "key" = "value" THEN {} \cup {""} ELSE {}
    BY <2>2, UnitsByKind DEF OneKey, BothKeys
  <2>5. OpensAt(ids, 4, "colon", "version", {})'
    BY <1>3, <2>1, <2>3, <2>4, OpeningMark
  <2> QED
    BY <2>5 DEF InOpening
<1>4. CASE OpensAt(ids, 4, "colon", "version", {})
  <2>1. 4 \in 1..13 /\ 4 + 1 = 5
    OBVIOUS
  <2>2. u = Opening[4]
    BY <1>4, <2>1, OpeningTaken, Zenon
  <2>3. /\ u.kind \notin {"gap", "quoted", "true"} /\ u.kind \in Takes[at]
        /\ Goes(u) = "value" /\ (at = "value" => key \notin keys)
    BY <1>4, <2>2, UnitsByKind, Moves DEF OpensAt, OneKey, BothKeys
  <2>4. /\ "version" = IF "colon" = "key" /\ u.kind # "}" THEN u.kind ELSE "version"
        /\ {} = IF "colon" = "value" THEN {} \cup {"version"} ELSE {}
    BY <2>2, UnitsByKind DEF OneKey, BothKeys
  <2>5. OpensAt(ids, 5, "value", "version", {})'
    BY <1>4, <2>1, <2>3, <2>4, OpeningMark
  <2> QED
    BY <2>5 DEF InOpening
<1>5. CASE OpensAt(ids, 5, "value", "version", {})
  <2>1. 5 \in 1..13 /\ 5 + 1 = 6
    OBVIOUS
  <2>2. u = Opening[5] /\ u.kind = "gap"
    <3>1. u = Opening[5]
      BY <1>5, <2>1, OpeningTaken, Zenon
    <3> QED
      BY <3>1, UnitsByKind
  <2>3. OpensAt(ids, 6, "value", "version", {})'
    BY <1>5, <2>1, <2>2, OpeningGap
  <2> QED
    BY <2>3 DEF InOpening
<1>6. CASE OpensAt(ids, 6, "value", "version", {})
  <2>1. 6 \in 1..13 /\ 6 + 1 = 7
    OBVIOUS
  <2>2. u = Opening[6]
    BY <1>6, <2>1, OpeningTaken, Zenon
  <2>3. /\ u.kind \notin {"gap", "quoted", "true"} /\ u.kind \in Takes[at]
        /\ Goes(u) = "pairEnd" /\ (at = "value" => key \notin keys)
    BY <1>6, <2>2, UnitsByKind, Moves DEF OpensAt, OneKey, BothKeys
  <2>4. /\ "version" = IF "value" = "key" /\ u.kind # "}" THEN u.kind ELSE "version"
        /\ OneKey = IF "value" = "value" THEN {} \cup {"version"} ELSE {}
    BY <2>2, UnitsByKind DEF OneKey, BothKeys
  <2>5. OpensAt(ids, 7, "pairEnd", "version", OneKey)'
    BY <1>6, <2>1, <2>3, <2>4, OpeningMark
  <2> QED
    BY <2>5 DEF InOpening
<1>7. CASE OpensAt(ids, 7, "pairEnd", "version", OneKey)
  <2>1. 7 \in 1..13 /\ 7 + 1 = 8
    OBVIOUS
  <2>2. u = Opening[7]
    BY <1>7, <2>1, OpeningTaken, Zenon
  <2>3. /\ u.kind \notin {"gap", "quoted", "true"} /\ u.kind \in Takes[at]
        /\ Goes(u) = "key" /\ (at = "value" => key \notin keys)
    BY <1>7, <2>2, UnitsByKind, Moves DEF OpensAt, OneKey, BothKeys
  <2>4. /\ "version" = IF "pairEnd" = "key" /\ u.kind # "}" THEN u.kind ELSE "version"
        /\ OneKey = IF "pairEnd" = "value" THEN OneKey \cup {"version"} ELSE OneKey
    BY <2>2, UnitsByKind DEF OneKey, BothKeys
  <2>5. OpensAt(ids, 8, "key", "version", OneKey)'
    BY <1>7, <2>1, <2>3, <2>4, OpeningMark
  <2> QED
    BY <2>5 DEF InOpening
<1>8. CASE OpensAt(ids, 8, "key", "version", OneKey)
  <2>1. 8 \in 1..13 /\ 8 + 1 = 9
    OBVIOUS
  <2>2. u = Opening[8] /\ u.kind = "gap"
    <3>1. u = Opening[8]
      BY <1>8, <2>1, OpeningTaken, Zenon
    <3> QED
      BY <3>1, UnitsByKind
  <2>3. OpensAt(ids, 9, "key", "version", OneKey)'
    BY <1>8, <2>1, <2>2, OpeningGap
  <2> QED
    BY <2>3 DEF InOpening
<1>9. CASE OpensAt(ids, 9, "key", "version", OneKey)
  <2>1. 9 \in 1..13 /\ 9 + 1 = 10
    OBVIOUS
  <2>2. u = Opening[9]
    BY <1>9, <2>1, OpeningTaken, Zenon
  <2>3. /\ u.kind \notin {"gap", "quoted", "true"} /\ u.kind \in Takes[at]
        /\ Goes(u) = "colon" /\ (at = "value" => key \notin keys)
    BY <1>9, <2>2, UnitsByKind, Moves DEF OpensAt, OneKey, BothKeys
  <2>4. /\ "opt_out_steam_ids" = IF "key" = "key" /\ u.kind # "}" THEN u.kind ELSE "version"
        /\ OneKey = IF "key" = "value" THEN OneKey \cup {"version"} ELSE OneKey
    BY <2>2, UnitsByKind DEF OneKey, BothKeys
  <2>5. OpensAt(ids, 10, "colon", "opt_out_steam_ids", OneKey)'
    BY <1>9, <2>1, <2>3, <2>4, OpeningMark
  <2> QED
    BY <2>5 DEF InOpening
<1>10. CASE OpensAt(ids, 10, "colon", "opt_out_steam_ids", OneKey)
  <2>1. 10 \in 1..13 /\ 10 + 1 = 11
    OBVIOUS
  <2>2. u = Opening[10]
    BY <1>10, <2>1, OpeningTaken, Zenon
  <2>3. /\ u.kind \notin {"gap", "quoted", "true"} /\ u.kind \in Takes[at]
        /\ Goes(u) = "value" /\ (at = "value" => key \notin keys)
    BY <1>10, <2>2, UnitsByKind, Moves DEF OpensAt, OneKey, BothKeys
  <2>4. /\ "opt_out_steam_ids" = IF "colon" = "key" /\ u.kind # "}" THEN u.kind ELSE "opt_out_steam_ids"
        /\ OneKey = IF "colon" = "value" THEN OneKey \cup {"opt_out_steam_ids"} ELSE OneKey
    BY <2>2, UnitsByKind DEF OneKey, BothKeys
  <2>5. OpensAt(ids, 11, "value", "opt_out_steam_ids", OneKey)'
    BY <1>10, <2>1, <2>3, <2>4, OpeningMark
  <2> QED
    BY <2>5 DEF InOpening
<1>11. CASE OpensAt(ids, 11, "value", "opt_out_steam_ids", OneKey)
  <2>1. 11 \in 1..13 /\ 11 + 1 = 12
    OBVIOUS
  <2>2. u = Opening[11] /\ u.kind = "gap"
    <3>1. u = Opening[11]
      BY <1>11, <2>1, OpeningTaken, Zenon
    <3> QED
      BY <3>1, UnitsByKind
  <2>3. OpensAt(ids, 12, "value", "opt_out_steam_ids", OneKey)'
    BY <1>11, <2>1, <2>2, OpeningGap
  <2> QED
    BY <2>3 DEF InOpening
<1>12. CASE OpensAt(ids, 12, "value", "opt_out_steam_ids", OneKey)
  <2>1. 12 \in 1..13 /\ 12 + 1 = 13
    OBVIOUS
  <2>2. u = Opening[12]
    BY <1>12, <2>1, OpeningTaken, Zenon
  <2>3. /\ u.kind \notin {"gap", "quoted", "true"} /\ u.kind \in Takes[at]
        /\ Goes(u) = "entry" /\ (at = "value" => key \notin keys)
    BY <1>12, <2>2, UnitsByKind, Moves DEF OpensAt, OneKey, BothKeys
  <2>4. /\ "opt_out_steam_ids" = IF "value" = "key" /\ u.kind # "}" THEN u.kind ELSE "opt_out_steam_ids"
        /\ BothKeys = IF "value" = "value" THEN OneKey \cup {"opt_out_steam_ids"} ELSE OneKey
    BY <2>2, UnitsByKind DEF OneKey, BothKeys
  <2>5. OpensAt(ids, 13, "entry", "opt_out_steam_ids", BothKeys)'
    BY <1>12, <2>1, <2>3, <2>4, OpeningMark
  <2> QED
    BY <2>5 DEF InOpening
<1>13. CASE OpensAt(ids, 13, "entry", "opt_out_steam_ids", BothKeys)
  <2>1. 13 \in 1..13 /\ 13 + 1 = 14
    OBVIOUS
  <2>2. u = Opening[13] /\ u.kind = "gap"
    <3>1. u = Opening[13]
      BY <1>13, <2>1, OpeningTaken, Zenon
    <3> QED
      BY <3>1, UnitsByKind
  <2>3. OpensAt(ids, 14, "entry", "opt_out_steam_ids", BothKeys)'
    BY <1>13, <2>1, <2>2, OpeningGap
  <2> QED
    BY <2>3
<1> QED
  BY <1>1, <1>2, <1>3, <1>4, <1>5, <1>6, <1>7, <1>8, <1>9, <1>10, <1>11, <1>12, <1>13 DEF InOpening

LEMMA EntryFacts ==
    ASSUME NEW ids, ids \subseteq 1..MaxId, NEW v \in ids
    PROVE  /\ IsEntry(EntryOf(ids, v), v, Later(ids, v) = {})
           /\ Behind(ids)[v] \in Seq(TypedUnits)
           /\ UpTo(ids, v) = Below(ids, v) \cup {v}
           /\ v \notin Below(ids, v) \cup {0}
<1>1. v \in 1..MaxId /\ MaxId \in Nat
  BY WidthIsNumber
<1>2. v \in 0..MaxId /\ v # 0
  BY <1>1
<1>3. Behind(ids)[v] \in Seq(TypedUnits)
  BY <1>2, BehindIsNext
<1>4. IsEntry(EntryOf(ids, v), v, Later(ids, v) = {})
  <2>1. (Later(ids, v) = {}) \in BOOLEAN
    OBVIOUS
  <2> QED
    BY <1>1, <2>1, PartsAreTyped, Zenon DEF EntryOf
<1>5. \A w \in ids : w <= v <=> w < v \/ w = v
  BY <1>1, WidthIsNumber
<1>6. UpTo(ids, v) = Below(ids, v) \cup {v}
  BY <1>5 DEF UpTo, Below
<1>7. ~(v < v)
  BY <1>1
<1>8. v \notin Below(ids, v)
  BY <1>7 DEF Below
<1> QED
  BY <1>2, <1>3, <1>4, <1>6, <1>8

\* What is behind the IDs up to v: the closing, when they are all, or an entry.
LEMMA NextParts ==
    ASSUME NEW ids, ids \subseteq 1..MaxId, NEW v \in 0..MaxId
    PROVE  \/ /\ Later(ids, v) = {} /\ UpTo(ids, v) = ids
              /\ Behind(ids)[v] = Left(Closing, 1, Nothing)
           \/ /\ Later(ids, v) # {}
              /\ \E w \in ids :
                    /\ Below(ids, w) = UpTo(ids, v)
                    /\ Behind(ids)[v] = Left(EntryOf(ids, w), 1, Behind(ids)[w])
<1>0. MaxId \in Nat /\ \A w \in ids : w \in Nat
  BY WidthIsNumber
<1>1. CASE Later(ids, v) = {}
  <2>1. UpTo(ids, v) = ids
    <3>1. \A w \in ids : ~(w > v)
      BY <1>1 DEF Later
    <3>2. \A w \in ids : w <= v
      BY <1>0, <3>1
    <3> QED
      BY <3>2 DEF UpTo
  <2>2. Behind(ids)[v] = Closing
    BY <1>1, BehindIsNext
  <2>3. Closing \in Seq(TypedUnits) /\ Nothing \in Seq(TypedUnits)
    BY PartsAreTyped DEF Nothing
  <2>4. Left(Closing, 1, Nothing) = Closing
    <3>1. Left(Closing, 1, Nothing) = Closing \o Nothing
      BY <2>3, LeftAll, Zenon
    <3>2. Closing \o Nothing = Closing
      BY <2>3, ConcatEmptySeq DEF Nothing
    <3> QED
      BY <3>1, <3>2
  <2> QED
    BY <1>1, <2>1, <2>2, <2>4
<1>2. CASE Later(ids, v) # {}
  <2> DEFINE w == Min(Later(ids, v))
  <2>1. w \in ids /\ w > v /\ \A x \in ids : x > v => w <= x
    BY <1>2, LeastLater
  <2>2. Behind(ids)[v] = Entry(w, Later(ids, v) = {w}) \o Behind(ids)[w]
    BY <1>2, BehindIsNext
  <2> HIDE DEF w
  <2>3. w \in Nat /\ v \in Nat
    BY <1>0, <2>1
  <2>4. (Later(ids, v) = {w}) = (Later(ids, w) = {})
    <3>1. \A x \in ids : x > v <=> x = w \/ x > w
      BY <1>0, <2>1, <2>3
    <3>2. ~(w > w)
      BY <2>3
    <3>3. Later(ids, v) = Later(ids, w) \cup {w} /\ w \notin Later(ids, w)
      BY <2>1, <3>1, <3>2 DEF Later
    <3> QED
      BY <3>3
  <2>5. Below(ids, w) = UpTo(ids, v)
    <3>1. \A x \in ids : x < w <=> x <= v
      BY <1>0, <2>1, <2>3
    <3> QED
      BY <3>1 DEF Below, UpTo
  <2>6. IsEntry(EntryOf(ids, w), w, Later(ids, w) = {}) /\ Behind(ids)[w] \in Seq(TypedUnits)
    BY <2>1, EntryFacts
  <2>7. EntryOf(ids, w) \in Seq(TypedUnits)
    BY <2>6 DEF IsEntry
  <2>9. Entry(w, Later(ids, v) = {w}) = EntryOf(ids, w)
    BY <2>4, Zenon DEF EntryOf
  <2>8. Behind(ids)[v] = Left(EntryOf(ids, w), 1, Behind(ids)[w])
    <3>1. Left(EntryOf(ids, w), 1, Behind(ids)[w]) = EntryOf(ids, w) \o Behind(ids)[w]
      BY <2>6, <2>7, LeftAll, Zenon
    <3> QED
      BY <2>2, <2>9, <3>1, Zenon
  <2> QED
    BY <1>2, <2>1, <2>5, <2>8
<1> QED
  BY <1>1, <1>2

\* Between two parts the parser is at a stage.
LEMMA BetweenParts ==
    ASSUME NEW ids, ids \subseteq 1..MaxId, NEW v \in 0..MaxId,
           ahead' = Behind(ids)[v], keys' = BothKeys,
           seenIds' = UpTo(ids, v), parsed' = UpTo(ids, v),
           at' = "entry" \/ (at' = "entryEnd" /\ Later(ids, v) = {})
    PROVE  Stage(ids)'
<1>1. CASE Later(ids, v) = {} /\ UpTo(ids, v) = ids /\ Behind(ids)[v] = Left(Closing, 1, Nothing)
  <2>1. ClosesAt(ids, 1, "entry")' \/ ClosesAt(ids, 1, "entryEnd")'
    BY <1>1 DEF ClosesAt
  <2> QED
    BY <2>1 DEF Stage, InClosing
<1>2. ASSUME Later(ids, v) # {}, NEW w \in ids, Below(ids, w) = UpTo(ids, v),
             Behind(ids)[v] = Left(EntryOf(ids, w), 1, Behind(ids)[w])
      PROVE  Stage(ids)'
  <2>1. 1 \notin 2..4
    OBVIOUS
  <2>2. EntersAt(ids, w, 1, "entry", Below(ids, w), Below(ids, w))'
    BY <1>2, <2>1 DEF EntersAt
  <2> QED
    BY <2>2 DEF Stage, InEntry
<1> QED
  BY <1>1, <1>2, NextParts

LEMMA EntryTaken ==
    ASSUME NEW ids, ids \subseteq 1..MaxId, NEW v \in ids, NEW n \in 1..6, n = 6 => Later(ids, v) # {},
           NEW p, NEW seen, NEW got,
           EntersAt(ids, v, n, p, seen, got), NEW u, Read(u)
    PROVE  /\ u = EntryOf(ids, v)[n]
           /\ ahead # <<>>
           /\ Tail(ahead) = Left(EntryOf(ids, v), n + 1, Behind(ids)[v])
<1> DEFINE entry == EntryOf(ids, v)
           rest == Behind(ids)[v]
<1>1. entry \in Seq(TypedUnits) /\ rest \in Seq(TypedUnits)
  BY EntryFacts DEF IsEntry
<1>2. ahead = Left(entry, n, rest) /\ n \in 1..Len(entry)
  <2>1. ahead = Left(entry, n, rest)
    BY DEF EntersAt
  <2>2. Len(entry) = IF Later(ids, v) = {} THEN 5 ELSE 6
    BY EntryFacts DEF IsEntry
  <2> HIDE DEF entry, rest
  <2>3. n \in 1..Len(entry)
    BY <2>2
  <2> QED
    BY <2>1, <2>3
<1> HIDE DEF entry, rest
<1>3. /\ Left(entry, n, rest) # <<>> /\ Head(Left(entry, n, rest)) = entry[n]
      /\ Tail(Left(entry, n, rest)) = Left(entry, n + 1, rest)
  BY <1>1, <1>2, LeftTaken, Zenon
<1>4. ahead # <<>> /\ u = entry[n] /\ Tail(ahead) = Left(entry, n + 1, rest)
  BY <1>2, <1>3 DEF Read, Comes
<1> QED
  BY <1>4 DEF entry, rest

LEMMA EntryStep ==
    ASSUME NEW ids, ids \subseteq 1..MaxId, NEW v \in ids, InEntry(ids, v), NEW u, Read(u)
    PROVE  Stage(ids)'
<1> DEFINE isLast == Later(ids, v) = {}
           entry == EntryOf(ids, v)
           rest == Behind(ids)[v]
<1>1. /\ IsEntry(entry, v, isLast) /\ rest \in Seq(TypedUnits)
      /\ UpTo(ids, v) = Below(ids, v) \cup {v} /\ v \notin Below(ids, v) \cup {0}
  BY EntryFacts
<1>2. /\ entry \in Seq(TypedUnits) /\ Len(entry) = IF isLast THEN 5 ELSE 6
      /\ entry[1] = Quoted(DigitsOf(v)) /\ entry[2] = Unit(":")
      /\ entry[3] = Unit("gap") /\ entry[4] = Unit("true")
      /\ entry[5] = IF isLast THEN Unit("gap") ELSE Unit(",")
      /\ ~isLast => entry[6] = Unit("gap")
  BY <1>1, Zenon DEF IsEntry
<1>3. {"gap", ":", "true", ","} \subseteq Marks
  BY DEF Marks
<1>4. /\ entry[1].kind = "quoted" /\ entry[1].text = DigitsOf(v)
      /\ entry[2].kind = ":" /\ entry[3].kind = "gap" /\ entry[4].kind = "true"
      /\ isLast => entry[5].kind = "gap"
      /\ ~isLast => entry[5].kind = "," /\ entry[6].kind = "gap"
  <2>1. \A m \in {"gap", ":", "true", ","} : Unit(m).kind = m
    BY <1>3, UnitsByKind
  <2>2. \A t : Quoted(t).kind = "quoted" /\ Quoted(t).text = t
    BY DEF Quoted
  <2> HIDE DEF entry, isLast
  <2> QED
    BY <1>2, <2>1, <2>2
<1>5. v \in 0..MaxId /\ v \in 1..MaxId
  BY WidthIsNumber
<1>6. Len(entry) \in {5, 6} /\ (~isLast => Len(entry) = 6)
  <2> HIDE DEF entry, isLast
  <2> QED
    BY <1>2
<1>13. Left(entry, Len(entry) + 1, rest) = rest
  <2>1. entry \in Seq(TypedUnits) /\ rest \in Seq(TypedUnits)
    BY <1>1, <1>2
  <2> HIDE DEF entry, rest
  <2> QED
    BY <2>1, LeftAll, Zenon
<1>7. ASSUME EntersAt(ids, v, 1, "entry", Below(ids, v), Below(ids, v))
      PROVE  EntersAt(ids, v, 2, "entryColon", UpTo(ids, v), Below(ids, v))'
  <2>1. 1 \in 1..6 /\ 1 # 6
    BY <1>6
  <2>2. u = entry[1] /\ ahead # <<>> /\ Tail(ahead) = Left(entry, 2, rest)
    <3>1. u = entry[1] /\ ahead # <<>> /\ Tail(ahead) = Left(entry, 1 + 1, rest)
      BY <1>7, <2>1, EntryTaken
    <3> QED
      BY <3>1
  <2>3. u.kind = "quoted" /\ ParseDecimalUll(u.text) = v
    BY <1>4, <1>5, <2>2, DigitsDenote
  <2>4. ParseDecimalUll(u.text) \notin seenIds \cup {0} /\ at = "entry"
    BY <1>1, <1>7, <2>3 DEF EntersAt
  <2>5. /\ ahead' = Tail(ahead) /\ at' = "entryColon" /\ keys' = keys
        /\ id' = ParseDecimalUll(u.text)
        /\ seenIds' = seenIds \cup {ParseDecimalUll(u.text)}
        /\ parsed' = parsed
    BY <2>2, <2>3, <2>4, IdRead
  <2> QED
    BY <1>1, <1>7, <2>2, <2>3, <2>5 DEF EntersAt
<1>8. ASSUME EntersAt(ids, v, 2, "entryColon", UpTo(ids, v), Below(ids, v))
      PROVE  EntersAt(ids, v, 3, "entryValue", UpTo(ids, v), Below(ids, v))'
  <2>1. 2 \in 1..6 /\ 2 # 6 /\ 2 \in 2..4
    BY <1>6
  <2>2. u = entry[2] /\ ahead # <<>> /\ Tail(ahead) = Left(entry, 3, rest)
    <3>1. u = entry[2] /\ ahead # <<>> /\ Tail(ahead) = Left(entry, 2 + 1, rest)
      BY <1>8, <2>1, EntryTaken
    <3> QED
      BY <3>1
  <2>3. u.kind = ":" /\ at = "entryColon" /\ id = v
    BY <1>4, <1>8, <2>1, <2>2 DEF EntersAt
  <2>4. u.kind \in Takes[at] /\ Goes(u) = "entryValue"
    BY <2>3, Moves
  <2>5. /\ ahead' = Tail(ahead) /\ at' = Goes(u) /\ keys' = keys
        /\ id' = id /\ seenIds' = seenIds /\ parsed' = parsed
    BY <2>2, <2>3, <2>4, MarkRead
  <2> QED
    BY <1>8, <2>2, <2>3, <2>4, <2>5 DEF EntersAt
<1>9. ASSUME EntersAt(ids, v, 3, "entryValue", UpTo(ids, v), Below(ids, v))
      PROVE  EntersAt(ids, v, 4, "entryValue", UpTo(ids, v), Below(ids, v))'
  <2>1. 3 \in 1..6 /\ 3 # 6 /\ 3 \in 2..4
    BY <1>6
  <2>2. u = entry[3] /\ ahead # <<>> /\ Tail(ahead) = Left(entry, 4, rest)
    <3>1. u = entry[3] /\ ahead # <<>> /\ Tail(ahead) = Left(entry, 3 + 1, rest)
      BY <1>9, <2>1, EntryTaken
    <3> QED
      BY <3>1
  <2>3. u.kind = "gap" /\ id = v
    BY <1>4, <1>9, <2>1, <2>2 DEF EntersAt
  <2>4. /\ ahead' = Tail(ahead) /\ at' = at /\ keys' = keys
        /\ id' = id /\ seenIds' = seenIds /\ parsed' = parsed
    BY <2>2, <2>3, GapRead
  <2> QED
    BY <1>9, <2>2, <2>3, <2>4 DEF EntersAt
<1>10. ASSUME EntersAt(ids, v, 4, "entryValue", UpTo(ids, v), Below(ids, v))
       PROVE  EntersAt(ids, v, 5, "entryEnd", UpTo(ids, v), UpTo(ids, v))'
  <2>1. 4 \in 1..6 /\ 4 # 6 /\ 4 \in 2..4 /\ 5 \notin 2..4
    BY <1>6
  <2>2. u = entry[4] /\ ahead # <<>> /\ Tail(ahead) = Left(entry, 5, rest)
    <3>1. u = entry[4] /\ ahead # <<>> /\ Tail(ahead) = Left(entry, 4 + 1, rest)
      BY <1>10, <2>1, EntryTaken
    <3> QED
      BY <3>1
  <2>3. u.kind = "true" /\ at = "entryValue" /\ id = v
    BY <1>4, <1>10, <2>1, <2>2 DEF EntersAt
  <2>4. u.kind \in Takes[at] /\ Goes(u) = "entryEnd"
    BY <2>3, Moves
  <2>5. /\ ahead' = Tail(ahead) /\ at' = Goes(u) /\ keys' = keys
        /\ seenIds' = seenIds /\ parsed' = parsed \cup {id}
    BY <2>2, <2>3, <2>4, MarkRead
  <2> QED
    BY <1>1, <1>10, <2>1, <2>2, <2>3, <2>4, <2>5 DEF EntersAt
<1>11. ASSUME EntersAt(ids, v, 5, "entryEnd", UpTo(ids, v), UpTo(ids, v))
       PROVE  Stage(ids)'
  <2>1. 5 \in 1..6 /\ 5 # 6 /\ 6 \notin 2..4
    BY <1>6
  <2>2. u = entry[5] /\ ahead # <<>> /\ Tail(ahead) = Left(entry, 6, rest)
    <3>1. u = entry[5] /\ ahead # <<>> /\ Tail(ahead) = Left(entry, 5 + 1, rest)
      BY <1>11, <2>1, EntryTaken, ZenonT(40)
    <3> QED
      BY <3>1
  <2>3. CASE isLast
    <3>1. u.kind = "gap" /\ Len(entry) = 5
      BY <1>2, <1>4, <2>2, <2>3
    <3>2. Left(entry, 6, rest) = rest
      <4>1. Left(entry, Len(entry) + 1, rest) = rest
        BY <1>13
      <4>2. Len(entry) + 1 = 6
        BY <3>1
      <4> QED
        BY <4>1, <4>2, Zenon
    <3>3. /\ ahead' = Tail(ahead) /\ at' = at /\ keys' = keys
          /\ seenIds' = seenIds /\ parsed' = parsed
      BY <2>2, <3>1, GapRead
    <3>4. /\ ahead' = rest /\ at' = "entryEnd" /\ keys' = BothKeys
          /\ seenIds' = UpTo(ids, v) /\ parsed' = UpTo(ids, v)
      BY <1>11, <2>2, <3>2, <3>3 DEF EntersAt
    <3> QED
      BY <1>5, <2>3, <3>4, BetweenParts
  <2>4. CASE ~isLast
    <3>1. u.kind = "," /\ at = "entryEnd"
      BY <1>4, <1>11, <2>2, <2>4 DEF EntersAt
    <3>2. u.kind \in Takes[at] /\ Goes(u) = "entry"
      BY <3>1, Moves
    <3>3. /\ ahead' = Tail(ahead) /\ at' = Goes(u) /\ keys' = keys
          /\ seenIds' = seenIds /\ parsed' = parsed
      BY <2>2, <3>1, <3>2, MarkRead
    <3>4. EntersAt(ids, v, 6, "entry", UpTo(ids, v), UpTo(ids, v))'
      BY <1>11, <2>1, <2>2, <3>2, <3>3 DEF EntersAt
    <3> QED
      BY <2>4, <3>4 DEF Stage, InEntry
  <2> QED
    BY <2>3, <2>4
<1>12. ASSUME ~isLast, EntersAt(ids, v, 6, "entry", UpTo(ids, v), UpTo(ids, v))
       PROVE  Stage(ids)'
  <2>1. Len(entry) = 6 /\ 6 \in 1..6
    BY <1>6, <1>12
  <2>2. u = entry[6] /\ ahead # <<>> /\ Tail(ahead) = Left(entry, 7, rest)
    <3>1. u = entry[6] /\ ahead # <<>> /\ Tail(ahead) = Left(entry, 6 + 1, rest)
      BY <1>12, <2>1, EntryTaken, ZenonT(40)
    <3> QED
      BY <3>1
  <2>3. u.kind = "gap"
    BY <1>4, <1>12, <2>2
  <2>4. Left(entry, 7, rest) = rest
    <3>1. Left(entry, Len(entry) + 1, rest) = rest
      BY <1>13
    <3>2. Len(entry) + 1 = 7
      BY <2>1
    <3> QED
      BY <3>1, <3>2, Zenon
  <2>5. /\ ahead' = Tail(ahead) /\ at' = at /\ keys' = keys
        /\ seenIds' = seenIds /\ parsed' = parsed
    BY <2>2, <2>3, GapRead
  <2>6. /\ ahead' = rest /\ at' = "entry" /\ keys' = BothKeys
        /\ seenIds' = UpTo(ids, v) /\ parsed' = UpTo(ids, v)
    BY <1>12, <2>2, <2>4, <2>5 DEF EntersAt
  <2> QED
    BY <1>5, <2>6, BetweenParts
<1> QED
  BY <1>7, <1>8, <1>9, <1>10, <1>11, <1>12 DEF InEntry, Stage

LEMMA ClosingTaken ==
    ASSUME NEW ids, NEW n \in 1..4, NEW p, ClosesAt(ids, n, p), NEW u, Read(u)
    PROVE  u = Closing[n] /\ ahead # <<>> /\ Tail(ahead) = Left(Closing, n + 1, Nothing)
<1> DEFINE part == Closing
           rest == Nothing
<1>1. /\ part \in Seq(TypedUnits) /\ rest \in Seq(TypedUnits) /\ n \in 1..Len(part)
      /\ ahead = Left(part, n, rest)
  BY PartsAreTyped DEF ClosesAt, Nothing
<1> HIDE DEF part, rest
<1>2. /\ Left(part, n, rest) # <<>> /\ Head(Left(part, n, rest)) = part[n]
      /\ Tail(Left(part, n, rest)) = Left(part, n + 1, rest)
  BY <1>1, LeftTaken, Zenon
<1>3. ahead # <<>> /\ u = part[n] /\ Tail(ahead) = Left(part, n + 1, rest)
  BY <1>1, <1>2 DEF Read, Comes
<1> QED
  BY <1>3 DEF part, rest

LEMMA NothingLeft == Left(Closing, 5, Nothing) = Nothing
<1> DEFINE rest == Nothing
<1>1. Closing \in Seq(TypedUnits) /\ Len(Closing) = 4 /\ rest \in Seq(TypedUnits)
  BY PartsAreTyped DEF Nothing
<1> HIDE DEF rest
<1>2. Left(Closing, Len(Closing) + 1, rest) = rest
  BY <1>1, LeftAll, Zenon
<1>3. Len(Closing) + 1 = 5
  BY <1>1
<1>4. Left(Closing, 5, rest) = rest
  BY <1>2, <1>3, Zenon
<1> QED
  BY <1>4 DEF rest

LEMMA ClosingStep ==
    ASSUME NEW ids, written # NotWritten, InClosing(ids), NEW u, Read(u)
    PROVE  InClosing(ids)'
<1>1. ASSUME NEW p, p \in {"entry", "entryEnd"}, ClosesAt(ids, 1, p)
      PROVE  ClosesAt(ids, 2, "pairEnd")'
  <2>1. u = Closing[1] /\ ahead # <<>> /\ Tail(ahead) = Left(Closing, 1 + 1, Nothing)
    <3>1. 1 \in 1..4
      OBVIOUS
    <3> QED
      BY <1>1, <3>1, ClosingTaken, Zenon
  <2>2. u = Closing[1] /\ ahead # <<>> /\ Tail(ahead) = Left(Closing, 2, Nothing)
    <3>1. 1 + 1 = 2
      OBVIOUS
    <3> QED
      BY <2>1, <3>1, Zenon
  <2>3. u.kind = "}" /\ at \in {"entry", "entryEnd"}
    BY <1>1, <2>2, UnitsByKind DEF ClosesAt
  <2>4. u.kind \in Takes[at] /\ Goes(u) = "pairEnd"
    BY <2>3, Moves
  <2>5. ahead' = Tail(ahead) /\ at' = Goes(u) /\ keys' = keys /\ parsed' = parsed
    BY <2>2, <2>3, <2>4, MarkRead
  <2> QED
    BY <1>1, <2>2, <2>4, <2>5 DEF ClosesAt
<1>2. ASSUME ClosesAt(ids, 2, "pairEnd")
      PROVE  ClosesAt(ids, 3, "pairEnd")'
  <2>1. u = Closing[2] /\ ahead # <<>> /\ Tail(ahead) = Left(Closing, 2 + 1, Nothing)
    <3>1. 2 \in 1..4
      OBVIOUS
    <3> QED
      BY <1>2, <3>1, ClosingTaken, Zenon
  <2>2. u = Closing[2] /\ ahead # <<>> /\ Tail(ahead) = Left(Closing, 3, Nothing)
    <3>1. 2 + 1 = 3
      OBVIOUS
    <3> QED
      BY <2>1, <3>1, Zenon
  <2>3. ahead' = Tail(ahead) /\ at' = at /\ keys' = keys /\ parsed' = parsed
    BY <2>2, UnitsByKind, GapRead
  <2> QED
    BY <1>2, <2>2, <2>3 DEF ClosesAt
<1>3. ASSUME ClosesAt(ids, 3, "pairEnd")
      PROVE  ClosesAt(ids, 4, "tail")'
  <2>1. u = Closing[3] /\ ahead # <<>> /\ Tail(ahead) = Left(Closing, 3 + 1, Nothing)
    <3>1. 3 \in 1..4
      OBVIOUS
    <3> QED
      BY <1>3, <3>1, ClosingTaken, Zenon
  <2>2. u = Closing[3] /\ ahead # <<>> /\ Tail(ahead) = Left(Closing, 4, Nothing)
    <3>1. 3 + 1 = 4
      OBVIOUS
    <3> QED
      BY <2>1, <3>1, Zenon
  <2>3. u.kind = "}" /\ at = "pairEnd"
    BY <1>3, <2>2, UnitsByKind DEF ClosesAt
  <2>4. u.kind \in Takes[at] /\ Goes(u) = "tail"
    BY <2>3, Moves
  <2>5. ahead' = Tail(ahead) /\ at' = Goes(u) /\ keys' = keys /\ parsed' = parsed
    BY <2>2, <2>3, <2>4, MarkRead
  <2> QED
    BY <1>3, <2>2, <2>4, <2>5 DEF ClosesAt
<1>4. ASSUME ClosesAt(ids, 4, "tail")
      PROVE  ClosesAt(ids, 5, "tail")'
  <2>1. u = Closing[4] /\ ahead # <<>> /\ Tail(ahead) = Left(Closing, 4 + 1, Nothing)
    <3>1. 4 \in 1..4
      OBVIOUS
    <3> QED
      BY <1>4, <3>1, ClosingTaken, Zenon
  <2>2. u = Closing[4] /\ ahead # <<>> /\ Tail(ahead) = Left(Closing, 5, Nothing)
    <3>1. 4 + 1 = 5
      OBVIOUS
    <3> QED
      BY <2>1, <3>1, Zenon
  <2>3. ahead' = Tail(ahead) /\ at' = at /\ keys' = keys /\ parsed' = parsed
    BY <2>2, UnitsByKind, GapRead
  <2> QED
    BY <1>4, <2>2, <2>3 DEF ClosesAt
<1>5. ASSUME ClosesAt(ids, 5, "tail")
      PROVE  FALSE
  <2>1. ahead = <<>>
    BY <1>5, NothingLeft DEF ClosesAt, Nothing
  <2> QED
    BY <2>1 DEF Read, Comes
<1> QED
  BY <1>1, <1>2, <1>3, <1>4, <1>5 DEF InClosing

\* The document ends where the closing does.
LEMMA EndOfStages ==
    ASSUME NEW ids, ids \subseteq 1..MaxId, Stage(ids), ahead = <<>>
    PROVE  at = "tail" /\ keys = BothKeys /\ parsed = ids
<1>1. ASSUME NEW n \in 1..13, NEW p, NEW k, NEW ks
      PROVE  ~OpensAt(ids, n, p, k, ks)
  <2> DEFINE rest == Behind(ids)[0]
  <2>1. Opening \in Seq(TypedUnits) /\ Len(Opening) = 13 /\ rest \in Seq(TypedUnits)
    <3>1. 0 \in 0..MaxId
      BY WidthIsNumber
    <3> QED
      BY <3>1, PartsAreTyped, BehindIsNext
  <2> HIDE DEF rest
  <2>2. n \in 1..Len(Opening)
    BY <2>1
  <2>3. Left(Opening, n, rest) # <<>>
    BY <2>1, <2>2, LeftTaken, Zenon
  <2> QED
    BY <2>3 DEF OpensAt, rest
<1>2. ASSUME NEW v \in ids, NEW n \in 1..6, n = 6 => Later(ids, v) # {},
             NEW p, NEW seen, NEW got
      PROVE  ~EntersAt(ids, v, n, p, seen, got)
  <2> DEFINE entry == EntryOf(ids, v)
             rest == Behind(ids)[v]
  <2>1. entry \in Seq(TypedUnits) /\ rest \in Seq(TypedUnits)
    BY EntryFacts DEF IsEntry
  <2>2. Len(entry) = IF Later(ids, v) = {} THEN 5 ELSE 6
    BY EntryFacts DEF IsEntry
  <2> HIDE DEF entry, rest
  <2>3. n \in 1..Len(entry)
    BY <1>2, <2>2
  <2>4. Left(entry, n, rest) # <<>>
    BY <2>1, <2>3, LeftTaken, Zenon
  <2> QED
    BY <2>4 DEF EntersAt, entry, rest
<1>3. ASSUME NEW n \in 1..4, NEW p
      PROVE  ~ClosesAt(ids, n, p)
  <2> DEFINE rest == Nothing
  <2>1. Closing \in Seq(TypedUnits) /\ rest \in Seq(TypedUnits) /\ n \in 1..Len(Closing)
    BY PartsAreTyped DEF Nothing
  <2> HIDE DEF rest
  <2>2. Left(Closing, n, rest) # <<>>
    BY <2>1, LeftTaken, Zenon
  <2> QED
    BY <2>2 DEF ClosesAt, rest
<1>4. ~InOpening(ids)
  <2>1. /\ 1 \in 1..13 /\ 2 \in 1..13 /\ 3 \in 1..13 /\ 4 \in 1..13 /\ 5 \in 1..13
        /\ 6 \in 1..13 /\ 7 \in 1..13 /\ 8 \in 1..13 /\ 9 \in 1..13 /\ 10 \in 1..13
        /\ 11 \in 1..13 /\ 12 \in 1..13 /\ 13 \in 1..13
    OBVIOUS
  <2> QED
    BY <1>1, <2>1, Zenon DEF InOpening
<1>5. \A v \in ids : ~InEntry(ids, v)
  <2> SUFFICES ASSUME NEW v \in ids, InEntry(ids, v) PROVE FALSE
    OBVIOUS
  <2>1. 1 \in 1..6 /\ 2 \in 1..6 /\ 3 \in 1..6 /\ 4 \in 1..6 /\ 5 \in 1..6 /\ 6 \in 1..6
    OBVIOUS
  <2>2. 1 # 6 /\ 2 # 6 /\ 3 # 6 /\ 4 # 6 /\ 5 # 6
    OBVIOUS
  <2> QED
    BY <1>2, <2>1, <2>2 DEF InEntry
<1>6. InClosing(ids) => ClosesAt(ids, 5, "tail")
  BY <1>3 DEF InClosing
<1> QED
  BY <1>4, <1>5, <1>6 DEF Stage, ClosesAt

\* The parser is at a stage only before its verdict.
LEMMA StagesAreBefore ==
    ASSUME NEW ids, Stage(ids)
    PROVE  at \notin Verdicts
<1>1. InOpening(ids) => at \notin Verdicts
  BY DEF InOpening, OpensAt, Verdicts
<1>2. \A v \in ids : InEntry(ids, v) => at \notin Verdicts
  BY DEF InEntry, EntersAt, Verdicts
<1>3. InClosing(ids) => at \notin Verdicts
  BY DEF InClosing, ClosesAt, Verdicts
<1> QED
  BY <1>1, <1>2, <1>3 DEF Stage

LEMMA StageStep ==
    ASSUME NEW ids, ids \subseteq 1..MaxId, written # NotWritten, Stage(ids), NEW u, Read(u)
    PROVE  Stage(ids)'
<1>1. CASE InOpening(ids)
  <2>1. CASE InOpening(ids)'
    BY <2>1 DEF Stage
  <2>2. CASE OpensAt(ids, 14, "entry", "opt_out_steam_ids", BothKeys)'
    <3> DEFINE rest == Behind(ids)[0]
    <3>1. Opening \in Seq(TypedUnits) /\ Len(Opening) = 13 /\ rest \in Seq(TypedUnits) /\ 0 \in 0..MaxId
      <4>1. 0 \in 0..MaxId
        BY WidthIsNumber
      <4> QED
        BY <4>1, PartsAreTyped, BehindIsNext
    <3> HIDE DEF rest
    <3>2. Left(Opening, Len(Opening) + 1, rest) = rest
      BY <3>1, LeftAll, Zenon
    <3>3. Len(Opening) + 1 = 14
      BY <3>1
    <3>4. Left(Opening, 14, rest) = rest
      BY <3>2, <3>3, Zenon
    <3>5. UpTo(ids, 0) = {}
      <4>1. \A w \in 1..MaxId : ~(w <= 0)
        OBVIOUS
      <4> QED
        BY <4>1 DEF UpTo
    <3>6. /\ ahead' = rest /\ keys' = BothKeys /\ at' = "entry"
          /\ seenIds' = UpTo(ids, 0) /\ parsed' = UpTo(ids, 0)
      BY <2>2, <3>4, <3>5 DEF OpensAt, rest
    <3> QED
      BY <3>1, <3>6, BetweenParts DEF rest
  <2> QED
    BY <1>1, <2>1, <2>2, OpeningStep
<1>2. ASSUME NEW v \in ids, InEntry(ids, v)
      PROVE  Stage(ids)'
  BY <1>2, EntryStep
<1>3. CASE InClosing(ids)
  <2>1. InClosing(ids)'
    BY <1>3, ClosingStep
  <2> QED
    BY <2>1 DEF Stage
<1> QED
  BY <1>1, <1>2, <1>3 DEF Stage

\* Whatever set of IDs the plugin writes, it reads back that set, and no document of
\* its own is refused or found incomplete (BuildRssAssetPreferencesJson and
\* ParseRssAssetPreferences).
THEOREM WrittenReadsBack == DocSpec => []WrittenIsReadBack
<1>1. DocInit => WrittenInv
  <2> SUFFICES ASSUME DocInit, written # NotWritten PROVE WrittenInv
    BY DEF WrittenInv
  <2>1. /\ reader = "jsonc" /\ at = "start" /\ written \in WrittenSets /\ ahead = Written(written)
        /\ key = "" /\ keys = {} /\ seenIds = {} /\ parsed = {}
    BY DEF DocInit, ScanInit
  <2>2. written \subseteq 1..MaxId
    <3>1. WrittenSets \subseteq SUBSET (1..MaxId)
      BY NumbersAssumption
    <3> QED
      BY <2>1, <3>1
  <2>3. PICK ids : ids = written
    OBVIOUS
  <2>4. Written(ids) = Left(Opening, 1, Behind(ids)[0])
    <3> DEFINE rest == Behind(ids)[0]
    <3>1. Opening \in Seq(TypedUnits) /\ rest \in Seq(TypedUnits)
      <4>1. 0 \in 0..MaxId
        BY WidthIsNumber
      <4> QED
        BY <2>2, <2>3, <4>1, PartsAreTyped, BehindIsNext
    <3> HIDE DEF rest
    <3>2. Left(Opening, 1, rest) = Opening \o rest
      BY <3>1, LeftAll, Zenon
    <3> QED
      BY <3>2 DEF Written, rest
  <2>5. OpensAt(ids, 1, "start", "", {})
    BY <2>1, <2>3, <2>4 DEF OpensAt
  <2>6. Stage(ids)
    BY <2>5 DEF Stage, InOpening
  <2> QED
    BY <2>1, <2>2, <2>3, <2>6 DEF WrittenInv
<1>2. WrittenInv /\ [DocNext]_docVars => WrittenInv'
  <2> SUFFICES ASSUME WrittenInv, [DocNext]_docVars, written' # NotWritten PROVE WrittenInv'
    BY DEF WrittenInv
  <2>1. written' = written /\ reader' = reader
    BY DEF DocNext, docVars, Read, EndOfDocument, ReadLine, EndOfLines
  <2>2. /\ reader = "jsonc" /\ written \subseteq 1..MaxId /\ written # NotWritten
        /\ Stage(written) \/ (at = "accepted" /\ out = written)
    BY <2>1 DEF WrittenInv
  <2>3. PICK ids : ids = written
    OBVIOUS
  <2>4. CASE UNCHANGED docVars
    <3>1. CASE Stage(ids)
      <4>1. /\ ahead' = ahead /\ at' = at /\ key' = key /\ keys' = keys /\ id' = id
            /\ seenIds' = seenIds /\ parsed' = parsed
        BY <2>4 DEF docVars, scanVars
      <4>3. InOpening(ids) => InOpening(ids)'
        BY <4>1 DEF InOpening, OpensAt
      <4>4. \A v \in ids : InEntry(ids, v) => InEntry(ids, v)'
        BY <4>1 DEF InEntry, EntersAt
      <4>5. InClosing(ids) => InClosing(ids)'
        BY <4>1 DEF InClosing, ClosesAt
      <4>2. Stage(ids)'
        BY <3>1, <4>3, <4>4, <4>5 DEF Stage
      <4> QED
        BY <2>1, <2>2, <2>3, <4>2 DEF WrittenInv
    <3>2. CASE at = "accepted" /\ out = written
      BY <2>1, <2>2, <2>4, <3>2 DEF WrittenInv, docVars
    <3> QED
      BY <2>2, <2>3, <3>1, <3>2
  <2>5. ASSUME NEW u, Read(u)
        PROVE  WrittenInv'
    <3>1. at \notin Verdicts
      BY <2>5 DEF Read, Reading
    <3>2. Stage(ids)
      BY <2>2, <2>3, <3>1 DEF Verdicts
    <3>3. Stage(ids)'
      BY <2>2, <2>3, <2>5, <3>2, StageStep
    <3> QED
      BY <2>1, <2>2, <2>3, <3>3 DEF WrittenInv
  <2>6. CASE EndOfDocument
    <3>1. at \notin Verdicts /\ ahead = <<>>
      BY <2>6 DEF EndOfDocument, Reading
    <3>2. Stage(ids)
      BY <2>2, <2>3, <3>1 DEF Verdicts
    <3>3. at = "tail" /\ keys = BothKeys /\ parsed = ids
      BY <2>2, <2>3, <3>1, <3>2, EndOfStages
    <3>4. Whole
      BY <3>3 DEF Whole, BothKeys
    <3>5. at' = "accepted" /\ out' = parsed
      BY <2>6, <3>4 DEF EndOfDocument
    <3> QED
      BY <2>1, <2>2, <2>3, <3>3, <3>5 DEF WrittenInv
  <2>7. ASSUME NEW text, ReadLine(text)
        PROVE  WrittenInv'
    BY <2>2, <2>7 DEF ReadLine
  <2>8. ASSUME NEW readOk, EndOfLines(readOk)
        PROVE  WrittenInv'
    BY <2>2, <2>8 DEF EndOfLines
  <2> QED
    BY <2>4, <2>5, <2>6, <2>7, <2>8 DEF DocNext
<1>3. WrittenInv => WrittenIsReadBack
  <2> SUFFICES ASSUME WrittenInv, written # NotWritten PROVE WrittenIsReadBack
    BY DEF WrittenIsReadBack
  <2>1. CASE Stage(written)
    <3>1. PICK ids : ids = written
      OBVIOUS
    <3>2. at \notin Verdicts
      BY <2>1, <3>1, StagesAreBefore
    <3> QED
      BY <3>2 DEF WrittenIsReadBack, Verdicts
  <2>2. CASE at = "accepted" /\ out = written
    BY <2>2 DEF WrittenIsReadBack
  <2> QED
    BY <2>1, <2>2 DEF WrittenInv
<1> QED
  BY <1>1, <1>2, <1>3, PTL DEF DocSpec
=============================================================================
