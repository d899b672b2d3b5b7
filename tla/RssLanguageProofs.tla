------------------------- MODULE RssLanguageProofs -------------------------
(***************************************************************************)
(* Machine-checked proof that ParseRssAssetPreferences accepts exactly the *)
(* documents of its language, for any width of the IDs, any texts and any  *)
(* length of a document.                                                   *)
(***************************************************************************)
EXTENDS RssDocumentsProofs

-----------------------------------------------------------------------------
(* The shapes of a document *)

\* A document's shape: whether the version comes first, the units of its entries,
\* and whether a comma follows the second value.  The kinds that may stand at a
\* place of it, up to its last one.
HeadingLength(first) == IF first = "version" THEN 8 ELSE 4
Total(m, c)      == 10 + m + c
Lengths          == {m \in Nat : m % 4 = 0 \/ m % 4 = 3}

BodyKinds(r) ==
    CASE r = 1 -> {"quoted"} [] r = 2 -> {":"} [] r = 3 -> {"true", "false"} [] r = 0 -> {","}

KindsAt(first, m, c, i) ==
    IF i <= HeadingLength(first) THEN {Heading(first)[i].kind}
    ELSE IF i <= HeadingLength(first) + m THEN BodyKinds((i - HeadingLength(first)) % 4)
    ELSE IF i <= 9 + m THEN {Rest(first)[i - HeadingLength(first) - m].kind}
    ELSE {Ending(c)[i - 9 - m].kind}

Fits(list, first, m, c) ==
    /\ Len(list) <= Total(m, c)
    /\ \A i \in 1..Len(list) : list[i].kind \in KindsAt(first, m, c, i)

\* Where the parser is after the first n units of a document of this shape.
InHeading(first, n, place, k, ks) ==
    \/ n = 0 /\ place = "start" /\ ks = {}
    \/ n = 1 /\ place = "key" /\ ks = {}
    \/ n = 2 /\ place = "colon" /\ ks = {} /\ k = first
    \/ n = 3 /\ place = "value" /\ ks = {} /\ k = first
    \/ first = "version" /\ n = 4 /\ place = "pairEnd" /\ ks = {"version"}
    \/ first = "version" /\ n = 5 /\ place = "key" /\ ks = {"version"}
    \/ first = "version" /\ n = 6 /\ place = "colon" /\ ks = {"version"} /\ k = "opt_out_steam_ids"
    \/ first = "version" /\ n = 7 /\ place = "value" /\ ks = {"version"} /\ k = "opt_out_steam_ids"

FirstKeys(first) == IF first = "version" THEN BothKeys ELSE {"opt_out_steam_ids"}

BodyPlace(r) ==
    CASE r = 0 -> "entry" [] r = 1 -> "entryColon" [] r = 2 -> "entryValue" [] r = 3 -> "entryEnd"

InBody(first, m, n, place, ks) ==
    /\ HeadingLength(first) <= n /\ n <= HeadingLength(first) + m
    /\ place = BodyPlace((n - HeadingLength(first)) % 4)
    /\ ks = FirstKeys(first)

InRest(first, m, n, place, k, ks) ==
    /\ first = "opt_out_steam_ids" /\ ks = {"opt_out_steam_ids"}
    /\ \/ n = 5 + m /\ place = "pairEnd"
       \/ n = 6 + m /\ place = "key"
       \/ n = 7 + m /\ place = "colon" /\ k = "version"
       \/ n = 8 + m /\ place = "value" /\ k = "version"

InEnding(m, c, n, place, ks) ==
    /\ ks = BothKeys
    /\ \/ n = 9 + m /\ place = "pairEnd"
       \/ c = 1 /\ n = 10 + m /\ place = "key"
       \/ n = Total(m, c) /\ place = "tail"

StateAt(first, m, c, n, place, k, ks) ==
    \/ InHeading(first, n, place, k, ks)
    \/ InBody(first, m, n, place, ks)
    \/ InRest(first, m, n, place, k, ks)
    \/ InEnding(m, c, n, place, ks)

\* A key that has come before, or an object that ends without one of them: from here
\* the parser accepts nothing.
Dead(place, k, ks) ==
    \/ place \in {"colon", "value"} /\ k \in ks
    \/ place = "tail" /\ ks # BothKeys

\* The kinds of the pieces, spelled out.
LEMMA PieceKinds ==
    /\ Heading("version")[1].kind = "{" /\ Heading("version")[2].kind = "version"
    /\ Heading("version")[3].kind = ":" /\ Heading("version")[4].kind = "1"
    /\ Heading("version")[5].kind = "," /\ Heading("version")[6].kind = "opt_out_steam_ids"
    /\ Heading("version")[7].kind = ":" /\ Heading("version")[8].kind = "{"
    /\ Heading("opt_out_steam_ids")[1].kind = "{" /\ Heading("opt_out_steam_ids")[2].kind = "opt_out_steam_ids"
    /\ Heading("opt_out_steam_ids")[3].kind = ":" /\ Heading("opt_out_steam_ids")[4].kind = "{"
    /\ Rest("version")[1].kind = "}"
    /\ Rest("opt_out_steam_ids")[1].kind = "}" /\ Rest("opt_out_steam_ids")[2].kind = ","
    /\ Rest("opt_out_steam_ids")[3].kind = "version" /\ Rest("opt_out_steam_ids")[4].kind = ":" /\ Rest("opt_out_steam_ids")[5].kind = "1"
    /\ Ending(1)[1].kind = "," /\ Ending(1)[2].kind = "}"
    /\ Ending(0)[1].kind = "}"
<1>1. \A m : Unit(m).kind = m
  BY DEF Unit
<1>2. /\ Heading("version")[1] = Unit("{") /\ Heading("version")[2] = Unit("version")
      /\ Heading("version")[3] = Unit(":") /\ Heading("version")[4] = Unit("1")
      /\ Heading("version")[5] = Unit(",") /\ Heading("version")[6] = Unit("opt_out_steam_ids")
      /\ Heading("version")[7] = Unit(":") /\ Heading("version")[8] = Unit("{")
  BY DEF Heading
<1>3. /\ Heading("opt_out_steam_ids")[1] = Unit("{") /\ Heading("opt_out_steam_ids")[2] = Unit("opt_out_steam_ids")
      /\ Heading("opt_out_steam_ids")[3] = Unit(":") /\ Heading("opt_out_steam_ids")[4] = Unit("{")
  BY DEF Heading
<1>4. /\ Rest("version")[1] = Unit("}") /\ Rest("opt_out_steam_ids")[1] = Unit("}") /\ Rest("opt_out_steam_ids")[2] = Unit(",")
      /\ Rest("opt_out_steam_ids")[3] = Unit("version") /\ Rest("opt_out_steam_ids")[4] = Unit(":")
      /\ Rest("opt_out_steam_ids")[5] = Unit("1")
  BY DEF Rest
<1>5. /\ Ending(1)[1] = Unit(",") /\ Ending(1)[2] = Unit("}")
      /\ Ending(0)[1] = Unit("}")
  BY DEF Ending
<1> QED
  BY <1>1, <1>2, <1>3, <1>4, <1>5

\* The kinds, place by place.
LEMMA KindsInHeading ==
    ASSUME NEW m, NEW c
    PROVE  /\ KindsAt("version", m, c, 1) = {"{"} /\ KindsAt("version", m, c, 2) = {"version"}
           /\ KindsAt("version", m, c, 3) = {":"} /\ KindsAt("version", m, c, 4) = {"1"}
           /\ KindsAt("version", m, c, 5) = {","}
           /\ KindsAt("version", m, c, 6) = {"opt_out_steam_ids"}
           /\ KindsAt("version", m, c, 7) = {":"} /\ KindsAt("version", m, c, 8) = {"{"}
           /\ KindsAt("opt_out_steam_ids", m, c, 1) = {"{"}
           /\ KindsAt("opt_out_steam_ids", m, c, 2) = {"opt_out_steam_ids"}
           /\ KindsAt("opt_out_steam_ids", m, c, 3) = {":"}
           /\ KindsAt("opt_out_steam_ids", m, c, 4) = {"{"}
<1>1. \A first, i : i <= HeadingLength(first) => KindsAt(first, m, c, i) = {Heading(first)[i].kind}
  BY Zenon DEF KindsAt
<1>2. HeadingLength("version") = 8 /\ HeadingLength("opt_out_steam_ids") = 4
  BY DEF HeadingLength
<1>3. /\ 1 <= 8 /\ 2 <= 8 /\ 3 <= 8 /\ 4 <= 8 /\ 5 <= 8 /\ 6 <= 8 /\ 7 <= 8 /\ 8 <= 8
      /\ 1 <= 4 /\ 2 <= 4 /\ 3 <= 4 /\ 4 <= 4
  OBVIOUS
<1>4. \A i : i <= 8 => KindsAt("version", m, c, i) = {Heading("version")[i].kind}
  BY <1>1, <1>2, Zenon
<1>5. \A i : i <= 4 =>
          KindsAt("opt_out_steam_ids", m, c, i) = {Heading("opt_out_steam_ids")[i].kind}
  BY <1>1, <1>2, Zenon
<1>6. /\ KindsAt("version", m, c, 1) = {"{"} /\ KindsAt("version", m, c, 2) = {"version"}
      /\ KindsAt("version", m, c, 3) = {":"} /\ KindsAt("version", m, c, 4) = {"1"}
      /\ KindsAt("version", m, c, 5) = {","}
      /\ KindsAt("version", m, c, 6) = {"opt_out_steam_ids"}
      /\ KindsAt("version", m, c, 7) = {":"} /\ KindsAt("version", m, c, 8) = {"{"}
  BY <1>3, <1>4, PieceKinds, Zenon
<1>7. /\ KindsAt("opt_out_steam_ids", m, c, 1) = {"{"}
      /\ KindsAt("opt_out_steam_ids", m, c, 2) = {"opt_out_steam_ids"}
      /\ KindsAt("opt_out_steam_ids", m, c, 3) = {":"}
      /\ KindsAt("opt_out_steam_ids", m, c, 4) = {"{"}
  BY <1>3, <1>5, PieceKinds, Zenon
<1> QED
  BY <1>6, <1>7

LEMMA KindsInBody ==
    ASSUME NEW first \in BothKeys, NEW m \in Nat, NEW c, NEW i \in Nat,
           HeadingLength(first) < i, i <= HeadingLength(first) + m
    PROVE  KindsAt(first, m, c, i) = BodyKinds((i - HeadingLength(first)) % 4)
<1>1. HeadingLength(first) \in Nat
  BY DEF HeadingLength
<1>2. ~(i <= HeadingLength(first))
  BY <1>1
<1> QED
  BY <1>2 DEF KindsAt

LEMMA KindsInRest ==
    ASSUME NEW m \in Nat, NEW c
    PROVE  /\ KindsAt("version", m, c, 9 + m) = {"}"}
           /\ KindsAt("opt_out_steam_ids", m, c, 5 + m) = {"}"}
           /\ KindsAt("opt_out_steam_ids", m, c, 6 + m) = {","}
           /\ KindsAt("opt_out_steam_ids", m, c, 7 + m) = {"version"}
           /\ KindsAt("opt_out_steam_ids", m, c, 8 + m) = {":"}
           /\ KindsAt("opt_out_steam_ids", m, c, 9 + m) = {"1"}
<1>1. HeadingLength("version") = 8 /\ HeadingLength("opt_out_steam_ids") = 4
  BY DEF HeadingLength
<1>2. ASSUME NEW f \in {4, 8}, NEW j \in 1..5, NEW i, i = f + m + j, i <= 9 + m
      PROVE  ~(i <= f) /\ ~(i <= f + m) /\ i <= 9 + m /\ i - f - m = j
  BY <1>2
<1>3. ASSUME NEW first, NEW f \in {4, 8}, NEW j \in 1..5, NEW i, i = f + m + j, i <= 9 + m,
             HeadingLength(first) = f
      PROVE  KindsAt(first, m, c, i) = {Rest(first)[j].kind}
  <2>1. ~(i <= f) /\ ~(i <= f + m) /\ i <= 9 + m /\ i - f - m = j
    BY <1>2, <1>3
  <2> QED
    BY <1>3, <2>1, Zenon DEF KindsAt
<1>4. /\ 1 \in 1..5 /\ 2 \in 1..5 /\ 3 \in 1..5 /\ 4 \in 1..5 /\ 5 \in 1..5
      /\ 4 \in {4, 8} /\ 8 \in {4, 8}
      /\ 9 + m = 8 + m + 1 /\ 5 + m = 4 + m + 1 /\ 6 + m = 4 + m + 2 /\ 7 + m = 4 + m + 3
      /\ 8 + m = 4 + m + 4 /\ 9 + m = 4 + m + 5
      /\ 5 + m <= 9 + m /\ 6 + m <= 9 + m /\ 7 + m <= 9 + m /\ 8 + m <= 9 + m /\ 9 + m <= 9 + m
  OBVIOUS
<1>5. KindsAt("version", m, c, 9 + m) = {Rest("version")[1].kind}
  BY <1>1, <1>3, <1>4, Zenon
<1>6. /\ KindsAt("opt_out_steam_ids", m, c, 5 + m) = {Rest("opt_out_steam_ids")[1].kind}
      /\ KindsAt("opt_out_steam_ids", m, c, 6 + m) = {Rest("opt_out_steam_ids")[2].kind}
      /\ KindsAt("opt_out_steam_ids", m, c, 7 + m) = {Rest("opt_out_steam_ids")[3].kind}
  BY <1>1, <1>3, <1>4, Zenon
<1>7. /\ KindsAt("opt_out_steam_ids", m, c, 8 + m) = {Rest("opt_out_steam_ids")[4].kind}
      /\ KindsAt("opt_out_steam_ids", m, c, 9 + m) = {Rest("opt_out_steam_ids")[5].kind}
  BY <1>1, <1>3, <1>4, Zenon
<1> QED
  BY <1>5, <1>6, <1>7, PieceKinds, Zenon

LEMMA KindsInEnding ==
    ASSUME NEW first \in BothKeys, NEW m \in Nat
    PROVE  /\ KindsAt(first, m, 1, 10 + m) = {","}
           /\ KindsAt(first, m, 1, 11 + m) = {"}"}
           /\ KindsAt(first, m, 0, 10 + m) = {"}"}
<1>1. HeadingLength(first) \in 0..8
  BY DEF HeadingLength
<1>2. ASSUME NEW f \in 0..8, NEW j \in 1..2, NEW i, i = 9 + m + j
      PROVE  ~(i <= f) /\ ~(i <= f + m) /\ ~(i <= 9 + m) /\ i - 9 - m = j
  BY <1>2
<1>3. ASSUME NEW c, NEW j \in 1..2, NEW i, i = 9 + m + j
      PROVE  KindsAt(first, m, c, i) = {Ending(c)[j].kind}
  <2> DEFINE f == HeadingLength(first)
  <2>1. f \in 0..8
    BY <1>1
  <2> HIDE DEF f
  <2>2. ~(i <= f) /\ ~(i <= f + m) /\ ~(i <= 9 + m) /\ i - 9 - m = j
    BY <1>2, <1>3, <2>1
  <2> QED
    BY <2>2, Zenon DEF KindsAt, f
<1>4. 1 \in 1..2 /\ 2 \in 1..2 /\ 10 + m = 9 + m + 1 /\ 11 + m = 9 + m + 2
  OBVIOUS
<1>5. /\ KindsAt(first, m, 1, 10 + m) = {Ending(1)[1].kind}
      /\ KindsAt(first, m, 1, 11 + m) = {Ending(1)[2].kind}
      /\ KindsAt(first, m, 0, 10 + m) = {Ending(0)[1].kind}
  BY <1>3, <1>4, Zenon
<1> QED
  BY <1>5, PieceKinds, Zenon

-----------------------------------------------------------------------------
(* A unit that fits is accepted *)

NextKey(u)  == IF at = "key" /\ u.kind # "}" THEN u.kind ELSE key
NextKeys    == IF at = "value" THEN keys \cup {key} ELSE keys

\* An ID and a false value are what the parser takes there.
LEMMA EntryMoves ==
    ASSUME NEW u
    PROVE  /\ at = "entry" /\ u.kind = "quoted" => u.kind \in Takes[at] /\ Goes(u) = "entryColon"
           /\ at = "entryValue" /\ u.kind = "false" =>
                 u.kind \in Takes[at] /\ Goes(u) = "entryEnd"
<1>1. ASSUME at = "entry", u.kind = "quoted"
      PROVE  u.kind \in Takes[at] /\ Goes(u) = "entryColon"
  <2>1. u.kind \in Takes[at]
    BY <1>1 DEF Takes
  <2>2. Goes(u) = "entryColon"
    BY <1>1 DEF Goes
  <2> QED
    BY <2>1, <2>2
<1>2. ASSUME at = "entryValue", u.kind = "false"
      PROVE  u.kind \in Takes[at] /\ Goes(u) = "entryEnd"
  <2>1. u.kind \in Takes[at]
    BY <1>2 DEF Takes
  <2>2. Goes(u) = "entryEnd"
    BY <1>2 DEF Goes
  <2> QED
    BY <2>1, <2>2
<1> QED
  BY <1>1, <1>2

\* A unit the parser takes is accepted, wherever in a shape it then is.
LEMMA StepTaken ==
    ASSUME NEW first, NEW m, NEW c, NEW p, NEW u, u.kind \in Takes[at], u.kind # "quoted",
           at = "value" => key \notin keys,
           \/ InHeading(first, p, Goes(u), NextKey(u), NextKeys)
           \/ InBody(first, m, p, Goes(u), NextKeys)
           \/ InRest(first, m, p, Goes(u), NextKey(u), NextKeys)
           \/ InEnding(m, c, p, Goes(u), NextKeys)
    PROVE  Accepts(u) /\ StateAt(first, m, c, p, Goes(u), NextKey(u), NextKeys)
BY DEF Accepts, KeyIsNew, StateAt

\* What stands next in a document is accepted, and leads to the next place: before the
\* entries, in them, between them and the end, and at the end.
LEMMA FollowsInHeading ==
    ASSUME NEW first \in BothKeys, NEW m \in Lengths, NEW c \in 0..1, NEW n \in Nat,
           NEW p \in Nat, p = n + 1,
           InHeading(first, n, at, key, keys), NEW u, u.kind \in KindsAt(first, m, c, p)
    PROVE  Accepts(u) /\ StateAt(first, m, c, p, Goes(u), NextKey(u), NextKeys)
<1>0. m \in Nat /\ first \in BothKeys /\ (first = "version" \/ first = "opt_out_steam_ids")
  BY DEF Lengths, BothKeys
<1>10. /\ KindsAt(first, m, c, 1) = {"{"} /\ KindsAt(first, m, c, 2) = {first}
       /\ KindsAt(first, m, c, 3) = {":"}
  <2>1. CASE first = "version"
    BY <2>1, KindsInHeading, Zenon
  <2>2. CASE first = "opt_out_steam_ids"
    BY <2>2, KindsInHeading, Zenon
  <2> QED
    BY <1>0, <2>1, <2>2
<1>1. CASE n = 0 /\ at = "start" /\ keys = {}
  <2>1. p = 1
    BY <1>0, <1>1
  <2>2. u.kind = "{"
    <3>1. KindsAt(first, m, c, 1) = {"{"}
      BY <1>10
    <3> QED
      BY <2>1, <3>1, Zenon
  <2>3. u.kind \in Takes[at] /\ Goes(u) = "key"
    BY <1>1, <2>2, Moves
  <2>4. u.kind # "quoted" /\ (at = "value" => key \notin keys)
    BY <1>0, <1>1, <2>2
  <2>5. NextKeys = {}
    BY <1>0, <1>1, <2>2 DEF NextKeys
  <2>6. InHeading(first, p, Goes(u), NextKey(u), NextKeys)
    BY <1>0, <1>1, <2>1, <2>3, <2>5 DEF InHeading
  <2> QED
    BY <2>3, <2>4, <2>6, StepTaken, Zenon
<1>2. CASE n = 1 /\ at = "key" /\ keys = {}
  <2>1. p = 2
    BY <1>0, <1>2
  <2>2. u.kind = first
    <3>1. KindsAt(first, m, c, 2) = {first}
      BY <1>10
    <3> QED
      BY <2>1, <3>1, Zenon
  <2>3. u.kind \in Takes[at] /\ Goes(u) = "colon"
    BY <1>0, <1>2, <2>2, Moves DEF BothKeys
  <2>4. u.kind # "quoted" /\ (at = "value" => key \notin keys)
    BY <1>0, <1>2, <2>2 DEF BothKeys
  <2>5. NextKeys = {} /\ NextKey(u) = first
    BY <1>0, <1>2, <2>2 DEF NextKeys, NextKey, BothKeys
  <2>6. InHeading(first, p, Goes(u), NextKey(u), NextKeys)
    BY <1>0, <1>2, <2>1, <2>3, <2>5 DEF InHeading
  <2> QED
    BY <2>3, <2>4, <2>6, StepTaken, Zenon
<1>3. CASE n = 2 /\ at = "colon" /\ keys = {} /\ key = first
  <2>1. p = 3
    BY <1>0, <1>3
  <2>2. u.kind = ":"
    <3>1. KindsAt(first, m, c, 3) = {":"}
      BY <1>10
    <3> QED
      BY <2>1, <3>1, Zenon
  <2>3. u.kind \in Takes[at] /\ Goes(u) = "value"
    BY <1>3, <2>2, Moves
  <2>4. u.kind # "quoted" /\ (at = "value" => key \notin keys)
    BY <1>0, <1>3, <2>2 DEF BothKeys
  <2>5. NextKeys = {} /\ NextKey(u) = first
    BY <1>0, <1>3, <2>2 DEF NextKeys, NextKey, BothKeys
  <2>6. InHeading(first, p, Goes(u), NextKey(u), NextKeys)
    BY <1>0, <1>3, <2>1, <2>3, <2>5 DEF InHeading
  <2> QED
    BY <2>3, <2>4, <2>6, StepTaken, Zenon
<1>4. CASE n = 3 /\ at = "value" /\ keys = {} /\ key = first /\ first = "version"
  <2>1. p = 4
    BY <1>0, <1>4
  <2>2. u.kind = "1"
    <3>1. KindsAt(first, m, c, 4) = {"1"}
      BY <1>0, <1>4, KindsInHeading
    <3> QED
      BY <2>1, <3>1, Zenon
  <2>3. u.kind \in Takes[at] /\ Goes(u) = "pairEnd"
    BY <1>4, <2>2, Moves
  <2>4. u.kind # "quoted" /\ (at = "value" => key \notin keys)
    BY <1>0, <1>4, <2>2 DEF BothKeys
  <2>5. NextKeys = {"version"}
    BY <1>0, <1>4, <2>2 DEF NextKeys
  <2>6. InHeading(first, p, Goes(u), NextKey(u), NextKeys)
    BY <1>0, <1>4, <2>1, <2>3, <2>5 DEF InHeading
  <2> QED
    BY <2>3, <2>4, <2>6, StepTaken, Zenon
<1>5. CASE n = 3 /\ at = "value" /\ keys = {} /\ key = first /\ first = "opt_out_steam_ids"
  <2>1. p = 4
    BY <1>0, <1>5
  <2>2. u.kind = "{"
    <3>1. KindsAt(first, m, c, 4) = {"{"}
      BY <1>0, <1>5, KindsInHeading
    <3> QED
      BY <2>1, <3>1, Zenon
  <2>3. u.kind \in Takes[at] /\ Goes(u) = "entry"
    BY <1>5, <2>2, Moves
  <2>4. u.kind # "quoted" /\ (at = "value" => key \notin keys)
    BY <1>0, <1>5, <2>2 DEF BothKeys
  <2>5. NextKeys = {"opt_out_steam_ids"}
    BY <1>0, <1>5, <2>2 DEF NextKeys
  <2>6. InBody(first, m, p, Goes(u), NextKeys)
    BY <1>0, <1>5, <2>1, <2>3, <2>5 DEF InBody, HeadingLength, BodyPlace, FirstKeys
  <2> QED
    BY <2>3, <2>4, <2>6, StepTaken, Zenon
<1>6. CASE first = "version" /\ n = 4 /\ at = "pairEnd" /\ keys = {"version"}
  <2>1. p = 5
    BY <1>0, <1>6
  <2>2. u.kind = ","
    <3>1. KindsAt(first, m, c, 5) = {","}
      BY <1>0, <1>6, KindsInHeading
    <3> QED
      BY <2>1, <3>1, Zenon
  <2>3. u.kind \in Takes[at] /\ Goes(u) = "key"
    BY <1>6, <2>2, Moves
  <2>4. u.kind # "quoted" /\ (at = "value" => key \notin keys)
    BY <1>0, <1>6, <2>2
  <2>5. NextKeys = {"version"}
    BY <1>0, <1>6, <2>2 DEF NextKeys
  <2>6. InHeading(first, p, Goes(u), NextKey(u), NextKeys)
    BY <1>0, <1>6, <2>1, <2>3, <2>5 DEF InHeading
  <2> QED
    BY <2>3, <2>4, <2>6, StepTaken, Zenon
<1>7. CASE first = "version" /\ n = 5 /\ at = "key" /\ keys = {"version"}
  <2>1. p = 6
    BY <1>0, <1>7
  <2>2. u.kind = "opt_out_steam_ids"
    <3>1. KindsAt(first, m, c, 6) = {"opt_out_steam_ids"}
      BY <1>0, <1>7, KindsInHeading
    <3> QED
      BY <2>1, <3>1, Zenon
  <2>3. u.kind \in Takes[at] /\ Goes(u) = "colon"
    BY <1>0, <1>7, <2>2, Moves DEF BothKeys
  <2>4. u.kind # "quoted" /\ (at = "value" => key \notin keys)
    BY <1>0, <1>7, <2>2
  <2>5. NextKeys = {"version"} /\ NextKey(u) = "opt_out_steam_ids"
    BY <1>0, <1>7, <2>2 DEF NextKeys, NextKey
  <2>6. InHeading(first, p, Goes(u), NextKey(u), NextKeys)
    BY <1>0, <1>7, <2>1, <2>3, <2>5 DEF InHeading
  <2> QED
    BY <2>3, <2>4, <2>6, StepTaken, Zenon
<1>8. CASE first = "version" /\ n = 6 /\ at = "colon" /\ keys = {"version"} /\ key = "opt_out_steam_ids"
  <2>1. p = 7
    BY <1>0, <1>8
  <2>2. u.kind = ":"
    <3>1. KindsAt(first, m, c, 7) = {":"}
      BY <1>0, <1>8, KindsInHeading
    <3> QED
      BY <2>1, <3>1, Zenon
  <2>3. u.kind \in Takes[at] /\ Goes(u) = "value"
    BY <1>8, <2>2, Moves
  <2>4. u.kind # "quoted" /\ (at = "value" => key \notin keys)
    BY <1>0, <1>8, <2>2
  <2>5. NextKeys = {"version"} /\ NextKey(u) = "opt_out_steam_ids"
    BY <1>0, <1>8, <2>2 DEF NextKeys, NextKey
  <2>6. InHeading(first, p, Goes(u), NextKey(u), NextKeys)
    BY <1>0, <1>8, <2>1, <2>3, <2>5 DEF InHeading
  <2> QED
    BY <2>3, <2>4, <2>6, StepTaken, Zenon
<1>9. CASE first = "version" /\ n = 7 /\ at = "value" /\ keys = {"version"} /\ key = "opt_out_steam_ids"
  <2>1. p = 8
    BY <1>0, <1>9
  <2>2. u.kind = "{"
    <3>1. KindsAt(first, m, c, 8) = {"{"}
      BY <1>0, <1>9, KindsInHeading
    <3> QED
      BY <2>1, <3>1, Zenon
  <2>3. u.kind \in Takes[at] /\ Goes(u) = "entry"
    BY <1>9, <2>2, Moves
  <2>4. u.kind # "quoted" /\ (at = "value" => key \notin keys)
    BY <1>0, <1>9, <2>2
  <2>5. NextKeys = BothKeys
    BY <1>0, <1>9, <2>2 DEF NextKeys, BothKeys
  <2>6. InBody(first, m, p, Goes(u), NextKeys)
    BY <1>0, <1>9, <2>1, <2>3, <2>5 DEF InBody, HeadingLength, BodyPlace, FirstKeys
  <2> QED
    BY <2>3, <2>4, <2>6, StepTaken, Zenon
<1> QED
  BY <1>0, <1>1, <1>2, <1>3, <1>4, <1>5, <1>6, <1>7, <1>8, <1>9 DEF InHeading

\* Places and kinds in the entries.
LEMMA BodySteps ==
    /\ BodyPlace(0) = "entry" /\ BodyPlace(1) = "entryColon"
    /\ BodyPlace(2) = "entryValue" /\ BodyPlace(3) = "entryEnd"
    /\ BodyKinds(1) = {"quoted"} /\ BodyKinds(2) = {":"}
    /\ BodyKinds(3) = {"true", "false"} /\ BodyKinds(0) = {","}
BY DEF BodyPlace, BodyKinds

LEMMA FollowsInBody ==
    ASSUME NEW first \in BothKeys, NEW m \in Lengths, NEW c \in 0..1, NEW n \in Nat,
           NEW p \in Nat, p = n + 1,
           InBody(first, m, n, at, keys), NEW u, u.kind \in KindsAt(first, m, c, p),
           u.kind = "quoted" => IdIsNew(u.text)
    PROVE  Accepts(u) /\ StateAt(first, m, c, p, Goes(u), NextKey(u), NextKeys)
<1> DEFINE f == HeadingLength(first)
           j == n - f
<1>0. /\ m \in Nat /\ (m % 4 = 0 \/ m % 4 = 3) /\ f \in Nat /\ j \in Nat /\ j <= m /\ n = f + j
      /\ \/ f = 8 /\ first = "version"
         \/ f = 4 /\ first = "opt_out_steam_ids"
  BY DEF Lengths, HeadingLength, InBody, BothKeys
<1>1. at = BodyPlace(j % 4) /\ keys = FirstKeys(first)
  BY DEF InBody
<1>2. at # "value" /\ at # "key" /\ j % 4 \in 0..3
  <2>1. j % 4 \in 0..3
    BY <1>0
  <2>2. j % 4 = 0 \/ j % 4 = 1 \/ j % 4 = 2 \/ j % 4 = 3
    BY <2>1
  <2> QED
    BY <1>1, <2>1, <2>2, BodySteps
<1>3. NextKeys = keys
  BY <1>2 DEF NextKeys
<1>4. CASE j = m
  <2>1. u.kind = "}"
    <3>1. p = f + m + 1
      BY <1>0, <1>4
    <3> HIDE DEF j
    <3>2. CASE f = 8 /\ first = "version"
      <4>1. p = 9 + m
        BY <1>0, <3>1, <3>2
      <4>2. KindsAt(first, m, c, 9 + m) = {"}"}
        BY <1>0, <3>2, KindsInRest, Zenon
      <4> QED
        BY <4>1, <4>2, Zenon
    <3>3. CASE f = 4 /\ first = "opt_out_steam_ids"
      <4>1. p = 5 + m
        BY <1>0, <3>1, <3>3
      <4>2. KindsAt(first, m, c, 5 + m) = {"}"}
        BY <1>0, <3>3, KindsInRest, Zenon
      <4> QED
        BY <4>1, <4>2, Zenon
    <3> QED
      BY <1>0, <3>2, <3>3
  <2>2. at = "entry" \/ at = "entryEnd"
    BY <1>0, <1>1, <1>4, BodySteps
  <2>3. u.kind \in Takes[at] /\ Goes(u) = "pairEnd"
    BY <2>1, <2>2, Moves
  <2>4. Accepts(u)
    BY <1>2, <2>1, <2>3 DEF Accepts
  <2>5. CASE first = "version"
    <3>1. p = 9 + m
      BY <1>0, <1>4, <2>5
    <3> QED
      BY <1>1, <1>3, <2>3, <2>4, <2>5, <3>1 DEF StateAt, InEnding, FirstKeys
  <2>6. CASE first = "opt_out_steam_ids"
    <3>1. p = 5 + m
      BY <1>0, <1>4, <2>6
    <3> QED
      BY <1>1, <1>3, <2>3, <2>4, <2>6, <3>1 DEF StateAt, InRest, FirstKeys
  <2> QED
    BY <1>0, <2>5, <2>6
<1>5. CASE j < m
  <2>1. f < p /\ p <= f + m /\ p - f = j + 1
    BY <1>0, <1>5
  <2>2. u.kind \in BodyKinds((j + 1) % 4)
    <3>1. KindsAt(first, m, c, p) = BodyKinds((p - f) % 4)
      BY <1>0, <2>1, KindsInBody
    <3> QED
      BY <2>1, <3>1
  <2>3. /\ j % 4 = 0 => (j + 1) % 4 = 1
        /\ j % 4 = 1 => (j + 1) % 4 = 2
        /\ j % 4 = 2 => (j + 1) % 4 = 3
        /\ j % 4 = 3 => (j + 1) % 4 = 0
    <3> HIDE DEF j
    <3> QED
      BY <1>0
  <2>4. Accepts(u) /\ Goes(u) = BodyPlace((j + 1) % 4)
    <3> HIDE DEF j
    <3>1. CASE j % 4 = 0
      <4>1. at = "entry" /\ u.kind = "quoted"
        BY <1>1, <2>2, <2>3, <3>1, BodySteps
      <4> QED
        BY <1>2, <2>3, <3>1, <4>1, EntryMoves, BodySteps DEF Accepts
    <3>2. CASE j % 4 = 1
      <4>1. at = "entryColon" /\ u.kind = ":"
        BY <1>1, <2>2, <2>3, <3>2, BodySteps
      <4> QED
        BY <1>2, <2>3, <3>2, <4>1, Moves, BodySteps DEF Accepts
    <3>3. CASE j % 4 = 2
      <4>1. at = "entryValue" /\ u.kind \in {"true", "false"}
        BY <1>1, <2>2, <2>3, <3>3, BodySteps
      <4>2. u.kind \in Takes[at] /\ Goes(u) = "entryEnd"
        BY <4>1, Moves, EntryMoves
      <4> QED
        BY <1>2, <2>3, <3>3, <4>1, <4>2, BodySteps DEF Accepts
    <3>4. CASE j % 4 = 3
      <4>1. at = "entryEnd" /\ u.kind = ","
        BY <1>1, <2>2, <2>3, <3>4, BodySteps
      <4> QED
        BY <1>2, <2>3, <3>4, <4>1, Moves, BodySteps DEF Accepts
    <3> QED
      BY <1>2, <3>1, <3>2, <3>3, <3>4
  <2>5. InBody(first, m, p, Goes(u), NextKeys)
    BY <1>0, <1>1, <1>3, <2>1, <2>4 DEF InBody
  <2> QED
    BY <2>4, <2>5 DEF StateAt
<1> QED
  BY <1>0, <1>4, <1>5

LEMMA FollowsInRest ==
    ASSUME NEW first \in BothKeys, NEW m \in Lengths, NEW c \in 0..1, NEW n \in Nat,
           NEW p \in Nat, p = n + 1,
           InRest(first, m, n, at, key, keys), NEW u, u.kind \in KindsAt(first, m, c, p)
    PROVE  Accepts(u) /\ StateAt(first, m, c, p, Goes(u), NextKey(u), NextKeys)
<1>0. /\ m \in Nat /\ keys = {"opt_out_steam_ids"}
      /\ first \in BothKeys /\ first = "opt_out_steam_ids"
  BY DEF Lengths, InRest
<1>1. CASE n = 5 + m /\ at = "pairEnd"
  <2>1. p = 6 + m
    BY <1>0, <1>1
  <2>2. u.kind = ","
    <3>1. KindsAt(first, m, c, 6 + m) = {","}
      BY <1>0, <1>1, KindsInRest
    <3> QED
      BY <2>1, <3>1, Zenon
  <2>3. u.kind \in Takes[at] /\ Goes(u) = "key"
    BY <1>1, <2>2, Moves
  <2>4. u.kind # "quoted" /\ (at = "value" => key \notin keys)
    BY <1>0, <1>1, <2>2
  <2>5. NextKeys = {"opt_out_steam_ids"}
    BY <1>0, <1>1, <2>2 DEF NextKeys
  <2>6. InRest(first, m, p, Goes(u), NextKey(u), NextKeys)
    BY <1>0, <1>1, <2>1, <2>3, <2>5 DEF InRest
  <2> QED
    BY <2>3, <2>4, <2>6, StepTaken, Zenon
<1>2. CASE n = 6 + m /\ at = "key"
  <2>1. p = 7 + m
    BY <1>0, <1>2
  <2>2. u.kind = "version"
    <3>1. KindsAt(first, m, c, 7 + m) = {"version"}
      BY <1>0, <1>2, KindsInRest
    <3> QED
      BY <2>1, <3>1, Zenon
  <2>3. u.kind \in Takes[at] /\ Goes(u) = "colon"
    BY <1>0, <1>2, <2>2, Moves DEF BothKeys
  <2>4. u.kind # "quoted" /\ (at = "value" => key \notin keys)
    BY <1>0, <1>2, <2>2
  <2>5. NextKeys = {"opt_out_steam_ids"} /\ NextKey(u) = "version"
    BY <1>0, <1>2, <2>2 DEF NextKeys, NextKey
  <2>6. InRest(first, m, p, Goes(u), NextKey(u), NextKeys)
    BY <1>0, <1>2, <2>1, <2>3, <2>5 DEF InRest
  <2> QED
    BY <2>3, <2>4, <2>6, StepTaken, Zenon
<1>3. CASE n = 7 + m /\ at = "colon" /\ key = "version"
  <2>1. p = 8 + m
    BY <1>0, <1>3
  <2>2. u.kind = ":"
    <3>1. KindsAt(first, m, c, 8 + m) = {":"}
      BY <1>0, <1>3, KindsInRest
    <3> QED
      BY <2>1, <3>1, Zenon
  <2>3. u.kind \in Takes[at] /\ Goes(u) = "value"
    BY <1>3, <2>2, Moves
  <2>4. u.kind # "quoted" /\ (at = "value" => key \notin keys)
    BY <1>0, <1>3, <2>2
  <2>5. NextKeys = {"opt_out_steam_ids"} /\ NextKey(u) = "version"
    BY <1>0, <1>3, <2>2 DEF NextKeys, NextKey
  <2>6. InRest(first, m, p, Goes(u), NextKey(u), NextKeys)
    BY <1>0, <1>3, <2>1, <2>3, <2>5 DEF InRest
  <2> QED
    BY <2>3, <2>4, <2>6, StepTaken, Zenon
<1>4. CASE n = 8 + m /\ at = "value" /\ key = "version"
  <2>1. p = 9 + m
    BY <1>0, <1>4
  <2>2. u.kind = "1"
    <3>1. KindsAt(first, m, c, 9 + m) = {"1"}
      BY <1>0, <1>4, KindsInRest
    <3> QED
      BY <2>1, <3>1, Zenon
  <2>3. u.kind \in Takes[at] /\ Goes(u) = "pairEnd"
    BY <1>4, <2>2, Moves
  <2>4. u.kind # "quoted" /\ (at = "value" => key \notin keys)
    BY <1>0, <1>4, <2>2
  <2>5. NextKeys = BothKeys
    BY <1>0, <1>4, <2>2 DEF NextKeys, BothKeys
  <2>6. InEnding(m, c, p, Goes(u), NextKeys)
    BY <1>0, <1>4, <2>1, <2>3, <2>5 DEF InEnding, Total
  <2> QED
    BY <2>3, <2>4, <2>6, StepTaken, Zenon
<1> QED
  BY <1>1, <1>2, <1>3, <1>4 DEF InRest

LEMMA FollowsInEnding ==
    ASSUME NEW first \in BothKeys, NEW m \in Lengths, NEW c \in 0..1, NEW n \in Nat,
           NEW p \in Nat, p = n + 1, n < Total(m, c),
           InEnding(m, c, n, at, keys), NEW u, u.kind \in KindsAt(first, m, c, p)
    PROVE  Accepts(u) /\ StateAt(first, m, c, p, Goes(u), NextKey(u), NextKeys)
<1>0. m \in Nat /\ c \in 0..1 /\ (c = 0 \/ c = 1) /\ keys = BothKeys
  BY DEF Lengths, InEnding
<1>1. CASE n = 9 + m /\ at = "pairEnd" /\ c = 1
  <2>1. p = 10 + m
    BY <1>0, <1>1
  <2>2. u.kind = ","
    <3>1. KindsAt(first, m, c, 10 + m) = {","}
      BY <1>0, <1>1, KindsInEnding
    <3> QED
      BY <2>1, <3>1, Zenon
  <2>3. u.kind \in Takes[at] /\ Goes(u) = "key"
    BY <1>1, <2>2, Moves
  <2>4. u.kind # "quoted" /\ (at = "value" => key \notin keys)
    BY <1>0, <1>1, <2>2
  <2>5. NextKeys = BothKeys
    BY <1>0, <1>1, <2>2 DEF NextKeys, BothKeys
  <2>6. InEnding(m, c, p, Goes(u), NextKeys)
    BY <1>0, <1>1, <2>1, <2>3, <2>5 DEF InEnding, Total
  <2> QED
    BY <2>3, <2>4, <2>6, StepTaken, Zenon
<1>2. CASE n = 9 + m /\ at = "pairEnd" /\ c = 0
  <2>1. p = 10 + m
    BY <1>0, <1>2
  <2>2. u.kind = "}"
    <3>1. KindsAt(first, m, c, 10 + m) = {"}"}
      BY <1>0, <1>2, KindsInEnding
    <3> QED
      BY <2>1, <3>1, Zenon
  <2>3. u.kind \in Takes[at] /\ Goes(u) = "tail"
    BY <1>2, <2>2, Moves
  <2>4. u.kind # "quoted" /\ (at = "value" => key \notin keys)
    BY <1>0, <1>2, <2>2
  <2>5. NextKeys = BothKeys
    BY <1>0, <1>2, <2>2 DEF NextKeys, BothKeys
  <2>6. InEnding(m, c, p, Goes(u), NextKeys)
    BY <1>0, <1>2, <2>1, <2>3, <2>5 DEF InEnding, Total
  <2> QED
    BY <2>3, <2>4, <2>6, StepTaken, Zenon
<1>3. CASE c = 1 /\ n = 10 + m /\ at = "key"
  <2>1. p = 11 + m
    BY <1>0, <1>3
  <2>2. u.kind = "}"
    <3>1. KindsAt(first, m, c, 11 + m) = {"}"}
      BY <1>0, <1>3, KindsInEnding
    <3> QED
      BY <2>1, <3>1, Zenon
  <2>3. u.kind \in Takes[at]
    BY <1>3, <2>2 DEF Takes
  <2>4. Goes(u) = "tail"
    BY <1>3, <2>2 DEF Goes
  <2>5. NextKeys = BothKeys
    BY <1>0, <1>3 DEF NextKeys
  <2>6. InEnding(m, c, p, Goes(u), NextKeys)
    BY <1>0, <1>3, <2>1, <2>4, <2>5 DEF InEnding, Total
  <2>7. u.kind # "quoted" /\ at # "value"
    BY <1>3, <2>2
  <2> QED
    BY <2>3, <2>6, <2>7, StepTaken, Zenon
<1>4. ~(n = Total(m, c))
  BY <1>0 DEF Total
<1> QED
  BY <1>0, <1>1, <1>2, <1>3, <1>4 DEF InEnding

\* The parser follows every document: what stands next in one is accepted.
LEMMA Follows ==
    ASSUME NEW first \in BothKeys, NEW m \in Lengths, NEW c \in 0..1, NEW n \in Nat,
           NEW p \in Nat, p = n + 1,
           n < Total(m, c), StateAt(first, m, c, n, at, key, keys),
           NEW u, u.kind \in KindsAt(first, m, c, p), u.kind = "quoted" => IdIsNew(u.text)
    PROVE  Accepts(u) /\ StateAt(first, m, c, p, Goes(u), NextKey(u), NextKeys)
<1>1. CASE InHeading(first, n, at, key, keys)
  BY <1>1, FollowsInHeading, Zenon
<1>2. CASE InBody(first, m, n, at, keys)
  BY <1>2, FollowsInBody, Zenon
<1>3. CASE InRest(first, m, n, at, key, keys)
  BY <1>3, FollowsInRest, Zenon
<1>4. CASE InEnding(m, c, n, at, keys)
  BY <1>4, FollowsInEnding, Zenon
<1> QED
  BY <1>1, <1>2, <1>3, <1>4 DEF StateAt

-----------------------------------------------------------------------------
(* A unit that is accepted fits a document, unless the parser is stuck *)

\* What the parser takes at each place.
LEMMA Taken ==
    ASSUME NEW u, u.kind \in Takes[at]
    PROVE  /\ at = "start" => u.kind = "{"
           /\ at = "key" => u.kind = "}" \/ u.kind = "version" \/ u.kind = "opt_out_steam_ids"
           /\ at \in {"colon", "entryColon"} => u.kind = ":"
           /\ at = "value" => u.kind = IF key = "version" THEN "1" ELSE "{"
           /\ at \in {"pairEnd", "entryEnd"} => u.kind = "," \/ u.kind = "}"
           /\ at = "entry" => u.kind = "}" \/ u.kind = "quoted"
           /\ at = "entryValue" => u.kind \in {"true", "false"}
           /\ at # "tail"
<1>1. ASSUME at = "start"
      PROVE  u.kind = "{"
  <2>1. Takes["start"] = {"{"}
    BY DEF Takes
  <2>2. u.kind \in Takes["start"]
    BY <1>1, Zenon
  <2> QED
    BY <2>1, <2>2
<1>2. ASSUME at = "key"
      PROVE  u.kind = "}" \/ u.kind = "version" \/ u.kind = "opt_out_steam_ids"
  <2>1. Takes["key"] = {"}", "version", "opt_out_steam_ids"}
    BY DEF Takes
  <2>2. u.kind \in Takes["key"]
    BY <1>2, Zenon
  <2> QED
    BY <2>1, <2>2
<1>3. ASSUME at = "colon"
      PROVE  u.kind = ":"
  <2>1. Takes["colon"] = {":"}
    BY DEF Takes
  <2>2. u.kind \in Takes["colon"]
    BY <1>3, Zenon
  <2> QED
    BY <2>1, <2>2
<1>4. ASSUME at = "entryColon"
      PROVE  u.kind = ":"
  <2>1. Takes["entryColon"] = {":"}
    BY DEF Takes
  <2>2. u.kind \in Takes["entryColon"]
    BY <1>4, Zenon
  <2> QED
    BY <2>1, <2>2
<1>5. ASSUME at = "value"
      PROVE  u.kind = IF key = "version" THEN "1" ELSE "{"
  <2>1. Takes["value"] = IF key = "version" THEN {"1"} ELSE {"{"}
    BY DEF Takes
  <2>2. u.kind \in Takes["value"]
    BY <1>5, Zenon
  <2> QED
    BY <2>1, <2>2
<1>6. ASSUME at = "pairEnd"
      PROVE  u.kind = "," \/ u.kind = "}"
  <2>1. Takes["pairEnd"] = {",", "}"}
    BY DEF Takes
  <2>2. u.kind \in Takes["pairEnd"]
    BY <1>6, Zenon
  <2> QED
    BY <2>1, <2>2
<1>7. ASSUME at = "entryEnd"
      PROVE  u.kind = "," \/ u.kind = "}"
  <2>1. Takes["entryEnd"] = {",", "}"}
    BY DEF Takes
  <2>2. u.kind \in Takes["entryEnd"]
    BY <1>7, Zenon
  <2> QED
    BY <2>1, <2>2
<1>8. ASSUME at = "entry"
      PROVE  u.kind = "}" \/ u.kind = "quoted"
  <2>1. Takes["entry"] = {"}", "quoted"}
    BY DEF Takes
  <2>2. u.kind \in Takes["entry"]
    BY <1>8, Zenon
  <2> QED
    BY <2>1, <2>2
<1>9. ASSUME at = "entryValue"
      PROVE  u.kind \in {"true", "false"}
  <2>1. Takes["entryValue"] = {"true", "false"}
    BY DEF Takes
  <2>2. u.kind \in Takes["entryValue"]
    BY <1>9, Zenon
  <2> QED
    BY <2>1, <2>2
<1>10. ASSUME at = "tail"
      PROVE  FALSE
  <2>1. Takes["tail"] = {}
    BY DEF Takes
  <2>2. u.kind \in Takes["tail"]
    BY <1>10, Zenon
  <2> QED
    BY <2>1, <2>2
<1> QED
  BY <1>1, <1>2, <1>3, <1>4, <1>5, <1>6, <1>7, <1>8, <1>9, <1>10

\* Shapes agree on the places before they part.
Agree(first, m, c, other, k, d, n) ==
    \A i \in 1..n : KindsAt(first, m, c, i) = KindsAt(other, k, d, i)

\* Documents that differ in their entries agree up to where the shorter ones end.
LEMMA AgreeInBody ==
    ASSUME NEW first \in BothKeys, NEW m \in Nat, NEW c, NEW k \in Nat, NEW d, NEW n \in Nat,
           n <= HeadingLength(first) + m, n <= HeadingLength(first) + k
    PROVE  Agree(first, m, c, first, k, d, n)
<1> DEFINE f == HeadingLength(first)
<1>1. f \in Nat
  BY DEF HeadingLength
<1> HIDE DEF f
<1>2. \A i \in 1..n : i <= f + m /\ i <= f + k
  BY <1>1 DEF f
<1> QED
  BY <1>2 DEF Agree, KindsAt, f

\* A comma behind the second value differs from none only at the end.
LEMMA AgreeBeforeComma ==
    ASSUME NEW first \in BothKeys, NEW m \in Nat, NEW c, NEW d, NEW n \in Nat, n <= 9 + m
    PROVE  Agree(first, m, c, first, m, d, n)
<1>1. \A i \in 1..n : i <= 9 + m
  OBVIOUS
<1> QED
  BY <1>1 DEF Agree, KindsAt

\* Some document begins with the units read so far and this one.
Continues(first, m, c, n, u) ==
    \E other \in BothKeys, k \in Lengths, d \in 0..1 :
        /\ n < Total(k, d)
        /\ StateAt(other, k, d, n, at, key, keys)
        /\ u.kind \in KindsAt(other, k, d, n + 1)
        /\ Agree(first, m, c, other, k, d, n)

\* What stands next in the document itself continues it.
LEMMA Itself ==
    ASSUME NEW first \in BothKeys, NEW m \in Lengths, NEW c \in 0..1, NEW n \in Nat,
           NEW p, p = n + 1, NEW u, n < Total(m, c),
           StateAt(first, m, c, n, at, key, keys), u.kind \in KindsAt(first, m, c, p)
    PROVE  Continues(first, m, c, n, u)
<1>1. Agree(first, m, c, first, m, c, n)
  BY DEF Agree
<1>2. u.kind \in KindsAt(first, m, c, n + 1)
  OBVIOUS
<1> QED
  BY <1>1, <1>2 DEF Continues
\* A closing brace in place of a key, or too early, and a key that comes again.
LEMMA StuckAtBrace ==
    ASSUME NEW u, at = "key" \/ at = "pairEnd", u.kind = "}", keys # BothKeys
    PROVE  Dead(Goes(u), NextKey(u), NextKeys)
<1>1. Goes(u) = "tail"
  BY DEF Goes
<1>2. NextKeys = keys
  BY DEF NextKeys
<1> QED
  BY <1>1, <1>2 DEF Dead

\* A key that has come leaves the other.
LEMMA OneKeyLeft ==
    /\ BothKeys # {} /\ BothKeys # {"version"} /\ BothKeys # {"opt_out_steam_ids"}
    /\ "version" \in BothKeys /\ "opt_out_steam_ids" \in BothKeys
BY DEF BothKeys

\* A key that comes again gets the parser stuck.
LEMMA StuckAtKey ==
    ASSUME NEW u, at = "key", u.kind \in BothKeys, u.kind \in keys
    PROVE  Dead(Goes(u), NextKey(u), NextKeys)
<1>1. Goes(u) = "colon"
  BY Moves
<1>2. NextKeys = keys /\ NextKey(u) = u.kind
  BY DEF NextKeys, NextKey, BothKeys
<1> QED
  BY <1>1, <1>2 DEF Dead

\* What the parser takes continues some document that agrees up to here, or gets it
\* stuck: the same four parts.
LEMMA ChoosesInHeading ==
    ASSUME NEW first \in BothKeys, NEW m \in Lengths, NEW c \in 0..1, NEW n \in Nat,
           NEW p \in Nat, p = n + 1, NEW u, u.kind \in Takes[at],
           at = "value" => key \notin keys, InHeading(first, n, at, key, keys)
    PROVE  Continues(first, m, c, n, u) \/ Dead(Goes(u), NextKey(u), NextKeys)
<1>0. /\ m \in Nat /\ m \in Lengths /\ c \in 0..1 /\ c \in Nat /\ n \in Nat
      /\ first \in BothKeys /\ (first = "version" \/ first = "opt_out_steam_ids")
      /\ StateAt(first, m, c, n, at, key, keys) /\ p = n + 1
  BY DEF Lengths, BothKeys, StateAt
<1>10. /\ KindsAt(first, m, c, 1) = {"{"} /\ KindsAt(first, m, c, 3) = {":"}
  <2>1. CASE first = "version"
    BY <2>1, KindsInHeading, Zenon
  <2>2. CASE first = "opt_out_steam_ids"
    BY <2>2, KindsInHeading, Zenon
  <2> QED
    BY <1>0, <2>1, <2>2
<1>1. CASE n = 0 /\ at = "start"
  <2>1. u.kind = "{"
    BY <1>0, <1>1, Taken DEF BothKeys
  <2>2. KindsAt(first, m, c, 1) = {"{"}
    BY <1>0, <1>1, <1>10
  <2>3. p = 1 /\ n < Total(m, c)
    BY <1>0, <1>1 DEF Total
  <2>4. u.kind \in KindsAt(first, m, c, p)
    BY <2>1, <2>2, <2>3, Zenon
  <2> QED
    BY <1>0, <2>3, <2>4, Itself, Zenon
<1>2. CASE n = 1 /\ at = "key" /\ keys = {}
  <2>1. CASE u.kind = "}"
    <3>1. (at = "key" \/ at = "pairEnd") /\ keys # BothKeys
      BY <1>2, OneKeyLeft
    <3> QED
      BY <2>1, <3>1, StuckAtBrace, Zenon
  <2>2. CASE u.kind \in BothKeys
    <3> DEFINE other == u.kind
    <3>1. other \in BothKeys /\ (other = "version" \/ other = "opt_out_steam_ids")
      BY <2>2 DEF BothKeys
    <3> HIDE DEF other
    <3>2. /\ KindsAt(other, m, c, 1) = {"{"} /\ KindsAt(other, m, c, 2) = {other}
      <4>1. CASE other = "version"
        BY <4>1, KindsInHeading, Zenon
      <4>2. CASE other = "opt_out_steam_ids"
        BY <4>2, KindsInHeading, Zenon
      <4> QED
        BY <3>1, <4>1, <4>2
    <3>3. Agree(first, m, c, other, m, c, n)
      <4>1. \A i \in 1..n : i = 1
        BY <1>2
      <4>2. KindsAt(first, m, c, 1) = KindsAt(other, m, c, 1)
        BY <1>10, <3>2
      <4> QED
        BY <4>1, <4>2, Zenon DEF Agree
    <3>4. u.kind \in KindsAt(other, m, c, n + 1)
      <4>1. n + 1 = 2
        BY <1>2
      <4>2. u.kind \in KindsAt(other, m, c, 2)
        BY <3>2 DEF other
      <4> QED
        BY <4>1, <4>2, Zenon
    <3>5. n < Total(m, c) /\ StateAt(other, m, c, n, at, key, keys)
      BY <1>0, <1>2 DEF Total, StateAt, InHeading
    <3> QED
      BY <1>0, <3>1, <3>3, <3>4, <3>5, Zenon DEF Continues
  <2> QED
    BY <1>2, <2>1, <2>2, Taken DEF BothKeys
<1>3. CASE n = 2 /\ at = "colon"
  <2>1. u.kind = ":"
    BY <1>0, <1>3, Taken DEF BothKeys
  <2>2. KindsAt(first, m, c, 3) = {":"}
    BY <1>0, <1>3, <1>10
  <2>3. p = 3 /\ n < Total(m, c)
    BY <1>0, <1>3 DEF Total
  <2>4. u.kind \in KindsAt(first, m, c, p)
    BY <2>1, <2>2, <2>3, Zenon
  <2> QED
    BY <1>0, <2>3, <2>4, Itself, Zenon
<1>4. CASE n = 3 /\ at = "value" /\ key = first /\ first = "version"
  <2>1. u.kind = "1"
    BY <1>0, <1>4, Taken DEF BothKeys
  <2>2. KindsAt(first, m, c, 4) = {"1"}
    BY <1>0, <1>4, KindsInHeading
  <2>3. p = 4 /\ n < Total(m, c)
    BY <1>0, <1>4 DEF Total
  <2>4. u.kind \in KindsAt(first, m, c, p)
    BY <2>1, <2>2, <2>3, Zenon
  <2> QED
    BY <1>0, <2>3, <2>4, Itself, Zenon
<1>5. CASE n = 3 /\ at = "value" /\ key = first /\ first = "opt_out_steam_ids"
  <2>1. u.kind = "{"
    BY <1>0, <1>5, Taken DEF BothKeys
  <2>2. KindsAt(first, m, c, 4) = {"{"}
    BY <1>0, <1>5, KindsInHeading
  <2>3. p = 4 /\ n < Total(m, c)
    BY <1>0, <1>5 DEF Total
  <2>4. u.kind \in KindsAt(first, m, c, p)
    BY <2>1, <2>2, <2>3, Zenon
  <2> QED
    BY <1>0, <2>3, <2>4, Itself, Zenon
<1>6. CASE first = "version" /\ n = 4 /\ at = "pairEnd" /\ keys = {"version"}
  <2>0. CASE u.kind = "}"
    <3>1. (at = "key" \/ at = "pairEnd") /\ keys # BothKeys
      BY <1>6, OneKeyLeft
    <3> QED
      BY <2>0, <3>1, StuckAtBrace, Zenon
  <2>1. CASE u.kind = ","
    <3>2. KindsAt(first, m, c, 5) = {","}
      BY <1>0, <1>6, KindsInHeading
    <3>3. p = 5 /\ n < Total(m, c)
      BY <1>0, <1>6 DEF Total
    <3>4. u.kind \in KindsAt(first, m, c, p)
      BY <2>1, <3>2, <3>3, Zenon
    <3> QED
      BY <1>0, <3>3, <3>4, Itself, Zenon
  <2> QED
    BY <1>6, <2>0, <2>1, Taken
<1>7. CASE first = "version" /\ n = 5 /\ at = "key" /\ keys = {"version"}
  <2>0. CASE u.kind = "}"
    <3>1. (at = "key" \/ at = "pairEnd") /\ keys # BothKeys
      BY <1>7, OneKeyLeft
    <3> QED
      BY <2>0, <3>1, StuckAtBrace, Zenon
  <2>1. CASE u.kind = "version"
    <3>1. u.kind \in BothKeys /\ u.kind \in keys /\ at = "key"
      BY <1>7, <2>1, OneKeyLeft
    <3> QED
      BY <3>1, StuckAtKey, Zenon
  <2>2. CASE u.kind = "opt_out_steam_ids"
    <3>2. KindsAt(first, m, c, 6) = {"opt_out_steam_ids"}
      BY <1>0, <1>7, KindsInHeading
    <3>3. p = 6 /\ n < Total(m, c)
      BY <1>0, <1>7 DEF Total
    <3>4. u.kind \in KindsAt(first, m, c, p)
      BY <2>2, <3>2, <3>3, Zenon
    <3> QED
      BY <1>0, <3>3, <3>4, Itself, Zenon
  <2> QED
    BY <1>7, <2>0, <2>1, <2>2, Taken
<1>8. CASE first = "version" /\ n = 6 /\ at = "colon"
  <2>1. u.kind = ":"
    BY <1>0, <1>8, Taken DEF BothKeys
  <2>2. KindsAt(first, m, c, 7) = {":"}
    BY <1>0, <1>8, KindsInHeading
  <2>3. p = 7 /\ n < Total(m, c)
    BY <1>0, <1>8 DEF Total
  <2>4. u.kind \in KindsAt(first, m, c, p)
    BY <2>1, <2>2, <2>3, Zenon
  <2> QED
    BY <1>0, <2>3, <2>4, Itself, Zenon
<1>9. CASE first = "version" /\ n = 7 /\ at = "value" /\ key = "opt_out_steam_ids"
  <2>1. u.kind = "{"
    BY <1>0, <1>9, Taken DEF BothKeys
  <2>2. KindsAt(first, m, c, 8) = {"{"}
    BY <1>0, <1>9, KindsInHeading
  <2>3. p = 8 /\ n < Total(m, c)
    BY <1>0, <1>9 DEF Total
  <2>4. u.kind \in KindsAt(first, m, c, p)
    BY <2>1, <2>2, <2>3, Zenon
  <2> QED
    BY <1>0, <2>3, <2>4, Itself, Zenon
<1> QED
  BY <1>0, <1>1, <1>2, <1>3, <1>4, <1>5, <1>6, <1>7, <1>8, <1>9 DEF InHeading

LEMMA ChoosesInRest ==
    ASSUME NEW first \in BothKeys, NEW m \in Lengths, NEW c \in 0..1, NEW n \in Nat,
           NEW p \in Nat, p = n + 1, NEW u, u.kind \in Takes[at],
           at = "value" => key \notin keys, InRest(first, m, n, at, key, keys)
    PROVE  Continues(first, m, c, n, u) \/ Dead(Goes(u), NextKey(u), NextKeys)
<1>0. /\ m \in Nat /\ m \in Lengths /\ c \in 0..1 /\ c \in Nat /\ n \in Nat
      /\ first \in BothKeys /\ first = "opt_out_steam_ids" /\ keys = {"opt_out_steam_ids"}
      /\ StateAt(first, m, c, n, at, key, keys) /\ p = n + 1
  BY DEF Lengths, StateAt, InRest
<1>1. CASE n = 5 + m /\ at = "pairEnd"
  <2>0. CASE u.kind = "}"
    <3>1. (at = "key" \/ at = "pairEnd") /\ keys # BothKeys
      BY <1>0, <1>1, OneKeyLeft
    <3> QED
      BY <2>0, <3>1, StuckAtBrace, Zenon
  <2>1. CASE u.kind = ","
    <3>2. KindsAt(first, m, c, 6 + m) = {","}
      BY <1>0, KindsInRest
    <3>3. p = 6 + m /\ n < Total(m, c)
      BY <1>0, <1>1 DEF Total
    <3>4. u.kind \in KindsAt(first, m, c, p)
      BY <2>1, <3>2, <3>3, Zenon
    <3> QED
      BY <1>0, <3>3, <3>4, Itself, Zenon
  <2> QED
    BY <1>1, <2>0, <2>1, Taken
<1>2. CASE n = 6 + m /\ at = "key"
  <2>0. CASE u.kind = "}"
    <3>1. (at = "key" \/ at = "pairEnd") /\ keys # BothKeys
      BY <1>0, <1>2, OneKeyLeft
    <3> QED
      BY <2>0, <3>1, StuckAtBrace, Zenon
  <2>1. CASE u.kind = "opt_out_steam_ids"
    <3>1. u.kind \in BothKeys /\ u.kind \in keys /\ at = "key"
      BY <1>0, <1>2, <2>1, OneKeyLeft
    <3> QED
      BY <3>1, StuckAtKey, Zenon
  <2>2. CASE u.kind = "version"
    <3>2. KindsAt(first, m, c, 7 + m) = {"version"}
      BY <1>0, KindsInRest
    <3>3. p = 7 + m /\ n < Total(m, c)
      BY <1>0, <1>2 DEF Total
    <3>4. u.kind \in KindsAt(first, m, c, p)
      BY <2>2, <3>2, <3>3, Zenon
    <3> QED
      BY <1>0, <3>3, <3>4, Itself, Zenon
  <2> QED
    BY <1>2, <2>0, <2>1, <2>2, Taken
<1>3. CASE n = 7 + m /\ at = "colon"
  <2>1. u.kind = ":"
    BY <1>0, <1>3, Taken DEF BothKeys
  <2>2. KindsAt(first, m, c, 8 + m) = {":"}
    BY <1>0, <1>3, KindsInRest
  <2>3. p = 8 + m /\ n < Total(m, c)
    BY <1>0, <1>3 DEF Total
  <2>4. u.kind \in KindsAt(first, m, c, p)
    BY <2>1, <2>2, <2>3, Zenon
  <2> QED
    BY <1>0, <2>3, <2>4, Itself, Zenon
<1>4. CASE n = 8 + m /\ at = "value" /\ key = "version"
  <2>1. u.kind = "1"
    BY <1>0, <1>4, Taken DEF BothKeys
  <2>2. KindsAt(first, m, c, 9 + m) = {"1"}
    BY <1>0, <1>4, KindsInRest
  <2>3. p = 9 + m /\ n < Total(m, c)
    BY <1>0, <1>4 DEF Total
  <2>4. u.kind \in KindsAt(first, m, c, p)
    BY <2>1, <2>2, <2>3, Zenon
  <2> QED
    BY <1>0, <2>3, <2>4, Itself, Zenon
<1> QED
  BY <1>1, <1>2, <1>3, <1>4 DEF InRest

LEMMA ChoosesInEnding ==
    ASSUME NEW first \in BothKeys, NEW m \in Lengths, NEW c \in 0..1, NEW n \in Nat,
           NEW p \in Nat, p = n + 1, NEW u, u.kind \in Takes[at],
           at = "value" => key \notin keys, InEnding(m, c, n, at, keys)
    PROVE  Continues(first, m, c, n, u) \/ Dead(Goes(u), NextKey(u), NextKeys)
<1>0. /\ m \in Nat /\ m \in Lengths /\ c \in 0..1 /\ c \in Nat /\ n \in Nat
      /\ first \in BothKeys /\ keys = BothKeys /\ p = n + 1
      /\ StateAt(first, m, c, n, at, key, keys)
  BY DEF Lengths, StateAt, InEnding
<1>1. CASE n = 9 + m /\ at = "pairEnd"
  <2>1. ASSUME NEW d \in 0..1, u.kind \in KindsAt(first, m, d, 10 + m)
        PROVE  Continues(first, m, c, n, u)
    <3>1. Agree(first, m, c, first, m, d, n)
      BY <1>0, <1>1, AgreeBeforeComma
    <3>2. StateAt(first, m, d, n, at, key, keys) /\ n < Total(m, d)
      BY <1>0, <1>1, <2>1 DEF StateAt, InEnding, Total
    <3>3. u.kind \in KindsAt(first, m, d, n + 1)
      <4>1. n + 1 = 10 + m
        BY <1>0, <1>1
      <4> QED
        BY <2>1, <4>1, Zenon
    <3> QED
      BY <1>0, <2>1, <3>1, <3>2, <3>3, Zenon DEF Continues
  <2>2. CASE u.kind = ","
    <3>1. 1 \in 0..1
      OBVIOUS
    <3>2. KindsAt(first, m, 1, 10 + m) = {","}
      BY <1>0, KindsInEnding, Zenon
    <3>3. u.kind \in KindsAt(first, m, 1, 10 + m)
      BY <2>2, <3>2, Zenon
    <3> QED
      BY <2>1, <3>1, <3>3, Zenon
  <2>3. CASE u.kind = "}"
    <3>1. 0 \in 0..1
      OBVIOUS
    <3>2. KindsAt(first, m, 0, 10 + m) = {"}"}
      BY <1>0, KindsInEnding, Zenon
    <3>3. u.kind \in KindsAt(first, m, 0, 10 + m)
      BY <2>3, <3>2, Zenon
    <3> QED
      BY <2>1, <3>1, <3>3, Zenon
  <2> QED
    BY <1>1, <2>2, <2>3, Taken
<1>2. CASE c = 1 /\ n = 10 + m /\ at = "key"
  <2>1. CASE u.kind \in BothKeys
    BY <1>0, <1>2, <2>1, StuckAtKey
  <2>2. CASE u.kind = "}"
    <3>2. KindsAt(first, m, c, 11 + m) = {"}"}
      BY <1>0, <1>2, KindsInEnding
    <3>3. p = 11 + m /\ n < Total(m, c)
      BY <1>0, <1>2 DEF Total
    <3>4. u.kind \in KindsAt(first, m, c, p)
      BY <2>2, <3>2, <3>3, Zenon
    <3> QED
      BY <1>0, <3>3, <3>4, Itself, Zenon
  <2> QED
    BY <1>2, <2>1, <2>2, Taken DEF BothKeys
<1>3. at # "tail"
  BY Taken
<1> QED
  BY <1>1, <1>2, <1>3 DEF InEnding

LEMMA ChoosesInBody ==
    ASSUME NEW first \in BothKeys, NEW m \in Lengths, NEW c \in 0..1, NEW n \in Nat,
           NEW p \in Nat, p = n + 1, NEW u, u.kind \in Takes[at],
           at = "value" => key \notin keys, InBody(first, m, n, at, keys)
    PROVE  Continues(first, m, c, n, u) \/ Dead(Goes(u), NextKey(u), NextKeys)
<1> DEFINE f == HeadingLength(first)
           j == n - f
<1>0. /\ m \in Nat /\ f \in Nat /\ j \in Nat /\ j <= m /\ n = f + j /\ p = n + 1 /\ c \in Nat
      /\ f <= 8 /\ first \in BothKeys /\ c \in 0..1
      /\ \/ f = 8 /\ first = "version"
         \/ f = 4 /\ first = "opt_out_steam_ids"
  BY DEF Lengths, HeadingLength, InBody, BothKeys
<1>1. at = BodyPlace(j % 4) /\ keys = FirstKeys(first)
  BY DEF InBody
<1>2. ASSUME NEW k \in Lengths, j <= k, u.kind \in KindsAt(first, k, c, p)
      PROVE  Continues(first, m, c, n, u)
  <2>0. k \in Nat
    BY DEF Lengths
  <2>1. n <= f + m /\ n <= f + k
    BY <1>0, <1>2, <2>0
  <2>2. Agree(first, m, c, first, k, c, n)
    BY <1>0, <2>0, <2>1, AgreeInBody
  <2>3. n < Total(k, c)
    <3> HIDE DEF f, j
    <3> QED
      BY <1>0, <2>0, <2>1 DEF Total
  <2>4. StateAt(first, k, c, n, at, key, keys)
    BY <1>0, <1>1, <2>1 DEF StateAt, InBody
  <2>5. u.kind \in KindsAt(first, k, c, n + 1)
    BY <1>0, <1>2, Zenon
  <2> QED
    BY <1>0, <1>2, <2>2, <2>3, <2>4, <2>5, Zenon DEF Continues
<1>3. ASSUME u.kind \in BodyKinds((j + 1) % 4)
      PROVE  Continues(first, m, c, n, u)
  <2> DEFINE k == 4 * (j + 1)
  <2>1. k \in Lengths /\ j + 1 <= k /\ j <= k /\ k \in Nat
    <3> HIDE DEF j
    <3>1. k \in Nat /\ k % 4 = 0 /\ j + 1 <= k /\ j <= k
      BY <1>0
    <3> QED
      BY <3>1 DEF Lengths
  <2> HIDE DEF k
  <2>2. f < p /\ p <= f + k /\ p - f = j + 1
    BY <1>0, <2>1
  <2>3. KindsAt(first, k, c, p) = BodyKinds((p - f) % 4)
    BY <1>0, <2>1, <2>2, KindsInBody
  <2>4. u.kind \in KindsAt(first, k, c, p)
    BY <1>3, <2>2, <2>3
  <2> QED
    BY <1>2, <2>1, <2>4, Zenon
<1>4. ASSUME u.kind = "}", j \in Lengths
      PROVE  Continues(first, m, c, n, u)
  <2> HIDE DEF j
  <2>1. u.kind \in KindsAt(first, j, c, p)
    <3>1. CASE f = 8 /\ first = "version"
      <4>1. p = 9 + j
        BY <1>0, <3>1
      <4>2. KindsAt(first, j, c, 9 + j) = {"}"}
        BY <1>0, <3>1, KindsInRest, Zenon
      <4> QED
        BY <1>4, <4>1, <4>2, Zenon
    <3>2. CASE f = 4 /\ first = "opt_out_steam_ids"
      <4>1. p = 5 + j
        BY <1>0, <3>2
      <4>2. KindsAt(first, j, c, 5 + j) = {"}"}
        BY <1>0, <3>2, KindsInRest, Zenon
      <4> QED
        BY <1>4, <4>1, <4>2, Zenon
    <3> QED
      BY <1>0, <3>1, <3>2
  <2>2. j <= j
    BY <1>0
  <2> QED
    BY <1>2, <1>4, <2>1, <2>2, Zenon
<1>5. j \in Nat /\ (j % 4 = 0 \/ j % 4 = 1 \/ j % 4 = 2 \/ j % 4 = 3)
  <2> HIDE DEF j
  <2> QED
    BY <1>0
<1>6. /\ j % 4 = 0 => (j + 1) % 4 = 1
      /\ j % 4 = 1 => (j + 1) % 4 = 2
      /\ j % 4 = 2 => (j + 1) % 4 = 3
      /\ j % 4 = 3 => (j + 1) % 4 = 0
  <2> HIDE DEF j
  <2> QED
    BY <1>0
<1> HIDE DEF j
<1>7. CASE j % 4 = 0
  <2>1. at = "entry" /\ (u.kind = "}" \/ u.kind = "quoted")
    BY <1>1, <1>7, BodySteps, Taken
  <2>2. j \in Lengths /\ BodyKinds((j + 1) % 4) = {"quoted"}
    BY <1>5, <1>6, <1>7, BodySteps DEF Lengths
  <2> QED
    BY <1>3, <1>4, <2>1, <2>2
<1>8. CASE j % 4 = 1
  <2>1. at = "entryColon" /\ u.kind = ":"
    BY <1>1, <1>8, BodySteps, Taken
  <2>2. BodyKinds((j + 1) % 4) = {":"}
    BY <1>5, <1>6, <1>8, BodySteps
  <2> QED
    BY <1>3, <2>1, <2>2
<1>9. CASE j % 4 = 2
  <2>1. at = "entryValue" /\ u.kind \in {"true", "false"}
    BY <1>1, <1>9, BodySteps, Taken
  <2>2. BodyKinds((j + 1) % 4) = {"true", "false"}
    BY <1>5, <1>6, <1>9, BodySteps
  <2> QED
    BY <1>3, <2>1, <2>2
<1>10. CASE j % 4 = 3
  <2>1. at = "entryEnd" /\ (u.kind = "," \/ u.kind = "}")
    BY <1>1, <1>10, BodySteps, Taken
  <2>2. j \in Lengths /\ BodyKinds((j + 1) % 4) = {","}
    BY <1>5, <1>6, <1>10, BodySteps DEF Lengths
  <2> QED
    BY <1>3, <1>4, <2>1, <2>2
<1> QED
  BY <1>5, <1>7, <1>8, <1>9, <1>10

\* What the parser takes continues a document that agrees, or gets it stuck.
LEMMA Chooses ==
    ASSUME NEW first \in BothKeys, NEW m \in Lengths, NEW c \in 0..1, NEW n \in Nat,
           NEW p \in Nat, p = n + 1, NEW u, u.kind \in Takes[at],
           at = "value" => key \notin keys, StateAt(first, m, c, n, at, key, keys)
    PROVE  Continues(first, m, c, n, u) \/ Dead(Goes(u), NextKey(u), NextKeys)
<1>1. CASE InHeading(first, n, at, key, keys)
  BY <1>1, ChoosesInHeading, Zenon
<1>2. CASE InBody(first, m, n, at, keys)
  BY <1>2, ChoosesInBody, Zenon
<1>3. CASE InRest(first, m, n, at, key, keys)
  BY <1>3, ChoosesInRest, Zenon
<1>4. CASE InEnding(m, c, n, at, keys)
  BY <1>4, ChoosesInEnding, Zenon
<1> QED
  BY <1>1, <1>2, <1>3, <1>4 DEF StateAt

-----------------------------------------------------------------------------
(* A document without its gaps *)

Keeping(g, s) ==
    /\ g \in [0..Len(s) -> Seq(Units)]
    /\ g[0] = <<>>
    /\ \A n \in 1..Len(s) :
          g[n] = IF s[n].kind = "gap" THEN g[n - 1] ELSE Append(g[n - 1], s[n])

\* The loop behind Stripped, unit by unit.
LEMMA Strips ==
    ASSUME NEW s \in Seq(Units)
    PROVE  \E g : Keeping(g, s) /\ Stripped(s) = g[Len(s)]
<1> DEFINE k == Len(s)
           IsKept(g) == g = [n \in 0..Len(s) |->
               IF n = 0 THEN <<>>
               ELSE IF s[n].kind = "gap" THEN g[n - 1] ELSE Append(g[n - 1], s[n])]
           kept == CHOOSE g : IsKept(g)
           step == [n \in 1..k |-> [t \in Seq(Units) |->
                       IF s[n].kind = "gap" THEN t ELSE Append(t, s[n])]]
<1>0. k \in Nat /\ <<>> \in Seq(Units) /\ \A n \in 1..k : s[n] \in Units
  OBVIOUS
<1>1. step \in [1..k -> [Seq(Units) -> Seq(Units)]]
  <2>1. \A t \in Seq(Units), u \in Units : Append(t, u) \in Seq(Units)
    OBVIOUS
  <2> HIDE DEF k
  <2> QED
    BY <1>0, <2>1
<1> HIDE DEF step, k
<1>2. \E g : Stepping(g, Seq(Units), <<>>, k, step)
  BY <1>0, <1>1, Steps, Zenon
<1>3. PICK g : Stepping(g, Seq(Units), <<>>, k, step)
  BY <1>2
<1>4. ASSUME NEW n \in 1..k
      PROVE  g[n] = IF s[n].kind = "gap" THEN g[n - 1] ELSE Append(g[n - 1], s[n])
  <2>1. n - 1 \in 0..k /\ g[n - 1] \in Seq(Units) /\ g[n] = step[n][g[n - 1]]
    BY <1>0, <1>3 DEF Stepping
  <2> QED
    BY <2>1 DEF step
<1>5. IsKept(g)
  <2>1. ASSUME NEW n \in 0..k
        PROVE  g[n] = IF n = 0 THEN <<>>
                      ELSE IF s[n].kind = "gap" THEN g[n - 1] ELSE Append(g[n - 1], s[n])
    <3>1. CASE n = 0
      BY <1>3, <3>1 DEF Stepping
    <3>2. CASE n # 0
      <4>1. n \in 1..k
        BY <1>0, <3>2
      <4> QED
        BY <1>4, <3>2, <4>1
    <3> QED
      BY <3>1, <3>2
  <2>2. g = [n \in 0..k |-> g[n]]
    BY <1>3 DEF Stepping
  <2> QED
    BY <2>1, <2>2 DEF k
<1>6. IsKept(kept)
  BY <1>5
<1>7. Stripped(s) = kept[Len(s)]
  BY DEF Stripped
<1> HIDE DEF kept
<1>8. kept[0] = <<>>
  BY <1>0, <1>6 DEF k
<1>9. ASSUME NEW n \in 1..k
      PROVE  kept[n] = IF s[n].kind = "gap" THEN kept[n - 1] ELSE Append(kept[n - 1], s[n])
  <2>1. n \in 0..k /\ n # 0
    BY <1>0
  <2> QED
    BY <1>6, <2>1 DEF k
<1>10. kept \in [0..k -> Seq(Units)]
  <2>1. kept = [n \in 0..k |-> kept[n]]
    BY <1>6 DEF k
  <2>4. \A t \in Seq(Units), u \in Units : Append(t, u) \in Seq(Units)
    OBVIOUS
  <2>2. \A n \in 1..k : kept[n - 1] \in Seq(Units) => kept[n] \in Seq(Units)
    <3> HIDE DEF IsKept
    <3> QED
      BY <1>0, <1>9, <2>4
  <2>3. kept[0] \in Seq(Units)
    BY <1>8
  <2> QED
    BY <1>0, <2>1, <2>2, <2>3, RunType, Zenon
<1> QED
  BY <1>7, <1>8, <1>9, <1>10 DEF Keeping, k

\* Nothing is left of nothing.
LEMMA StrippedNothing == Stripped(<<>>) = <<>>
<1>1. <<>> \in Seq(Units) /\ Len(<<>>) = 0
  OBVIOUS
<1>2. PICK g : Keeping(g, <<>>) /\ Stripped(<<>>) = g[Len(<<>>)]
  BY <1>1, Strips, Zenon
<1> QED
  BY <1>1, <1>2 DEF Keeping

\* A gap is left out, any other unit is kept.
LEMMA StrippedMore ==
    ASSUME NEW s \in Seq(Units), NEW u \in Units, NEW more, more = Append(s, u)
    PROVE  /\ Stripped(s) \in Seq(Units)
           /\ Stripped(more) =
                 IF u.kind = "gap" THEN Stripped(s) ELSE Append(Stripped(s), u)
<1> DEFINE k == Len(s)
<1>1. /\ more \in Seq(Units) /\ Len(more) = k + 1 /\ more[k + 1] = u
      /\ (\A i \in 1..k : more[i] = s[i]) /\ k \in Nat
  BY OneUnitMore
<1>2. PICK g : Keeping(g, s) /\ Stripped(s) = g[k]
  BY Strips
<1>3. PICK h : Keeping(h, more) /\ Stripped(more) = h[k + 1]
  BY <1>1, Strips
<1>0. Len(s) = k
  OBVIOUS
<1> HIDE DEF k
<1> DEFINE T == {n \in 0..k : h[n] = g[n]}
<1>4. 0 \in T
  BY <1>1, <1>2, <1>3 DEF Keeping
<1>5. ASSUME NEW n \in 1..k, n - 1 \in T
      PROVE  n \in T
  <2>1. n \in 1..(k + 1) /\ n \in 0..k /\ more[n] = s[n] /\ h[n - 1] = g[n - 1]
    BY <1>1, <1>5
  <2>2. h[n] = IF more[n].kind = "gap" THEN h[n - 1] ELSE Append(h[n - 1], more[n])
    BY <1>1, <1>3, <2>1 DEF Keeping
  <2>3. g[n] = IF s[n].kind = "gap" THEN g[n - 1] ELSE Append(g[n - 1], s[n])
    BY <1>0, <1>2 DEF Keeping
  <2> QED
    BY <2>1, <2>2, <2>3
<1> HIDE DEF T
<1>6. \A n \in 0..k : n \in T
  BY <1>1, <1>4, <1>5, NumbersUpTo, Zenon
<1>7. h[k] = g[k]
  <2>1. k \in 0..k
    BY <1>1
  <2> QED
    BY <1>6, <2>1 DEF T
<1>8. k + 1 \in 1..(k + 1) /\ (k + 1) - 1 = k /\ k \in 0..k
  BY <1>1
<1>9. h[k + 1] = IF u.kind = "gap" THEN h[k] ELSE Append(h[k], u)
  <2>1. h[k + 1] = IF more[k + 1].kind = "gap" THEN h[(k + 1) - 1]
                   ELSE Append(h[(k + 1) - 1], more[k + 1])
    BY <1>1, <1>3, <1>8 DEF Keeping
  <2> QED
    BY <1>1, <1>8, <2>1
<1>10. g[k] \in Seq(Units)
  BY <1>0, <1>2, <1>8 DEF Keeping
<1> QED
  BY <1>2, <1>3, <1>7, <1>9, <1>10

-----------------------------------------------------------------------------
(* The sentences are the documents whose units fit a shape to its end        *)

\* The texts that denote an ID.
Good == {t \in IdTexts : IdOf(t) # 0}

EntryTypes == [text : Good, value : {"true", "false"}]

\* Fixed marks: those that stand neither for an ID nor for its value.
Fixed == Marks \ {"true", "false"}

LEMMA UnitKind == \A k : Unit(k).kind = k
BY DEF Unit

LEMMA FixedUnits ==
    ASSUME NEW k \in Fixed
    PROVE  /\ Unit(k) \in Units /\ Unit(k).kind = k
           /\ k # "quoted" /\ k # "true" /\ k # "false" /\ k \in Marks
<1>1. k # "quoted" /\ k # "true" /\ k # "false" /\ k \in Marks
  BY DEF Fixed, Marks
<1> QED
  BY <1>1, UnitKind DEF Units

\* Units that are not quoted are the same when their kinds are.
LEMMA SameUnit ==
    ASSUME NEW u \in Units, NEW v \in Units, u.kind = v.kind, u.kind # "quoted"
    PROVE  u = v
<1>1. ASSUME NEW w \in Units, w.kind # "quoted"
      PROVE  w = Unit(w.kind)
  <2>1. ASSUME NEW t, w = Quoted(t)
        PROVE  FALSE
    BY <1>1, <2>1 DEF Quoted
  <2>2. PICK m \in Marks : w = Unit(m)
    BY <2>1 DEF Units
  <2> QED
    BY <2>2, UnitKind
<1> QED
  BY <1>1

LEMMA QuotedUnit ==
    ASSUME NEW u \in Units, u.kind = "quoted"
    PROVE  u = Quoted(u.text) /\ u.text \in IdTexts
<1>1. ASSUME NEW m \in Marks, u = Unit(m)
      PROVE  FALSE
  BY <1>1, UnitKind DEF Marks
<1>2. PICK t \in IdTexts : u = Quoted(t)
  BY <1>1 DEF Units
<1> QED
  BY <1>2 DEF Quoted

\* A piece of a document is made of fixed marks.
Plain(piece, n) ==
    /\ piece \in Seq(Units) /\ Len(piece) = n
    /\ \A i \in 1..n : piece[i].kind \in Fixed

LEMMA PlainPieces ==
    /\ Plain(Heading("version"), 8) /\ Plain(Heading("opt_out_steam_ids"), 4)
    /\ Plain(Rest("version"), 1) /\ Plain(Rest("opt_out_steam_ids"), 5)
    /\ Plain(Ending(0), 1) /\ Plain(Ending(1), 2)
<1> DEFINE S == {u \in Units : u.kind \in Fixed}
<1>1. /\ "{" \in Fixed /\ "}" \in Fixed /\ ":" \in Fixed /\ "," \in Fixed /\ "1" \in Fixed
      /\ "version" \in Fixed /\ "opt_out_steam_ids" \in Fixed
  BY DEF Fixed, Marks
<1>2. \A k \in Fixed : Unit(k) \in S
  BY FixedUnits
<1>3. /\ Unit("{") \in S /\ Unit("}") \in S /\ Unit(":") \in S /\ Unit(",") \in S
      /\ Unit("1") \in S /\ Unit("version") \in S /\ Unit("opt_out_steam_ids") \in S
  BY <1>1, <1>2, Zenon
<1>4. ASSUME NEW piece, NEW n \in Nat, piece \in Seq(S), Len(piece) = n
      PROVE  Plain(piece, n)
  BY <1>4 DEF Plain
<1> DEFINE open == Unit("{")
           close == Unit("}")
           colon == Unit(":")
           comma == Unit(",")
           one == Unit("1")
           version == Unit("version")
           optouts == Unit("opt_out_steam_ids")
<1> HIDE DEF S
<1>12. {open, close, colon, comma, one, version, optouts} \subseteq S
  BY <1>3
<1>13. /\ Heading("version") = <<open, version, colon, one, comma, optouts, colon, open>>
       /\ Heading("opt_out_steam_ids") = <<open, optouts, colon, open>>
       /\ Rest("version") = <<close>>
       /\ Rest("opt_out_steam_ids") = <<close, comma, version, colon, one>>
       /\ Ending(0) = <<close>> /\ Ending(1) = <<comma, close>>
  BY DEF Heading, Rest, Ending
<1> HIDE DEF open, close, colon, comma, one, version, optouts
<1>5. Heading("version") \in Seq(S) /\ Len(Heading("version")) = 8
  <2>1. <<open, version, colon, one, comma, optouts, colon, open>> \in Seq(S) /\ Len(<<open, version, colon, one, comma, optouts, colon, open>>) = 8
    BY <1>12
  <2> QED
    BY <1>13, <2>1, Zenon
<1>6. Heading("opt_out_steam_ids") \in Seq(S) /\ Len(Heading("opt_out_steam_ids")) = 4
  <2>1. <<open, optouts, colon, open>> \in Seq(S) /\ Len(<<open, optouts, colon, open>>) = 4
    BY <1>12
  <2> QED
    BY <1>13, <2>1, Zenon
<1>7. Rest("version") \in Seq(S) /\ Len(Rest("version")) = 1
  <2>1. <<close>> \in Seq(S) /\ Len(<<close>>) = 1
    BY <1>12
  <2> QED
    BY <1>13, <2>1, Zenon
<1>8. Rest("opt_out_steam_ids") \in Seq(S) /\ Len(Rest("opt_out_steam_ids")) = 5
  <2>1. <<close, comma, version, colon, one>> \in Seq(S) /\ Len(<<close, comma, version, colon, one>>) = 5
    BY <1>12
  <2> QED
    BY <1>13, <2>1, Zenon
<1>9. Ending(0) \in Seq(S) /\ Len(Ending(0)) = 1
  <2>1. <<close>> \in Seq(S) /\ Len(<<close>>) = 1
    BY <1>12
  <2> QED
    BY <1>13, <2>1, Zenon
<1>10. Ending(1) \in Seq(S) /\ Len(Ending(1)) = 2
  <2>1. <<comma, close>> \in Seq(S) /\ Len(<<comma, close>>) = 2
    BY <1>12
  <2> QED
    BY <1>13, <2>1, Zenon
<1>11. 8 \in Nat /\ 4 \in Nat /\ 1 \in Nat /\ 5 \in Nat /\ 2 \in Nat
  OBVIOUS
<1> QED
  BY <1>4, <1>5, <1>6, <1>7, <1>8, <1>9, <1>10, <1>11, Zenon

\* Where a place of a document lies, and what may stand there.
RestLength(first) == 9 - HeadingLength(first)

\* The lengths of the pieces.
LEMMA Lengthwise ==
    ASSUME NEW first \in BothKeys, NEW c \in 0..1
    PROVE  /\ HeadingLength(first) \in 4..8
           /\ RestLength(first) = 9 - HeadingLength(first) /\ RestLength(first) \in Nat
           /\ Plain(Heading(first), HeadingLength(first))
           /\ Plain(Rest(first), RestLength(first))
           /\ Plain(Ending(c), 1 + c)
<1>1. first = "version" \/ first = "opt_out_steam_ids"
  BY DEF BothKeys
<1>2. CASE first = "version"
  <2>1. HeadingLength(first) = 8 /\ RestLength(first) = 1
    BY <1>2 DEF HeadingLength, RestLength
  <2> QED
    BY <1>2, <2>1, PlainPieces
<1>3. CASE first = "opt_out_steam_ids"
  <2>1. HeadingLength(first) = 4 /\ RestLength(first) = 5
    BY <1>3 DEF HeadingLength, RestLength
  <2> QED
    BY <1>3, <2>1, PlainPieces
<1>4. Plain(Ending(c), 1 + c)
  <2>1. c = 0 \/ c = 1
    OBVIOUS
  <2>2. 1 + 0 = 1 /\ 1 + 1 = 2
    OBVIOUS
  <2> QED
    BY <2>1, <2>2, PlainPieces
<1> QED
  BY <1>1, <1>2, <1>3, <1>4 DEF RestLength

\* Outside the entries stand fixed marks.
LEMMA KindsOutside ==
    ASSUME NEW first \in BothKeys, NEW m \in Nat, NEW c \in 0..1, NEW i \in 1..Total(m, c),
           ~(HeadingLength(first) < i /\ i <= HeadingLength(first) + m)
    PROVE  KindsAt(first, m, c, i) \subseteq Fixed
<1> DEFINE f == HeadingLength(first)
<1>1. /\ f \in 4..8 /\ Plain(Heading(first), f) /\ Plain(Rest(first), 9 - f)
      /\ Plain(Ending(c), 1 + c)
  BY Lengthwise
<1>2. i \in Nat /\ 1 <= i /\ i <= 10 + m + c
  BY DEF Total
<1>0. ~(f < i /\ i <= f + m)
  OBVIOUS
<1>9. KindsAt(first, m, c, i) =
          IF i <= f THEN {Heading(first)[i].kind}
          ELSE IF i <= f + m THEN BodyKinds((i - f) % 4)
          ELSE IF i <= 9 + m THEN {Rest(first)[i - f - m].kind}
          ELSE {Ending(c)[i - 9 - m].kind}
  BY DEF KindsAt
<1> HIDE DEF f
<1>3. CASE i <= f
  <2>1. Heading(first)[i].kind \in Fixed
    BY <1>1, <1>2, <1>3 DEF Plain
  <2> QED
    BY <1>3, <1>9, <2>1
<1>4. CASE ~(i <= f) /\ i <= 9 + m
  <2>1. i - f - m \in 1..(9 - f) /\ ~(i <= f + m)
    BY <1>0, <1>1, <1>2, <1>4
  <2>2. Rest(first)[i - f - m].kind \in Fixed
    BY <1>1, <2>1 DEF Plain
  <2> QED
    BY <1>4, <1>9, <2>1, <2>2
<1>5. CASE ~(i <= f) /\ ~(i <= 9 + m)
  <2>1. i - 9 - m \in 1..(1 + c) /\ ~(i <= f + m)
    BY <1>0, <1>1, <1>2, <1>5
  <2>2. Ending(c)[i - 9 - m].kind \in Fixed
    BY <1>1, <2>1 DEF Plain
  <2> QED
    BY <1>5, <1>9, <2>1, <2>2
<1> QED
  BY <1>3, <1>4, <1>5

\* The places of the IDs and of their values.
LEMMA PlacesOfIds ==
    ASSUME NEW first \in BothKeys, NEW m \in Nat, NEW c \in 0..1,
           NEW list \in Seq(Units), Fits(list, first, m, c), NEW i \in 1..Len(list)
    PROVE  /\ list[i].kind = "quoted" <=>
                 /\ HeadingLength(first) < i /\ i <= HeadingLength(first) + m
                 /\ (i - HeadingLength(first)) % 4 = 1
           /\ list[i].kind = "true" =>
                 /\ HeadingLength(first) < i /\ i <= HeadingLength(first) + m
                 /\ (i - HeadingLength(first)) % 4 = 3
<1> DEFINE f == HeadingLength(first)
<1>1. f \in 4..8 /\ i \in 1..Total(m, c) /\ list[i].kind \in KindsAt(first, m, c, i)
  <2>1. Len(list) <= Total(m, c) /\ Len(list) \in Nat /\ Total(m, c) \in Nat
    BY DEF Fits, Total
  <2>2. i \in 1..Total(m, c)
    BY <2>1
  <2> QED
    BY <2>2, Lengthwise DEF Fits
<1>0. f = HeadingLength(first)
  OBVIOUS
<1> HIDE DEF f
<1>2. CASE f < i /\ i <= f + m
  <2>1. list[i].kind \in BodyKinds((i - f) % 4)
    BY <1>0, <1>1, <1>2, KindsInBody
  <2>2. (i - f) % 4 = 0 \/ (i - f) % 4 = 1 \/ (i - f) % 4 = 2 \/ (i - f) % 4 = 3
    BY <1>1, <1>2
  <2>3. /\ list[i].kind = "quoted" <=> (i - f) % 4 = 1
        /\ list[i].kind = "true" => (i - f) % 4 = 3
    BY <2>1, <2>2, BodySteps
  <2> QED
    BY <1>0, <1>2, <2>3
<1>3. CASE ~(f < i /\ i <= f + m)
  <2>1. list[i].kind \in Fixed
    BY <1>0, <1>1, <1>3, KindsOutside, Zenon
  <2>2. list[i].kind # "quoted" /\ list[i].kind # "true"
    BY <2>1, FixedUnits
  <2> QED
    BY <1>0, <1>3, <2>2
<1> QED
  BY <1>2, <1>3

GoodIds == {IdOf(t) : t \in Good}

LEMMA EntryListsAre ==
    EntryLists = {es \in SeqOf(EntryTypes, Cardinality(GoodIds)) :
                     \A i, j \in DOMAIN es : i # j => IdOf(es[i].text) # IdOf(es[j].text)}
BY DEF EntryLists, EntryTypes, Good, GoodIds

\* There are finitely many IDs, whatever the texts.
LEMMA FinitelyManyIds == IsFiniteSet(GoodIds) /\ Cardinality(GoodIds) \in Nat
<1>1. GoodIds \subseteq 0..MaxId
  <2>1. \A t \in IdTexts : t \in Seq(Characters)
    BY NumbersAssumption DEF Characters
  <2>2. \A t \in IdTexts : IdOf(t) \in 0..MaxId
    BY <2>1, ParsesTheNumber
  <2> QED
    BY <2>2 DEF GoodIds, Good
<1>2. IsFiniteSet(0..MaxId)
  BY WidthIsNumber, FS_Interval
<1>3. IsFiniteSet(GoodIds)
  BY <1>1, <1>2, FS_Subset
<1> QED
  BY <1>3, FS_CardinalityType

\* The entry of a unit, and its place in it.
LEMMA Quarter ==
    ASSUME NEW j \in Nat, 1 <= j, NEW q, q = (j + 3) \div 4
    PROVE  /\ q \in Nat /\ 1 <= q /\ j <= 4 * q /\ 4 * q <= j + 3
           /\ j % 4 = 0 \/ j % 4 = 1 \/ j % 4 = 2 \/ j % 4 = 3
           /\ j % 4 = 1 => j = 4 * q - 3
           /\ j % 4 = 2 => j = 4 * q - 2
           /\ j % 4 = 3 => j = 4 * q - 1
           /\ j % 4 = 0 => j = 4 * q
OBVIOUS

\* The unit of an entry that stands at a place of it.
UnitOf(e, r) ==
    CASE r = 1 -> Quoted(e.text) [] r = 2 -> Unit(":") [] r = 3 -> Unit(e.value) [] r = 0 -> Unit(",")

\* The four units of an entry are of the kinds the parser expects.
LEMMA UnitOfEntry ==
    ASSUME NEW e \in EntryTypes
    PROVE  /\ UnitOf(e, 1) = Quoted(e.text) /\ UnitOf(e, 2) = Unit(":")
           /\ UnitOf(e, 3) = Unit(e.value) /\ UnitOf(e, 0) = Unit(",")
           /\ \A r \in 0..3 : UnitOf(e, r) \in Units /\ UnitOf(e, r).kind \in BodyKinds(r)
<1>1. /\ UnitOf(e, 1) = Quoted(e.text) /\ UnitOf(e, 2) = Unit(":")
      /\ UnitOf(e, 3) = Unit(e.value) /\ UnitOf(e, 0) = Unit(",")
  BY DEF UnitOf
<1>2. e.text \in IdTexts /\ e.value \in {"true", "false"}
  BY DEF EntryTypes, Good
<1>3. e.value \in Marks /\ ":" \in Marks /\ "," \in Marks
  BY <1>2 DEF Marks
<1>4. /\ Quoted(e.text) \in Units /\ Unit(":") \in Units /\ Unit(e.value) \in Units
      /\ Unit(",") \in Units
  BY <1>2, <1>3 DEF Units
<1>5. Quoted(e.text).kind = "quoted"
  BY DEF Quoted
<1>6. /\ UnitOf(e, 1).kind \in BodyKinds(1) /\ UnitOf(e, 2).kind \in BodyKinds(2)
      /\ UnitOf(e, 3).kind \in BodyKinds(3) /\ UnitOf(e, 0).kind \in BodyKinds(0)
  BY <1>1, <1>2, <1>5, UnitKind, BodySteps
<1>7. ASSUME NEW r \in 0..3
      PROVE  UnitOf(e, r) \in Units /\ UnitOf(e, r).kind \in BodyKinds(r)
  <2>1. r = 0 \/ r = 1 \/ r = 2 \/ r = 3
    OBVIOUS
  <2> QED
    BY <1>1, <1>4, <1>6, <2>1
<1> QED
  BY <1>1, <1>7

\* The entries of a sentence, unit by unit.
LEMMA BodyUnits ==
    ASSUME NEW es \in Seq(EntryTypes), NEW m \in Nat, m <= 4 * Len(es)
    PROVE  /\ Body(es, m) \in Seq(Units) /\ Len(Body(es, m)) = m
           /\ \A j \in 1..m :
                 /\ (j + 3) \div 4 \in DOMAIN es
                 /\ Body(es, m)[j] = UnitOf(es[(j + 3) \div 4], j % 4)
<1>1. Body(es, m) = [i \in 1..m |-> UnitOf(es[(i + 3) \div 4], i % 4)]
  BY DEF Body, UnitOf
<1>2. ASSUME NEW j \in 1..m
      PROVE  /\ (j + 3) \div 4 \in DOMAIN es /\ j % 4 \in 0..3
             /\ UnitOf(es[(j + 3) \div 4], j % 4) \in Units
  <2>0. j \in Nat /\ 1 <= j /\ j <= m /\ Len(es) \in Nat
    OBVIOUS
  <2> DEFINE q == (j + 3) \div 4
  <2>1. q \in Nat /\ 1 <= q /\ 4 * q <= j + 3
    BY <2>0, Quarter
  <2>2. j % 4 \in 0..3
    BY <2>0
  <2> HIDE DEF q
  <2>3. q \in 1..Len(es)
    BY <2>0, <2>1
  <2>4. es[q] \in EntryTypes /\ q \in DOMAIN es
    BY <2>3
  <2>5. UnitOf(es[q], j % 4) \in Units
    BY <2>2, <2>4, UnitOfEntry
  <2> QED
    BY <2>2, <2>4, <2>5 DEF q
<1>3. Body(es, m) \in [1..m -> Units]
  BY <1>1, <1>2
<1>4. Body(es, m) \in Seq(Units) /\ Len(Body(es, m)) = m
  BY <1>3, FunctionIsList, Zenon
<1> QED
  BY <1>1, <1>2, <1>4

\* Where the pieces of a document stand in it.
Joined(s, a, b, r, e) ==
    /\ Len(s) = Len(a) + Len(b) + Len(r) + Len(e)
    /\ \A i \in 1..Len(a) : s[i] = a[i]
    /\ \A i \in 1..Len(b) : s[Len(a) + i] = b[i]
    /\ \A i \in 1..Len(r) : s[Len(a) + Len(b) + i] = r[i]
    /\ \A i \in 1..Len(e) : s[Len(a) + Len(b) + Len(r) + i] = e[i]

TwoParts(s, a, b) ==
    /\ Len(s) = Len(a) + Len(b)
    /\ \A i \in 1..Len(a) : s[i] = a[i]
    /\ \A i \in 1..Len(b) : s[Len(a) + i] = b[i]

LEMMA TwoJoined ==
    ASSUME NEW T, NEW a \in Seq(T), NEW b \in Seq(T)
    PROVE  a \o b \in Seq(T) /\ TwoParts(a \o b, a, b)
<1>1. /\ a \o b \in Seq(T) /\ Len(a \o b) = Len(a) + Len(b)
      /\ \A i \in 1..(Len(a) + Len(b)) : (a \o b)[i] = IF i <= Len(a) THEN a[i] ELSE b[i - Len(a)]
  BY ConcatProperties
<1> DEFINE n == Len(a)
           k == Len(b)
           s == a \o b
<1>2. n \in Nat /\ k \in Nat
  OBVIOUS
<1>3. \A i \in 1..(n + k) : s[i] = IF i <= n THEN a[i] ELSE b[i - n]
  BY <1>1
<1> HIDE DEF n, k, s
<1>4. \A i \in 1..n : s[i] = a[i]
  BY <1>2, <1>3
<1>5. ASSUME NEW i \in 1..k
      PROVE  s[n + i] = b[i]
  <2>1. n + i \in 1..(n + k) /\ ~(n + i <= n) /\ (n + i) - n = i
    BY <1>2
  <2> QED
    BY <1>3, <2>1
<1> QED
  BY <1>1, <1>4, <1>5, Zenon DEF n, k, s, TwoParts

LEMMA FourJoined ==
    ASSUME NEW T, NEW a \in Seq(T), NEW b \in Seq(T), NEW r \in Seq(T), NEW e \in Seq(T)
    PROVE  a \o b \o r \o e \in Seq(T) /\ Joined(a \o b \o r \o e, a, b, r, e)
<1> DEFINE x == a \o b
           y == x \o r
           s == y \o e
           na == Len(a)
           nb == Len(b)
           nr == Len(r)
           ne == Len(e)
<1>0. na \in Nat /\ nb \in Nat /\ nr \in Nat /\ ne \in Nat
  OBVIOUS
<1>11. r \in Seq(T) /\ e \in Seq(T)
  OBVIOUS
<1>1. /\ x \in Seq(T) /\ Len(x) = na + nb
      /\ \A i \in 1..na : x[i] = a[i]
      /\ \A i \in 1..nb : x[na + i] = b[i]
  <2>1. x \in Seq(T) /\ TwoParts(x, a, b)
    BY TwoJoined
  <2> QED
    BY <2>1 DEF TwoParts
<1> HIDE DEF x
<1>2. /\ y \in Seq(T) /\ Len(y) = Len(x) + nr
      /\ \A i \in 1..Len(x) : y[i] = x[i]
      /\ \A i \in 1..nr : y[Len(x) + i] = r[i]
  <2>1. y \in Seq(T) /\ TwoParts(y, x, r)
    BY <1>1, <1>11, TwoJoined, Zenon
  <2> HIDE DEF y
  <2> QED
    BY <2>1 DEF TwoParts
<1> HIDE DEF y
<1>3. /\ s \in Seq(T) /\ Len(s) = Len(y) + ne
      /\ \A i \in 1..Len(y) : s[i] = y[i]
      /\ \A i \in 1..ne : s[Len(y) + i] = e[i]
  <2>1. s \in Seq(T) /\ TwoParts(s, y, e)
    BY <1>2, <1>11, TwoJoined, Zenon
  <2> HIDE DEF s
  <2> QED
    BY <2>1 DEF TwoParts
<1> HIDE DEF s, na, nb, nr, ne
<1>4. Len(y) = na + nb + nr /\ Len(s) = na + nb + nr + ne
  BY <1>0, <1>1, <1>2, <1>3
<1>5. ASSUME NEW i \in 1..na
      PROVE  s[i] = a[i]
  <2>1. i \in 1..Len(x) /\ i \in 1..Len(y)
    BY <1>0, <1>1, <1>4
  <2> QED
    BY <1>1, <1>2, <1>3, <2>1
<1>6. ASSUME NEW i \in 1..nb
      PROVE  s[na + i] = b[i]
  <2>1. na + i \in 1..Len(x) /\ na + i \in 1..Len(y)
    BY <1>0, <1>1, <1>4
  <2> QED
    BY <1>1, <1>2, <1>3, <2>1
<1>7. ASSUME NEW i \in 1..nr
      PROVE  s[na + nb + i] = r[i]
  <2>1. na + nb + i \in 1..Len(y) /\ na + nb + i = Len(x) + i
    BY <1>0, <1>1, <1>4
  <2>2. y[Len(x) + i] = r[i]
    BY <1>2
  <2> QED
    BY <1>3, <2>1, <2>2
<1>8. ASSUME NEW i \in 1..ne
      PROVE  s[na + nb + nr + i] = e[i]
  BY <1>3, <1>4
<1> QED
  BY <1>3, <1>4, <1>5, <1>6, <1>7, <1>8, Zenon DEF Joined, x, y, s, na, nb, nr, ne

\* The piece a place of a document lies in, as KindsAt tells them apart.
PieceAt(s, first, b, m, c, i) ==
    s[i] = IF i <= HeadingLength(first) THEN Heading(first)[i]
           ELSE IF i <= HeadingLength(first) + m THEN b[i - HeadingLength(first)]
           ELSE IF i <= 9 + m THEN Rest(first)[i - HeadingLength(first) - m]
           ELSE Ending(c)[i - 9 - m]

MadeOf(s, first, b, m, c) ==
    /\ s \in Seq(Units) /\ Len(s) = Total(m, c)
    /\ \A i \in 1..Len(s) : PieceAt(s, first, b, m, c, i)

\* A sentence is made of its pieces.
LEMMA PiecesJoined ==
    ASSUME NEW first \in BothKeys, NEW m \in Nat, NEW c \in 0..1,
           NEW b \in Seq(Units), Len(b) = m, NEW s,
           s = Sentence(first, b, c)
    PROVE  MadeOf(s, first, b, m, c)
<1> DEFINE f == HeadingLength(first)
           h == Heading(first)
           r == Rest(first)
           e == Ending(c)
<1>1. /\ f \in 4..8 /\ h \in Seq(Units) /\ Len(h) = f
      /\ r \in Seq(Units) /\ Len(r) = 9 - f
      /\ e \in Seq(Units) /\ Len(e) = 1 + c
  BY Lengthwise DEF Plain
<1>2. f = HeadingLength(first) /\ h = Heading(first) /\ r = Rest(first) /\ e = Ending(c)
  OBVIOUS
<1>3. s = h \o b \o r \o e /\ b \in Seq(Units)
  BY DEF Sentence
<1> HIDE DEF f, h, r, e
<1>4. s \in Seq(Units) /\ Joined(s, h, b, r, e)
  <2>1. h \o b \o r \o e \in Seq(Units) /\ Joined(h \o b \o r \o e, h, b, r, e)
    BY <1>1, <1>3, FourJoined
  <2> QED
    BY <1>3, <2>1, Zenon
<1>5. /\ Len(s) = 10 + m + c
      /\ \A i \in 1..f : s[i] = h[i]
      /\ \A i \in 1..m : s[f + i] = b[i]
      /\ \A i \in 1..(9 - f) : s[f + m + i] = r[i]
      /\ \A i \in 1..(1 + c) : s[9 + m + i] = e[i]
  <2>1. /\ Len(s) = Len(h) + Len(b) + Len(r) + Len(e)
        /\ \A i \in 1..Len(h) : s[i] = h[i]
        /\ \A i \in 1..Len(b) : s[Len(h) + i] = b[i]
        /\ \A i \in 1..Len(r) : s[Len(h) + Len(b) + i] = r[i]
        /\ \A i \in 1..Len(e) : s[Len(h) + Len(b) + Len(r) + i] = e[i]
    BY <1>4, Zenon DEF Joined
  <2>2. f + m + (9 - f) = 9 + m /\ f + m + (9 - f) + (1 + c) = 10 + m + c
    BY <1>1
  <2> QED
    BY <1>1, <2>1, <2>2
<1>6. ASSUME NEW i \in 1..Len(s)
      PROVE  s[i] = IF i <= f THEN h[i]
                    ELSE IF i <= f + m THEN b[i - f]
                    ELSE IF i <= 9 + m THEN r[i - f - m]
                    ELSE e[i - 9 - m]
  <2>0. i \in Nat /\ 1 <= i /\ i <= 10 + m + c
    BY <1>5
  <2>1. CASE i <= f
    <3>1. i \in 1..f
      BY <1>1, <2>0, <2>1
    <3> QED
      BY <1>5, <2>1, <3>1
  <2>2. CASE ~(i <= f) /\ i <= f + m
    <3>1. i - f \in 1..m /\ f + (i - f) = i
      BY <1>1, <2>0, <2>2
    <3>2. s[f + (i - f)] = b[i - f]
      BY <1>5, <3>1
    <3> QED
      BY <2>2, <3>1, <3>2
  <2>3. CASE ~(i <= f) /\ ~(i <= f + m) /\ i <= 9 + m
    <3>1. i - f - m \in 1..(9 - f) /\ f + m + (i - f - m) = i
      BY <1>1, <2>0, <2>3
    <3>2. s[f + m + (i - f - m)] = r[i - f - m]
      BY <1>5, <3>1
    <3> QED
      BY <2>3, <3>1, <3>2
  <2>4. CASE ~(i <= f) /\ ~(i <= f + m) /\ ~(i <= 9 + m)
    <3>1. i - 9 - m \in 1..(1 + c) /\ 9 + m + (i - 9 - m) = i
      BY <1>1, <2>0, <2>4
    <3>2. s[9 + m + (i - 9 - m)] = e[i - 9 - m]
      BY <1>5, <3>1
    <3> QED
      BY <2>4, <3>1, <3>2
  <2> QED
    BY <2>1, <2>2, <2>3, <2>4
<1>7. \A i \in 1..Len(s) : PieceAt(s, first, b, m, c, i)
  BY <1>2, <1>6 DEF PieceAt
<1> QED
  BY <1>4, <1>5, <1>7 DEF Total, MadeOf

\* A sentence has a shape and entries, and no more.
LEMMA SentencesAre ==
    /\ \A first \in BothKeys, b \in Bodies, c \in 0..1 : Sentence(first, b, c) \in Sentences
    /\ \A s \in Sentences :
          \E first \in BothKeys, b \in Bodies, c \in 0..1 : s = Sentence(first, b, c)
BY DEF Sentences, BothKeys

\* Entries of a list, cut where a sentence may cut them.
LEMMA ListedEntries ==
    ASSUME NEW es \in EntryLists
    PROVE  /\ es \in Seq(EntryTypes)
           /\ \A i, j \in DOMAIN es : i # j => IdOf(es[i].text) # IdOf(es[j].text)
<1>1. es \in SeqOf(EntryTypes, Cardinality(GoodIds))
  BY EntryListsAre
<1>2. PICK k \in 0..Cardinality(GoodIds) : es \in [1..k -> EntryTypes]
  BY <1>1 DEF SeqOf
<1>3. k \in Nat
  BY FinitelyManyIds
<1>4. es \in Seq(EntryTypes)
  BY <1>2, <1>3, FunctionIsList
<1> QED
  BY <1>4, EntryListsAre

LEMMA CutEntries ==
    ASSUME NEW m \in Nat, NEW k \in Nat, m <= 4 * k, 4 * k <= m + 1
    PROVE  m \in Lengths
<1>1. m = 4 * k \/ m = 4 * k - 1
  OBVIOUS
<1>2. m % 4 = 0 \/ m % 4 = 3
  BY <1>1
<1> QED
  BY <1>2 DEF Lengths

\* A sentence fits its shape to the end, and its IDs are distinct.
LEMMA SentenceFits ==
    ASSUME NEW first \in BothKeys, NEW c \in 0..1, NEW es \in EntryLists, NEW m \in Nat,
           m <= 4 * Len(es), 4 * Len(es) <= m + 1, NEW s,
           s = Sentence(first, Body(es, m), c)
    PROVE  /\ s \in Seq(Units) /\ m \in Lengths /\ Len(s) = Total(m, c)
           /\ Fits(s, first, m, c) /\ DistinctIds(s)
<1> DEFINE f == HeadingLength(first)
           b == Body(es, m)
<1>0. es \in Seq(EntryTypes) /\ Len(es) \in Nat
  BY ListedEntries
<1>1. m \in Lengths
  BY <1>0, CutEntries
<1>2. /\ b \in Seq(Units) /\ Len(b) = m
      /\ \A j \in 1..m : (j + 3) \div 4 \in DOMAIN es /\ b[j] = UnitOf(es[(j + 3) \div 4], j % 4)
  BY <1>0, BodyUnits
<1>21. /\ s = Sentence(first, b, c)
       /\ first \in BothKeys /\ m \in Nat /\ c \in 0..1
  OBVIOUS
<1> HIDE DEF b
<1>3. /\ s \in Seq(Units) /\ Len(s) = Total(m, c)
      /\ \A i \in 1..Len(s) : PieceAt(s, first, b, m, c, i)
  <2>1. MadeOf(s, first, b, m, c)
    BY <1>2, <1>21, PiecesJoined, Zenon
  <2> QED
    BY <2>1 DEF MadeOf
<1>4. f \in 4..8 /\ f = HeadingLength(first)
  BY Lengthwise
<1> HIDE DEF f
<1>5. ASSUME NEW j \in 1..m
      PROVE  b[j].kind \in BodyKinds(j % 4)
  <2>1. es[(j + 3) \div 4] \in EntryTypes /\ j % 4 \in 0..3
    <3>1. (j + 3) \div 4 \in DOMAIN es
      BY <1>2
    <3>2. \A q \in DOMAIN es : es[q] \in EntryTypes
      BY <1>0
    <3> QED
      BY <3>1, <3>2
  <2> QED
    BY <1>2, <2>1, UnitOfEntry, Zenon
<1>6. ASSUME NEW i \in 1..Len(s)
      PROVE  s[i].kind \in KindsAt(first, m, c, i)
  <2>1. PieceAt(s, first, b, m, c, i)
    BY <1>3
  <2>2. CASE i <= f
    BY <1>4, <2>1, <2>2, Zenon DEF PieceAt, KindsAt
  <2>3. CASE ~(i <= f) /\ i <= f + m
    <3>1. i - f \in 1..m
      BY <1>4, <2>3
    <3>2. s[i] = b[i - f]
      BY <1>4, <2>1, <2>3, Zenon DEF PieceAt
    <3>3. s[i].kind \in BodyKinds((i - f) % 4)
      BY <1>5, <3>1, <3>2, Zenon
    <3> QED
      BY <1>4, <2>3, <3>3, Zenon DEF KindsAt
  <2>4. CASE ~(i <= f) /\ ~(i <= f + m)
    BY <1>4, <2>1, <2>4, Zenon DEF PieceAt, KindsAt
  <2> QED
    BY <2>2, <2>3, <2>4
<1>7. Fits(s, first, m, c)
  <2>1. Len(s) <= Total(m, c)
    BY <1>3 DEF Total
  <2> QED
    BY <1>6, <2>1 DEF Fits
<1>8. ASSUME NEW i \in QuotedAt(s)
      PROVE  \E q \in DOMAIN es : i = f + (4 * q - 3) /\ s[i].text = es[q].text
  <2>0. i \in 1..Len(s) /\ s[i].kind = "quoted"
    BY <1>3 DEF QuotedAt
  <2>1. f < i /\ i <= f + m /\ (i - f) % 4 = 1
    BY <1>3, <1>4, <1>7, <2>0, PlacesOfIds
  <2> DEFINE j == i - f
             q == (j + 3) \div 4
  <2>2. j \in 1..m /\ j \in Nat /\ 1 <= j /\ j % 4 = 1 /\ ~(i <= f) /\ i = f + j
    <3>1. i \in Nat /\ f \in Nat
      BY <1>4, <2>0
    <3>2. j \in 1..m /\ j \in Nat /\ 1 <= j /\ ~(i <= f) /\ i = f + j
      BY <2>1, <3>1
    <3> QED
      BY <2>1, <3>2
  <2>3. PieceAt(s, first, b, m, c, i)
    BY <1>3, <2>0
  <2>4. s[i] = b[j]
    BY <1>4, <2>1, <2>2, <2>3, Zenon DEF PieceAt
  <2> HIDE DEF j
  <2>5. q \in DOMAIN es /\ b[j] = UnitOf(es[q], 1)
    BY <1>2, <2>2
  <2>6. j = 4 * q - 3
    BY <2>2, Quarter
  <2> HIDE DEF q
  <2>7. es[q] \in EntryTypes
    BY <1>0, <2>5
  <2>8. b[j] = Quoted(es[q].text)
    BY <2>5, <2>7, UnitOfEntry, Zenon
  <2>9. s[i].text = es[q].text
    BY <2>4, <2>8 DEF Quoted
  <2> QED
    BY <2>2, <2>5, <2>6, <2>9
<1>9. 0 \notin Met(s)
  <2>1. ASSUME NEW q \in DOMAIN es
        PROVE  IdOf(es[q].text) # 0
    <3>1. es[q] \in EntryTypes
      BY <1>0
    <3> QED
      BY <3>1 DEF EntryTypes, Good
  <2> QED
    BY <1>8, <2>1 DEF Met
<1>10. ASSUME NEW i \in QuotedAt(s), NEW j \in QuotedAt(s), i # j
       PROVE  IdOf(s[i].text) # IdOf(s[j].text)
  <2>1. PICK p \in DOMAIN es : i = f + (4 * p - 3) /\ s[i].text = es[p].text
    BY <1>8
  <2>2. PICK q \in DOMAIN es : j = f + (4 * q - 3) /\ s[j].text = es[q].text
    BY <1>8
  <2>3. p # q
    BY <1>10, <2>1, <2>2
  <2> QED
    BY <2>1, <2>2, <2>3, ListedEntries
<1> QED
  BY <1>1, <1>3, <1>7, <1>9, <1>10 DEF DistinctIds

\* The entries of a document that fits, and where their units stand.
EntriesOf(list, f, n) ==
    [k \in 1..n |-> [text |-> list[f + (4 * k - 3)].text, value |-> list[f + (4 * k - 1)].kind]]

\* The entries of a document with distinct IDs that fits a shape are those of a sentence.
LEMMA EntriesFit ==
    ASSUME NEW first \in BothKeys, NEW m \in Nat, NEW c \in 0..1,
           NEW list \in Seq(Units), Fits(list, first, m, c), Len(list) = Total(m, c),
           DistinctIds(list), NEW n \in Nat, 4 * n <= m + 1,
           NEW es, es = EntriesOf(list, HeadingLength(first), n)
    PROVE  es \in EntryLists /\ es \in Seq(EntryTypes) /\ Len(es) = n
<1> DEFINE f == HeadingLength(first)
<1>1. f \in 4..8 /\ f = HeadingLength(first)
  BY Lengthwise
<1> HIDE DEF f
<1>2. Len(list) = 10 + m + c /\ c \in Nat
  BY DEF Total
<1>3. ASSUME NEW k \in 1..n
      PROVE  /\ f + (4 * k - 3) \in QuotedAt(list)
             /\ list[f + (4 * k - 3)].text \in Good
             /\ list[f + (4 * k - 1)].kind \in {"true", "false"}
  <2> DEFINE i == f + (4 * k - 3)
             j == f + (4 * k - 1)
  <2>1. /\ k \in Nat /\ i \in Nat /\ f < i /\ i <= f + m /\ i \in 1..Len(list)
        /\ j \in Nat /\ f < j /\ j <= f + m /\ j \in 1..Len(list)
        /\ i - f = 4 * k - 3 /\ j - f = 4 * k - 1
    <3> DEFINE t == 4 * k
    <3>1. t \in Nat /\ 4 <= t /\ t <= m + 1 /\ k \in Nat /\ f \in Nat
      BY <1>1
    <3>2. i = f + (t - 3) /\ j = f + (t - 1) /\ t = 4 * k
      OBVIOUS
    <3> HIDE DEF t, i, j
    <3>3. /\ i \in Nat /\ f < i /\ i <= f + m /\ j \in Nat /\ f < j /\ j <= f + m
          /\ i - f = t - 3 /\ j - f = t - 1 /\ 1 <= i /\ 1 <= j
      BY <3>1, <3>2
    <3>4. i <= 10 + m + c /\ j <= 10 + m + c
      BY <1>1, <1>2, <3>3
    <3>5. i \in 1..Len(list) /\ j \in 1..Len(list)
      BY <1>2, <3>3, <3>4
    <3> QED
      BY <3>1, <3>2, <3>3, <3>5
  <2>2. (4 * k - 3) % 4 = 1 /\ (4 * k - 1) % 4 = 3
    BY <2>1
  <2> HIDE DEF i, j
  <2>3. list[i].kind \in KindsAt(first, m, c, i) /\ list[j].kind \in KindsAt(first, m, c, j)
    BY <2>1 DEF Fits
  <2>4. KindsAt(first, m, c, i) = BodyKinds(1) /\ KindsAt(first, m, c, j) = BodyKinds(3)
    BY <1>1, <2>1, <2>2, KindsInBody
  <2>5. list[i].kind = "quoted" /\ list[j].kind \in {"true", "false"}
    BY <2>3, <2>4, BodySteps
  <2>6. i \in QuotedAt(list)
    BY <2>1, <2>5 DEF QuotedAt
  <2>7. list[i].text \in IdTexts
    BY <2>1, <2>5, QuotedUnit
  <2>8. IdOf(list[i].text) # 0
    BY <2>6 DEF DistinctIds, Met
  <2> QED
    BY <2>5, <2>6, <2>7, <2>8 DEF Good, i, j
<1>4. es = [k \in 1..n |-> [text |-> list[f + (4 * k - 3)].text,
                            value |-> list[f + (4 * k - 1)].kind]]
  BY <1>1 DEF EntriesOf
<1>5. es \in [1..n -> EntryTypes]
  BY <1>3, <1>4 DEF EntryTypes
<1>6. es \in Seq(EntryTypes) /\ Len(es) = n
  BY <1>5, FunctionIsList, Zenon
<1>7. ASSUME NEW k \in 1..n, NEW l \in 1..n, k # l
      PROVE  IdOf(es[k].text) # IdOf(es[l].text)
  <2>1. f + (4 * k - 3) # f + (4 * l - 3)
    BY <1>1, <1>7
  <2>2. f + (4 * k - 3) \in QuotedAt(list) /\ f + (4 * l - 3) \in QuotedAt(list)
    BY <1>3
  <2>3. IdOf(list[f + (4 * k - 3)].text) # IdOf(list[f + (4 * l - 3)].text)
    BY <2>1, <2>2, Zenon DEF DistinctIds
  <2> QED
    BY <1>4, <2>3
<1>8. n <= Cardinality(GoodIds)
  <2> DEFINE g == [k \in 1..n |-> IdOf(es[k].text)]
  <2>1. g \in [1..n -> GoodIds]
    BY <1>5 DEF GoodIds, EntryTypes
  <2>2. \A k, l \in 1..n : k # l => g[k] # g[l]
    BY <1>7
  <2>3. IsFiniteSet(1..n) /\ Cardinality(1..n) = n
    BY FS_Interval
  <2> HIDE DEF g
  <2>4. ~(Cardinality(GoodIds) < Cardinality(1..n))
    BY <2>1, <2>2, <2>3, FinitelyManyIds, FS_PigeonHole
  <2> QED
    BY <2>3, <2>4, FinitelyManyIds
<1>9. es \in SeqOf(EntryTypes, Cardinality(GoodIds))
  <2>1. n \in 0..Cardinality(GoodIds)
    BY <1>8, FinitelyManyIds
  <2> QED
    BY <1>5, <2>1 DEF SeqOf
<1>10. DOMAIN es = 1..n
  BY <1>5
<1> QED
  BY <1>6, <1>7, <1>9, <1>10, EntryListsAre

\* The number of the entries.
LEMMA EntryCount ==
    ASSUME NEW m \in Lengths
    PROVE  m \in Nat /\ \E n \in Nat : m <= 4 * n /\ 4 * n <= m + 1
<1>1. m \in Nat /\ (m % 4 = 0 \/ m % 4 = 3)
  BY DEF Lengths
<1> DEFINE n == (m + 1) \div 4
<1>2. n \in Nat /\ 4 * n <= m + 1 /\ m <= 4 * n
  BY <1>1
<1> QED
  BY <1>1, <1>2

\* A document that fits a shape has the units of its entries.
LEMMA BodyFits ==
    ASSUME NEW first \in BothKeys, NEW m \in Nat, NEW c \in 0..1,
           NEW list \in Seq(Units), Fits(list, first, m, c), Len(list) = Total(m, c),
           NEW n \in Nat, m <= 4 * n, NEW es \in Seq(EntryTypes), Len(es) = n,
           es = EntriesOf(list, HeadingLength(first), n), NEW j \in 1..m
    PROVE  list[HeadingLength(first) + j] = Body(es, m)[j]
<1> DEFINE f == HeadingLength(first)
           q == (j + 3) \div 4
           i == f + j
<1>1. f \in 4..8 /\ f = HeadingLength(first)
  BY Lengthwise
<1> HIDE DEF f
<1>2. Len(list) = 10 + m + c /\ c \in Nat
  BY DEF Total
<1>3. /\ j \in Nat /\ 1 <= j /\ i \in Nat /\ f < i /\ i <= f + m /\ i \in 1..Len(list)
      /\ i - f = j /\ i = f + j
  <2>1. j \in Nat /\ 1 <= j /\ j <= m /\ f \in Nat /\ i = f + j
    BY <1>1
  <2> HIDE DEF i
  <2> HIDE DEF q
  <2>2. i \in Nat /\ f < i /\ i <= f + m /\ i - f = j /\ 1 <= i
    BY <2>1
  <2>4. f + m <= 10 + m + c /\ f + m \in Nat /\ 10 + m + c \in Nat
    BY <1>1, <1>2
  <2>3. i \in 1..Len(list)
    BY <1>2, <2>2, <2>4
  <2> QED
    BY <2>1, <2>2, <2>3
<1>4. q \in DOMAIN es /\ Body(es, m)[j] = UnitOf(es[q], j % 4)
  BY BodyUnits
<1>5. /\ j % 4 = 0 \/ j % 4 = 1 \/ j % 4 = 2 \/ j % 4 = 3
      /\ j % 4 = 1 => j = 4 * q - 3
      /\ j % 4 = 3 => j = 4 * q - 1
  BY <1>3, Quarter
<1> HIDE DEF i, q
<1>6. q \in 1..n /\ es[q] \in EntryTypes
  BY <1>4
<1>7. /\ es[q].text = list[f + (4 * q - 3)].text
      /\ es[q].value = list[f + (4 * q - 1)].kind
  BY <1>1, <1>6 DEF EntriesOf
<1>8. list[i] \in Units /\ list[i].kind \in BodyKinds(j % 4)
  <2>1. list[i].kind \in KindsAt(first, m, c, i)
    BY <1>3 DEF Fits
  <2>3. KindsAt(first, m, c, i) = BodyKinds((i - f) % 4)
    BY <1>1, <1>3, KindsInBody
  <2>4. list[i] \in Units
    BY <1>3
  <2> QED
    BY <1>3, <2>1, <2>3, <2>4, Zenon
<1>9. /\ UnitOf(es[q], 1) = Quoted(es[q].text) /\ UnitOf(es[q], 2) = Unit(":")
      /\ UnitOf(es[q], 3) = Unit(es[q].value) /\ UnitOf(es[q], 0) = Unit(",")
      /\ \A r \in 0..3 : UnitOf(es[q], r) \in Units
  BY <1>6, UnitOfEntry
<1>10. list[i] = UnitOf(es[q], j % 4)
  <2>1. CASE j % 4 = 1
    <3>1. list[i].kind = "quoted"
      BY <1>8, <2>1, BodySteps
    <3>2. list[i] = Quoted(list[i].text)
      BY <1>8, <3>1, QuotedUnit
    <3>3. i = f + (4 * q - 3)
      BY <1>3, <1>5, <2>1
    <3> QED
      BY <1>7, <1>9, <2>1, <3>2, <3>3, Zenon
  <2>2. CASE j % 4 = 2
    <3>1. list[i].kind = ":" /\ ":" # "quoted"
      BY <1>8, <2>2, BodySteps
    <3>2. Unit(":") \in Units /\ Unit(":").kind = ":"
      BY UnitKind DEF Units, Marks
    <3> QED
      BY <1>8, <1>9, <2>2, <3>1, <3>2, SameUnit, Zenon
  <2>3. CASE j % 4 = 3
    <3>1. list[i].kind \in {"true", "false"} /\ list[i].kind # "quoted"
      BY <1>8, <2>3, BodySteps
    <3>2. Unit(list[i].kind) \in Units /\ Unit(list[i].kind).kind = list[i].kind
      BY <3>1, UnitKind DEF Units, Marks
    <3>3. i = f + (4 * q - 1)
      BY <1>3, <1>5, <2>3
    <3>4. list[i] = Unit(list[i].kind)
      BY <1>8, <3>1, <3>2, SameUnit, Zenon
    <3> QED
      BY <1>7, <1>9, <2>3, <3>3, <3>4, Zenon
  <2>4. CASE j % 4 = 0
    <3>1. list[i].kind = "," /\ "," # "quoted"
      BY <1>8, <2>4, BodySteps
    <3>2. Unit(",") \in Units /\ Unit(",").kind = ","
      BY UnitKind DEF Units, Marks
    <3> QED
      BY <1>8, <1>9, <2>4, <3>1, <3>2, SameUnit, Zenon
  <2> QED
    BY <1>5, <2>1, <2>2, <2>3, <2>4
<1> QED
  BY <1>1, <1>3, <1>4, <1>10, Zenon

\* A document with distinct IDs that fits a shape to its end is a sentence.
LEMMA FitsSentence ==
    ASSUME NEW first \in BothKeys, NEW m \in Lengths, NEW c \in 0..1,
           NEW list \in Seq(Units), Fits(list, first, m, c), Len(list) = Total(m, c),
           DistinctIds(list)
    PROVE  list \in Sentences
<1> DEFINE f == HeadingLength(first)
<1>1. PICK n \in Nat : m <= 4 * n /\ 4 * n <= m + 1
  BY EntryCount
<1>2. m \in Nat
  BY EntryCount
<1> DEFINE es == EntriesOf(list, f, n)
           b == Body(es, m)
           s == Sentence(first, b, c)
<1>3. es \in EntryLists /\ es \in Seq(EntryTypes) /\ Len(es) = n /\ es = EntriesOf(list, f, n)
  BY <1>1, <1>2, EntriesFit
<1>4. f \in 4..8 /\ f = HeadingLength(first)
  BY Lengthwise
<1> HIDE DEF es, f
<1>5. b \in Seq(Units) /\ Len(b) = m
  BY <1>1, <1>2, <1>3, BodyUnits
<1>6. ASSUME NEW j \in 1..m
      PROVE  list[f + j] = b[j]
  BY <1>1, <1>2, <1>3, <1>4, BodyFits
<1>7. b \in Bodies
  <2>1. m \in {k \in 0..(4 * Len(es)) : 4 * Len(es) <= k + 1}
    BY <1>1, <1>2, <1>3
  <2> QED
    BY <1>3, <2>1 DEF Bodies
<1> HIDE DEF b
<1>8. s \in Sentences
  BY <1>7, SentencesAre
<1>9. MadeOf(s, first, b, m, c)
  BY <1>2, <1>5, PiecesJoined
<1> HIDE DEF s
<1>10. /\ s \in Seq(Units) /\ Len(s) = Total(m, c)
       /\ \A i \in 1..Len(s) : PieceAt(s, first, b, m, c, i)
  BY <1>9 DEF MadeOf
<1>11. ASSUME NEW i \in 1..Len(list)
       PROVE  list[i] = s[i]
  <2>1. PieceAt(s, first, b, m, c, i) /\ list[i] \in Units /\ s[i] \in Units
    BY <1>10
  <2>2. CASE f < i /\ i <= f + m
    <3>1. i - f \in 1..m /\ ~(i <= f) /\ f + (i - f) = i
      BY <1>2, <1>4, <2>2
    <3>2. s[i] = b[i - f]
      BY <1>4, <2>1, <2>2, <3>1, Zenon DEF PieceAt
    <3>3. list[f + (i - f)] = b[i - f]
      BY <1>6, <3>1, Zenon
    <3> QED
      BY <3>1, <3>2, <3>3, Zenon
  <2>3. CASE ~(f < i /\ i <= f + m)
    <3>1. KindsAt(first, m, c, i) \subseteq Fixed
      BY <1>2, <1>4, <2>3, KindsOutside
    <3>2. list[i].kind \in KindsAt(first, m, c, i)
      BY DEF Fits
    <3>3. KindsAt(first, m, c, i) = {s[i].kind}
      <4>1. i <= f \/ ~(i <= f + m)
        BY <1>2, <1>4, <2>3
      <4>2. CASE i <= f
        BY <1>4, <2>1, <4>2, Zenon DEF PieceAt, KindsAt
      <4>3. CASE ~(i <= f) /\ ~(i <= f + m)
        BY <1>4, <2>1, <4>3, Zenon DEF PieceAt, KindsAt
      <4> QED
        BY <4>1, <4>2, <4>3
    <3>4. list[i].kind = s[i].kind /\ list[i].kind # "quoted"
      BY <3>1, <3>2, <3>3, FixedUnits
    <3> QED
      BY <2>1, <3>4, SameUnit, Zenon
  <2> QED
    BY <2>2, <2>3
<1>12. list = s
  BY <1>10, <1>11, SeqEqual
<1> QED
  BY <1>8, <1>12

\* A document that fits a shape to its end.
Complete(list, first, m, c) == Fits(list, first, m, c) /\ Len(list) = Total(m, c)

\* Every sentence fits a shape to its end.
LEMMA SentencesFit ==
    ASSUME NEW s \in Sentences
    PROVE  /\ s \in Seq(Units) /\ DistinctIds(s)
           /\ \E first \in BothKeys, m \in Lengths, c \in 0..1 : Complete(s, first, m, c)
<1>1. PICK first \in BothKeys, b \in Bodies, c \in 0..1 : s = Sentence(first, b, c)
  BY SentencesAre
<1>7. PICK es \in EntryLists :
          b \in {Body(es, n) : n \in {k \in 0..(4 * Len(es)) : 4 * Len(es) <= k + 1}}
  BY DEF Bodies
<1>2. PICK m \in {k \in 0..(4 * Len(es)) : 4 * Len(es) <= k + 1} : b = Body(es, m)
  BY <1>7
<1>3. Len(es) \in Nat
  BY ListedEntries
<1>4. m \in Nat /\ m <= 4 * Len(es) /\ 4 * Len(es) <= m + 1 /\ s = Sentence(first, Body(es, m), c)
  BY <1>1, <1>2, <1>3
<1>5. /\ s \in Seq(Units) /\ m \in Lengths /\ Len(s) = Total(m, c)
      /\ Fits(s, first, m, c) /\ DistinctIds(s)
  BY <1>4, SentenceFits
<1>6. Complete(s, first, m, c)
  BY <1>5 DEF Complete
<1> QED
  BY <1>5, <1>6

\* A "true" that follows an ID stands two units behind it.
LEMMA TrueIdsAreOptedOut ==
    ASSUME NEW first \in BothKeys, NEW m \in Lengths, NEW c \in 0..1,
           NEW list \in Seq(Units), Complete(list, first, m, c)
    PROVE  TrueIds(list) = OptedOut(list)
<1> DEFINE f == HeadingLength(first)
<1>0. f \in 4..8 /\ f = HeadingLength(first) /\ m \in Nat /\ (m % 4 = 0 \/ m % 4 = 3)
  BY Lengthwise DEF Lengths
<1> HIDE DEF f
<1>1. Fits(list, first, m, c) /\ Len(list) = 10 + m + c /\ c \in Nat
  BY DEF Complete, Total
<1>2. ASSUME NEW i \in 1..Len(list)
      PROVE  /\ list[i].kind = "quoted" <=> f < i /\ i <= f + m /\ (i - f) % 4 = 1
             /\ list[i].kind = "true" => f < i /\ i <= f + m /\ (i - f) % 4 = 3
  BY <1>0, <1>1, PlacesOfIds
<1>3. ASSUME NEW i \in QuotedAt(list)
      PROVE  list[i + 2].kind = "true" <=> IsTrue(list, i)
  <2> DEFINE a == i - f
  <2>0. i \in 1..Len(list) /\ list[i].kind = "quoted"
    BY DEF QuotedAt
  <2>1. f < i /\ i <= f + m /\ (i - f) % 4 = 1 /\ i \in Nat /\ f \in Nat
    BY <1>0, <1>2, <2>0
  <2>8. f < i /\ i <= f + m /\ i \in Nat /\ f \in Nat /\ m \in Nat
    BY <1>0, <2>1
  <2>9. a \in Nat /\ 1 <= a /\ a <= m /\ i = f + a
    BY <2>8
  <2>2. a \in 1..m /\ a \in Nat /\ a % 4 = 1 /\ i = f + a
    BY <1>0, <2>1, <2>9
  <2> HIDE DEF a
  <2>3. a + 2 <= m /\ (a + 1) % 4 = 2 /\ (a + 2) % 4 = 3
    BY <1>0, <2>2
  <2>4. /\ i + 1 \in 1..Len(list) /\ i + 2 \in 1..Len(list)
        /\ (i + 1) - f = a + 1 /\ (i + 2) - f = a + 2
    <3>1. f + m <= 10 + m + c /\ f + m \in Nat /\ 10 + m + c \in Nat
      BY <1>0, <1>1
    <3>2. i + 1 \in Nat /\ i + 2 \in Nat /\ i + 2 <= f + m /\ i + 1 <= f + m /\ 1 <= i + 1 /\ 1 <= i + 2
      BY <1>0, <2>2, <2>3
    <3>3. (i + 1) - f = a + 1 /\ (i + 2) - f = a + 2
      BY <2>1, <2>2
    <3> QED
      BY <1>1, <3>1, <3>2, <3>3
  <2>5. list[i + 1].kind # "quoted" /\ list[i + 2].kind # "quoted"
    BY <1>2, <2>3, <2>4
  <2>6. ASSUME list[i + 2].kind = "true"
        PROVE  IsTrue(list, i)
    <3>1. i + 2 \in DOMAIN list /\ i < i + 2
      BY <2>1, <2>4
    <3>2. \A k \in (i + 1)..(i + 2) : k = i + 1 \/ k = i + 2
      BY <2>1
    <3>3. IsLast(list, i, i + 2)
      BY <2>5, <3>2 DEF IsLast
    <3> QED
      BY <2>6, <3>1, <3>3 DEF IsTrue
  <2>7. ASSUME IsTrue(list, i)
        PROVE  list[i + 2].kind = "true"
    <3>1. PICK j \in 1..Len(list) : i < j /\ list[j].kind = "true" /\ IsLast(list, i, j)
      BY <2>7 DEF IsTrue
    <3> DEFINE b == j - f
    <3>2. f < j /\ j <= f + m /\ b % 4 = 3 /\ j \in Nat
      BY <1>2, <3>1
    <3>6. f < j /\ j <= f + m /\ j \in Nat /\ i < j
      BY <3>1, <3>2
    <3>3. b \in Nat /\ b <= m /\ j = f + b /\ a < b
      BY <2>8, <2>9, <3>6
    <3> HIDE DEF b
    <3>4. ASSUME b # a + 2
          PROVE  FALSE
      <4>1. a + 4 <= b /\ (a + 4) % 4 = 1
        BY <2>2, <3>2, <3>3, <3>4
      <4>4. a + 4 <= b
        BY <4>1
      <4>2. i + 4 \in (i + 1)..j /\ (i + 4) - f = a + 4 /\ f < i + 4 /\ i + 4 <= f + m
        BY <2>8, <2>9, <3>3, <4>4
      <4>3. i + 4 \in 1..Len(list)
        BY <2>1, <3>1, <4>2
      <4>5. list[i + 4].kind = "quoted"
        BY <1>2, <4>1, <4>2, <4>3
      <4> QED
        BY <3>1, <4>2, <4>5 DEF IsLast
    <3>5. j = i + 2
      BY <2>1, <2>2, <3>3, <3>4
    <3> QED
      BY <3>1, <3>5
  <2> QED
    BY <2>6, <2>7
<1>4. {j \in DOMAIN list : list[j].kind = "quoted" /\ list[j + 2].kind = "true"} =
          {k \in QuotedAt(list) : IsTrue(list, k)}
  <2>1. \A j \in DOMAIN list : list[j].kind = "quoted" <=> j \in QuotedAt(list)
    BY DEF QuotedAt
  <2>2. QuotedAt(list) \subseteq DOMAIN list
    BY DEF QuotedAt
  <2> QED
    BY <1>3, <2>1, <2>2
<1> QED
  BY <1>4, Zenon DEF TrueIds, OptedOut

-----------------------------------------------------------------------------
(* The parser and the language, unit by unit *)

\* What is known of the units read, and the parser's place in every document that
\* begins with them; there is one, unless the parser is stuck.
Known(list, place, v, seen, got) ==
    /\ list \in Seq(Units) /\ DistinctIds(list)
    /\ seen = Met(list) /\ got = OptedOut(list)
    /\ place \in {"entryColon", "entryValue"} => LastMet(list, v)

Tracks(list, place, k, ks) ==
    \A first \in BothKeys, m \in Lengths, c \in 0..1 :
        Fits(list, first, m, c) => StateAt(first, m, c, Len(list), place, k, ks)

Leads(list, place, k, ks) ==
    \/ Dead(place, k, ks)
    \/ \E first \in BothKeys, m \in Lengths, c \in 0..1 :
          Fits(list, first, m, c) /\ StateAt(first, m, c, Len(list), place, k, ks)

\* A unit that is accepted keeps what is known of the document.
LEMMA OneUnitKnown ==
    ASSUME at \in Places, NEW list, Known(list, at, id, seenIds, parsed),
           NEW u \in Units, Accepts(u), Notes(u), NEW more, more = Append(list, u)
    PROVE  Known(more, Goes(u), id', seenIds', parsed')
<1>0. /\ list \in Seq(Units) /\ DistinctIds(list) /\ seenIds = Met(list)
      /\ parsed = OptedOut(list) /\ u \in Units /\ more = Append(list, u)
      /\ at \in {"entryColon", "entryValue"} => LastMet(list, id)
  BY DEF Known
<1>1. more \in Seq(Units)
  BY <1>0, OneUnitMore, Zenon
<1>2. /\ Met(more) = IF u.kind = "quoted" THEN Met(list) \cup {IdOf(u.text)} ELSE Met(list)
      /\ u.kind # "true" => OptedOut(more) = OptedOut(list)
      /\ u.kind = "true" => OptsOutLast(list, more)
  BY <1>0, OneUnitMet, Zenon
<1>3. /\ \A v : u.kind # "quoted" /\ LastMet(list, v) => LastMet(more, v)
      /\ u.kind = "quoted" => LastMet(more, IdOf(u.text))
  BY <1>0, OneUnitLast, Zenon
<1>4. u.kind = "quoted" => ParseDecimalUll(u.text) = IdOf(u.text)
  BY UnitKinds, TextParses
<1>5. u.kind = "quoted" => IdOf(u.text) \notin Met(list) \cup {0}
  BY <1>0, <1>4 DEF Accepts, IdIsNew
<1>6. DistinctIds(more)
  BY <1>0, <1>5, OneUnitDistinct, Zenon
<1>7. /\ Goes(u) \in Places
      /\ u.kind = "true" => at = "entryValue"
      /\ Goes(u) = "entryColon" => u.kind = "quoted"
      /\ Goes(u) = "entryValue" => at = "entryColon" /\ u.kind = ":"
  BY EntryPlaces
<1>8. seenIds' = Met(more)
  BY <1>0, <1>2, <1>4 DEF Notes
<1>9. parsed' = OptedOut(more)
  BY <1>0, <1>2, <1>7 DEF Notes, OptsOutLast
<1>10. Goes(u) \in {"entryColon", "entryValue"} => LastMet(more, id')
  BY <1>0, <1>3, <1>4, <1>7 DEF Notes
<1> QED
  BY <1>1, <1>6, <1>8, <1>9, <1>10 DEF Known

\* One unit more fits a shape if its kind does.
LEMMA FitsMore ==
    ASSUME NEW list \in Seq(Units), NEW u \in Units, NEW more, more = Append(list, u),
           NEW first, NEW m \in Lengths, NEW c \in 0..1
    PROVE  Fits(more, first, m, c) <=>
               /\ Fits(list, first, m, c) /\ Len(list) < Total(m, c)
               /\ u.kind \in KindsAt(first, m, c, Len(list) + 1)
<1> DEFINE n == Len(list)
           t == Total(m, c)
<1>1. /\ n \in Nat /\ DOMAIN more = 1..(n + 1) /\ Len(more) = n + 1
      /\ more[n + 1] = u /\ \A k \in 1..n : more[k] = list[k]
  BY OneUnitMore
<1>2. t \in Nat
  BY DEF Total, Lengths
<1>3. n = Len(list) /\ t = Total(m, c)
  OBVIOUS
<1> HIDE DEF n, t
<1>4. \A k : k \in 1..(n + 1) <=> k \in 1..n \/ k = n + 1
  BY <1>1
<1>5. n + 1 <= t <=> n <= t /\ n < t
  BY <1>1, <1>2
<1> QED
  BY <1>1, <1>3, <1>4, <1>5 DEF Fits

\* A unit that is accepted leads from place to place in every document.
LEMMA TracksOn ==
    ASSUME NEW list \in Seq(Units), Tracks(list, at, key, keys), NEW u \in Units, Accepts(u),
           NEW more, more = Append(list, u)
    PROVE  Tracks(more, Goes(u), NextKey(u), NextKeys)
<1>1. u.kind = "quoted" => IdIsNew(u.text)
  BY DEF Accepts
<1>2. ASSUME NEW first \in BothKeys, NEW m \in Lengths, NEW c \in 0..1, Fits(more, first, m, c)
      PROVE  StateAt(first, m, c, Len(more), Goes(u), NextKey(u), NextKeys)
  <2>1. /\ Fits(list, first, m, c) /\ Len(list) < Total(m, c)
        /\ u.kind \in KindsAt(first, m, c, Len(list) + 1)
    BY <1>2, FitsMore
  <2>2. StateAt(first, m, c, Len(list), at, key, keys)
    BY <2>1 DEF Tracks
  <2>3. Len(more) = Len(list) + 1 /\ Len(list) \in Nat /\ Len(more) \in Nat
    BY OneUnitMore
  <2>4. u.kind \in KindsAt(first, m, c, Len(more))
    BY <2>1, <2>3, Zenon
  <2> QED
    BY <1>1, <2>1, <2>2, <2>3, <2>4, Follows, Zenon
<1> QED
  BY <1>2 DEF Tracks

\* A parser that is stuck stays stuck.
LEMMA StaysDead ==
    ASSUME NEW u, Accepts(u), Dead(at, key, keys)
    PROVE  Dead(Goes(u), NextKey(u), NextKeys)
<1>1. u.kind \in Takes[at] /\ (at = "value" => key \notin keys)
  BY DEF Accepts, KeyIsNew
<1>2. at # "tail" /\ (at = "colon" => u.kind = ":")
  BY <1>1, Taken
<1>3. at = "colon" /\ key \in keys /\ u.kind = ":"
  BY <1>1, <1>2 DEF Dead
<1>4. Goes(u) = "value" /\ NextKey(u) = key /\ NextKeys = keys
  BY <1>3, Moves DEF NextKey, NextKeys
<1> QED
  BY <1>3, <1>4 DEF Dead

\* A unit that is accepted leads on in some document, or gets the parser stuck.
LEMMA LeadsOn ==
    ASSUME NEW list \in Seq(Units), Leads(list, at, key, keys), NEW u \in Units, Accepts(u),
           NEW more, more = Append(list, u)
    PROVE  Leads(more, Goes(u), NextKey(u), NextKeys)
<1>1. /\ u.kind = "quoted" => IdIsNew(u.text)
      /\ u.kind \in Takes[at] /\ (at = "value" => key \notin keys)
  BY DEF Accepts, KeyIsNew
<1>2. CASE Dead(at, key, keys)
  BY <1>2, StaysDead DEF Leads
<1>3. ASSUME NEW first \in BothKeys, NEW m \in Lengths, NEW c \in 0..1,
             Fits(list, first, m, c), StateAt(first, m, c, Len(list), at, key, keys)
      PROVE  Leads(more, Goes(u), NextKey(u), NextKeys)
  <2>0. Len(more) = Len(list) + 1 /\ Len(list) \in Nat /\ Len(more) \in Nat
    BY OneUnitMore
  <2>1. \/ Continues(first, m, c, Len(list), u)
        \/ Dead(Goes(u), NextKey(u), NextKeys)
    BY <1>1, <1>3, <2>0, Chooses, Zenon
  <2>2. CASE Dead(Goes(u), NextKey(u), NextKeys)
    BY <2>2 DEF Leads
  <2>3. CASE Continues(first, m, c, Len(list), u)
    <3>1. PICK other \in BothKeys, k \in Lengths, d \in 0..1 :
              /\ Len(list) < Total(k, d)
              /\ StateAt(other, k, d, Len(list), at, key, keys)
              /\ u.kind \in KindsAt(other, k, d, Len(list) + 1)
              /\ Agree(first, m, c, other, k, d, Len(list))
      BY <2>3 DEF Continues
    <3>2. Fits(list, other, k, d)
      <4>1. Len(list) <= Total(k, d)
        BY <2>0, <3>1 DEF Total, Lengths
      <4> QED
        BY <1>3, <3>1, <4>1 DEF Fits, Agree
    <3>3. Fits(more, other, k, d)
      BY <3>1, <3>2, FitsMore
    <3>4. u.kind \in KindsAt(other, k, d, Len(more))
      BY <2>0, <3>1, Zenon
    <3>5. StateAt(other, k, d, Len(more), Goes(u), NextKey(u), NextKeys)
      BY <1>1, <2>0, <3>1, <3>4, Follows, Zenon
    <3> QED
      BY <3>3, <3>5 DEF Leads
  <2> QED
    BY <2>1, <2>2, <2>3
<1> QED
  BY <1>2, <1>3 DEF Leads

\* What a sentence begins with fits its shape, and its last ID is new.
LEMMA PrefixFits ==
    ASSUME NEW s \in Seq(Units), DistinctIds(s),
           NEW first \in BothKeys, NEW m \in Lengths, NEW c \in 0..1, Complete(s, first, m, c),
           NEW list \in Seq(Units), NEW u \in Units, NEW l \in 0..Len(s),
           Append(list, u) = SubSeq(s, 1, l)
    PROVE  /\ Fits(Append(list, u), first, m, c)
           /\ u.kind = "quoted" => IdOf(u.text) \notin Met(list) \cup {0}
<1> DEFINE more == Append(list, u)
           n == Len(list)
<1>1. /\ n \in Nat /\ DOMAIN more = 1..(n + 1) /\ Len(more) = n + 1
      /\ more[n + 1] = u /\ \A k \in 1..n : more[k] = list[k]
  BY OneUnitMore
<1>2. /\ Len(SubSeq(s, 1, l)) = l
      /\ \A j \in 1..l : j \in DOMAIN s /\ SubSeq(s, 1, l)[j] = s[j]
  BY FirstElements
<1>9. more = SubSeq(s, 1, l) /\ n = Len(list)
  OBVIOUS
<1> HIDE DEF more, n
<1>3. l = n + 1 /\ \A j \in 1..(n + 1) : j \in DOMAIN s /\ more[j] = s[j]
  BY <1>1, <1>2, <1>9
<1>4. n + 1 \in 1..(n + 1) /\ n + 1 <= Len(s) /\ \A j \in 1..n : j \in 1..(n + 1) /\ j # n + 1
  <2>1. l <= Len(s) /\ n + 1 \in 1..(n + 1) /\ \A j \in 1..n : j \in 1..(n + 1) /\ j # n + 1
    BY <1>1
  <2> QED
    BY <1>3, <2>1
<1>5. u = s[n + 1] /\ n + 1 \in DOMAIN s
  BY <1>1, <1>3, <1>4
<1>6. \A j \in 1..n : j \in DOMAIN s /\ list[j] = s[j]
  BY <1>1, <1>3, <1>4
<1>7. Fits(more, first, m, c)
  <2>1. Len(s) = Total(m, c) /\ \A i \in 1..Len(s) : s[i].kind \in KindsAt(first, m, c, i)
    BY DEF Complete, Fits
  <2>2. Len(more) <= Total(m, c)
    BY <1>1, <1>4, <2>1
  <2>3. \A i \in 1..Len(more) : i \in 1..Len(s) /\ more[i] = s[i]
    BY <1>1, <1>3
  <2> QED
    BY <2>1, <2>2, <2>3 DEF Fits
<1>8. ASSUME u.kind = "quoted"
      PROVE  IdOf(u.text) \notin Met(list) \cup {0}
  <2>1. n + 1 \in QuotedAt(s)
    BY <1>5, <1>8 DEF QuotedAt
  <2>2. IdOf(u.text) # 0
    BY <1>5, <2>1 DEF DistinctIds, Met
  <2>3. ASSUME NEW i \in QuotedAt(list)
        PROVE  IdOf(list[i].text) # IdOf(u.text)
    <3>1. i \in 1..n /\ list[i].kind = "quoted"
      BY <1>9 DEF QuotedAt
    <3>2. i \in QuotedAt(s) /\ i # n + 1 /\ list[i] = s[i]
      BY <1>4, <1>6, <3>1 DEF QuotedAt
    <3> QED
      BY <1>5, <2>1, <3>2 DEF DistinctIds
  <2> QED
    BY <2>2, <2>3 DEF Met
<1> QED
  BY <1>7, <1>8 DEF more

\* What the parser refuses begins no sentence.
LEMMA RefusedBeginsNothing ==
    ASSUME NEW list, Known(list, at, id, seenIds, parsed), Tracks(list, at, key, keys),
           NEW u \in Units, ~Accepts(u)
    PROVE  Append(list, u) \notin ViablePrefixes
<1>0. list \in Seq(Units) /\ seenIds = Met(list)
  BY DEF Known
<1> SUFFICES ASSUME Append(list, u) \in ViablePrefixes
             PROVE  FALSE
  OBVIOUS
<1>1. PICK s \in Sentences : Append(list, u) \in Prefixes(s)
  BY DEF ViablePrefixes
<1>2. /\ s \in Seq(Units) /\ DistinctIds(s)
      /\ \E first \in BothKeys, m \in Lengths, c \in 0..1 : Complete(s, first, m, c)
  BY SentencesFit
<1>3. PICK first \in BothKeys, m \in Lengths, c \in 0..1 : Complete(s, first, m, c)
  BY <1>2
<1>4. PICK l \in 0..Len(s) : Append(list, u) = SubSeq(s, 1, l)
  BY <1>1 DEF Prefixes
<1> DEFINE more == Append(list, u)
<1>5. /\ Fits(more, first, m, c)
      /\ u.kind = "quoted" => IdOf(u.text) \notin Met(list) \cup {0}
  BY <1>0, <1>2, <1>3, <1>4, PrefixFits
<1>6. Len(more) = Len(list) + 1 /\ Len(list) \in Nat /\ Len(more) \in Nat
  BY <1>0, OneUnitMore
<1>7. more = Append(list, u)
  OBVIOUS
<1> HIDE DEF more
<1>8. /\ Fits(list, first, m, c) /\ Len(list) < Total(m, c)
      /\ u.kind \in KindsAt(first, m, c, Len(list) + 1)
  BY <1>0, <1>5, <1>7, FitsMore
<1>9. StateAt(first, m, c, Len(list), at, key, keys)
  BY <1>8 DEF Tracks
<1>10. u.kind = "quoted" => IdIsNew(u.text)
  <2>1. u.kind = "quoted" => ParseDecimalUll(u.text) = IdOf(u.text)
    BY UnitKinds, TextParses
  <2> QED
    BY <1>0, <1>5, <2>1 DEF IdIsNew
<1>11. u.kind \in KindsAt(first, m, c, Len(more))
  BY <1>6, <1>8, Zenon
<1>12. Accepts(u)
  BY <1>6, <1>8, <1>9, <1>10, <1>11, Follows, Zenon
<1> QED
  BY <1>12

\* Both keys have come and nothing else does: the parser is at the end of a shape.
LEMMA CompleteState ==
    ASSUME NEW first \in BothKeys, NEW m \in Lengths, NEW c \in 0..1, NEW n \in Nat,
           NEW place, NEW k, NEW ks, StateAt(first, m, c, n, place, k, ks)
    PROVE  /\ n = Total(m, c) => place = "tail" /\ ks = BothKeys
           /\ place = "tail" => n = Total(m, c)
<1>0. m \in Nat /\ HeadingLength(first) \in 4..8 /\ Total(m, c) = 10 + m + c
  BY Lengthwise DEF Lengths, Total
<1>1. CASE InHeading(first, n, place, k, ks)
  BY <1>0, <1>1 DEF InHeading
<1>2. CASE InBody(first, m, n, place, ks)
  <2>1. n <= HeadingLength(first) + m /\ place = BodyPlace((n - HeadingLength(first)) % 4)
    BY <1>2 DEF InBody
  <2>2. n # Total(m, c)
    BY <1>0, <2>1
  <2>3. (n - HeadingLength(first)) % 4 \in 0..3
    BY <1>0, <1>2 DEF InBody
  <2>4. place # "tail"
    BY <2>1, <2>3 DEF BodyPlace
  <2> QED
    BY <2>2, <2>4
<1>3. CASE InRest(first, m, n, place, k, ks)
  BY <1>0, <1>3 DEF InRest
<1>4. CASE InEnding(m, c, n, place, ks)
  BY <1>0, <1>4 DEF InEnding
<1> QED
  BY <1>1, <1>2, <1>3, <1>4 DEF StateAt

\* Between two units the parser knows what it has read; its verdict is the language's.
Midway(list) ==
    /\ Known(list, at, id, seenIds, parsed)
    /\ Tracks(list, at, key, keys) /\ Leads(list, at, key, keys)
    /\ out = Before

Judged(list) ==
    /\ at = "accepted" => list \in Sentences /\ out = TrueIds(list)
    /\ at = "rejected" => list \notin ViablePrefixes /\ out = Before
    /\ at = "incomplete" => list \notin Sentences /\ out = Before

LangInv ==
    reader = "jsonc" /\ written = NotWritten =>
        /\ ahead = <<>> /\ doc \in Seq(Units) /\ at \in Places \cup Verdicts
        /\ at \in Places => Midway(Stripped(doc))
        /\ Judged(Stripped(doc))

LEMMA PlacesAreNoVerdicts == \A place \in Places : place \notin Verdicts
BY DEF Places, Verdicts

\* Reading a unit keeps the invariant.
LEMMA ReadKeepsLanguage ==
    ASSUME LangInv, reader = "jsonc", written = NotWritten,
           NEW u \in Units \cup Range(ahead), Read(u)
    PROVE  LangInv'
<1>1. at \in Places /\ ahead = <<>> /\ doc \in Seq(Units) /\ Midway(Stripped(doc))
  BY DEF LangInv, Read, Reading
<1>2. u \in Units
  BY <1>1 DEF Range
<1>3. ahead' = <<>> /\ out' = Before /\ doc' = Append(doc, u)
  BY <1>1 DEF Read, Comes, Midway
<1> DEFINE list == Stripped(doc)
           more == Stripped(Append(doc, u))
<1>4. /\ list \in Seq(Units)
      /\ u.kind = "gap" => more = list
      /\ u.kind # "gap" => more = Append(list, u)
  BY <1>1, <1>2, StrippedMore
<1>5. doc' \in Seq(Units) /\ more = Stripped(doc')
  BY <1>1, <1>2, <1>3
<1> HIDE DEF more, list
<1>6. ASSUME NEW k, NEW ks, NEW v, NEW seen, NEW got, NEW place \in Places,
             Known(more, place, v, seen, got), Tracks(more, place, k, ks),
             Leads(more, place, k, ks),
             at' = place, key' = k, keys' = ks, id' = v, seenIds' = seen, parsed' = got
      PROVE  LangInv'
  <2>1. Midway(Stripped(doc))'
    BY <1>3, <1>5, <1>6 DEF Midway
  <2>2. at' \in Places /\ at' \notin Verdicts
    BY <1>6, PlacesAreNoVerdicts
  <2>3. Judged(Stripped(doc))'
    BY <2>2 DEF Judged, Verdicts
  <2> QED
    BY <1>3, <1>5, <2>1, <2>2, <2>3 DEF LangInv
<1>7. CASE u.kind = "gap" /\ UNCHANGED <<at, scanVars>>
  <2>1. more = list
    BY <1>4, <1>7
  <2>2. /\ at' = at /\ key' = key /\ keys' = keys /\ id' = id
        /\ seenIds' = seenIds /\ parsed' = parsed
    BY <1>7 DEF scanVars
  <2>3. /\ Known(more, at, id, seenIds, parsed) /\ Tracks(more, at, key, keys)
        /\ Leads(more, at, key, keys)
    BY <1>1, <2>1 DEF Midway, list
  <2> QED
    BY <1>1, <1>6, <2>2, <2>3
<1>8. CASE u.kind # "gap" /\ Accepts(u) /\ at' = Goes(u) /\ Notes(u)
  <2>1. more = Append(list, u)
    BY <1>4, <1>8
  <2>2. /\ Known(list, at, id, seenIds, parsed) /\ Tracks(list, at, key, keys)
        /\ Leads(list, at, key, keys)
    BY <1>1 DEF Midway, list
  <2>3. Goes(u) \in Places
    BY <1>1, <1>8, EntryPlaces
  <2>4. Known(more, Goes(u), id', seenIds', parsed')
    BY <1>1, <1>2, <1>8, <2>1, <2>2, OneUnitKnown, Zenon
  <2>5. Tracks(more, Goes(u), NextKey(u), NextKeys)
    BY <1>2, <1>4, <1>8, <2>1, <2>2, TracksOn, Zenon
  <2>6. Leads(more, Goes(u), NextKey(u), NextKeys)
    BY <1>2, <1>4, <1>8, <2>1, <2>2, LeadsOn, Zenon
  <2>7. key' = NextKey(u) /\ keys' = NextKeys
    BY <1>8 DEF Notes, NextKey, NextKeys
  <2> QED
    BY <1>6, <1>8, <2>3, <2>4, <2>5, <2>6, <2>7
<1>9. CASE u.kind # "gap" /\ ~Accepts(u) /\ at' = "rejected"
  <2>1. more = Append(list, u)
    BY <1>4, <1>9
  <2>2. Known(list, at, id, seenIds, parsed) /\ Tracks(list, at, key, keys)
    BY <1>1 DEF Midway, list
  <2>3. more \notin ViablePrefixes
    BY <1>2, <1>9, <2>1, <2>2, RefusedBeginsNothing, Zenon
  <2>4. Judged(Stripped(doc))'
    BY <1>3, <1>5, <1>9, <2>3 DEF Judged
  <2>5. at' \in Verdicts /\ at' \notin Places
    BY <1>9 DEF Verdicts, Places
  <2> QED
    BY <1>3, <1>5, <2>4, <2>5 DEF LangInv
<1> QED
  BY <1>7, <1>8, <1>9 DEF Read

\* A whole document fits a shape to its end, and what fits one to its end is whole.
LEMMA WholeIsSentence ==
    ASSUME NEW list, Midway(list), Whole
    PROVE  list \in Sentences /\ parsed = TrueIds(list)
<1>1. /\ list \in Seq(Units) /\ DistinctIds(list) /\ parsed = OptedOut(list)
      /\ at = "tail" /\ keys = BothKeys
  BY DEF Midway, Known, Whole, BothKeys
<1>2. PICK first \in BothKeys, m \in Lengths, c \in 0..1 :
          Fits(list, first, m, c) /\ StateAt(first, m, c, Len(list), at, key, keys)
  BY <1>1 DEF Midway, Leads, Dead
<1>3. Len(list) \in Nat
  BY <1>1
<1>4. Len(list) = Total(m, c)
  BY <1>1, <1>2, <1>3, CompleteState
<1>5. Complete(list, first, m, c)
  BY <1>2, <1>4 DEF Complete
<1>6. list \in Sentences
  BY <1>1, <1>2, <1>4, FitsSentence, Zenon
<1>7. TrueIds(list) = OptedOut(list)
  BY <1>1, <1>5, TrueIdsAreOptedOut, Zenon
<1> QED
  BY <1>1, <1>6, <1>7

\* Where a sentence has been read the parser is at its end, with both keys.
LEMMA SentenceIsWhole ==
    ASSUME NEW list, Midway(list), list \in Sentences
    PROVE  Whole
<1>1. PICK first \in BothKeys, m \in Lengths, c \in 0..1 : Complete(list, first, m, c)
  BY SentencesFit
<1>2. Fits(list, first, m, c) /\ Len(list) = Total(m, c)
  BY <1>1 DEF Complete
<1>3. StateAt(first, m, c, Len(list), at, key, keys)
  BY <1>2 DEF Midway, Tracks
<1>4. Len(list) \in Nat
  BY DEF Midway, Known
<1>5. at = "tail" /\ keys = BothKeys
  BY <1>2, <1>3, <1>4, CompleteState
<1> QED
  BY <1>5 DEF Whole, BothKeys

\* The end of the document keeps the invariant.
LEMMA EndKeepsLanguage ==
    ASSUME LangInv, reader = "jsonc", written = NotWritten, EndOfDocument
    PROVE  LangInv'
<1>1. at \in Places /\ ahead = <<>> /\ doc \in Seq(Units) /\ Midway(Stripped(doc))
  BY DEF LangInv, EndOfDocument, Reading
<1>2. ahead' = <<>> /\ doc' = doc /\ out = Before
  BY <1>1 DEF EndOfDocument, Midway
<1>3. Judged(Stripped(doc))'
  <2>1. CASE Whole
    <3>1. at' = "accepted" /\ out' = parsed
      BY <2>1 DEF EndOfDocument
    <3>2. Stripped(doc) \in Sentences /\ parsed = TrueIds(Stripped(doc))
      BY <1>1, <2>1, WholeIsSentence
    <3> QED
      BY <1>2, <3>1, <3>2 DEF Judged
  <2>2. CASE ~Whole
    <3>1. at' = "incomplete" /\ out' = Before
      BY <1>2, <2>2 DEF EndOfDocument
    <3>2. Stripped(doc) \notin Sentences
      BY <1>1, <2>2, SentenceIsWhole
    <3> QED
      BY <1>2, <3>1, <3>2 DEF Judged
  <2> QED
    BY <2>1, <2>2
<1>4. at' \in {"accepted", "incomplete"}
  BY DEF EndOfDocument
<1>5. at' \in Verdicts /\ at' \notin Places
  BY <1>4 DEF Verdicts, Places
<1> QED
  BY <1>1, <1>2, <1>3, <1>5 DEF LangInv

LEMMA ShortestShape ==
    "version" \in BothKeys /\ 0 \in Lengths /\ 0 \in 0..1 /\ Fits(<<>>, "version", 0, 0)
<1>1. 0 \in Nat /\ 0 \in 0..1
  OBVIOUS
<1>2. 0 % 4 = 0
  OBVIOUS
<1>3. Len(<<>>) = 0 /\ \A i : i \notin 1..0
  OBVIOUS
<1>4. 0 <= 10 + 0 + 0
  OBVIOUS
<1>5. 0 \in Lengths
  BY <1>1, <1>2, Zenon DEF Lengths
<1>6. Fits(<<>>, "version", 0, 0)
  BY <1>3, <1>4, Zenon DEF Fits, Total
<1> QED
  BY <1>1, <1>5, <1>6 DEF BothKeys

LEMMA LanguageAtStart ==
    ASSUME key = "", keys = {}, at = "start", id = 0, seenIds = {}, parsed = {}, out = Before
    PROVE  Midway(<<>>)
<1>1. Known(<<>>, at, id, seenIds, parsed)
  BY EmptyDocument DEF Known
<1>2. /\ Len(<<>>) = 0
      /\ \A first, m, c : StateAt(first, m, c, 0, at, key, keys)
  BY DEF StateAt, InHeading
<1>3. Tracks(<<>>, at, key, keys)
  BY <1>2 DEF Tracks
<1>4. Leads(<<>>, at, key, keys)
  <2>1. "version" \in BothKeys /\ 0 \in Lengths /\ 0 \in 0..1
    BY ShortestShape
  <2>2. Fits(<<>>, "version", 0, 0)
    BY ShortestShape
  <2>3. StateAt("version", 0, 0, Len(<<>>), at, key, keys)
    BY <1>2
  <2> QED
    BY <2>1, <2>2, <2>3 DEF Leads
<1> QED
  BY <1>1, <1>3, <1>4 DEF Midway

\* ParseRssAssetPreferences accepts the documents of its language and no others, for
\* any width of the IDs, any texts and any length: what it refuses half way begins no
\* such document, what it accepts publishes the IDs that are true, and what it does
\* not accept leaves the caller's set alone.
THEOREM ParserIsTheLanguage == DocSpec => []ParserReadsTheLanguage
<1>1. DocInit => LangInv
  <2> SUFFICES ASSUME DocInit, reader = "jsonc", written = NotWritten PROVE LangInv
    BY DEF LangInv
  <2>1. NotWritten \notin WrittenSets
    <3>1. WrittenSets \subseteq SUBSET (1..MaxId)
      BY NumbersAssumption
    <3>2. NotWritten \notin SUBSET (1..MaxId)
      BY DEF NotWritten
    <3> QED
      BY <3>1, <3>2, Zenon
  <2>2. /\ ahead = <<>> /\ doc = <<>> /\ at = "start" /\ key = "" /\ keys = {}
        /\ id = 0 /\ seenIds = {} /\ parsed = {} /\ out = Before
    BY <2>1 DEF DocInit, ScanInit
  <2>3. Midway(Stripped(doc))
    BY <2>2, LanguageAtStart, StrippedNothing
  <2>4. at \in Places /\ at \notin Verdicts
    BY <2>2 DEF Places, Verdicts
  <2>5. Judged(Stripped(doc)) /\ doc \in Seq(Units)
    BY <2>2, EmptyDocument DEF Judged
  <2> QED
    BY <2>2, <2>3, <2>4, <2>5 DEF LangInv
<1>2. LangInv /\ [DocNext]_docVars => LangInv'
  <2> SUFFICES ASSUME LangInv, [DocNext]_docVars PROVE LangInv'
    OBVIOUS
  <2>0. SUFFICES ASSUME (reader = "jsonc" /\ written = NotWritten)'
                 PROVE  LangInv'
    BY DEF LangInv
  <2>1. reader = "jsonc" /\ written = NotWritten
    BY <2>0 DEF DocNext, Read, EndOfDocument, ReadLine, EndOfLines, docVars
  <2>2. CASE UNCHANGED docVars
    BY <2>2 DEF docVars, scanVars, LangInv, Midway, Judged
  <2>3. ASSUME NEW u \in Units \cup Range(ahead), Read(u)
        PROVE  LangInv'
    BY <2>1, <2>3, ReadKeepsLanguage
  <2>4. CASE EndOfDocument
    BY <2>1, <2>4, EndKeepsLanguage
  <2> QED
    BY <2>1, <2>2, <2>3, <2>4 DEF DocNext, ReadLine, EndOfLines
<1>3. LangInv => ParserReadsTheLanguage
  <2> SUFFICES ASSUME LangInv, reader = "jsonc", written = NotWritten
               PROVE  ParserReadsTheLanguage
    BY DEF ParserReadsTheLanguage
  <2>1. at \in Places \cup Verdicts /\ (at \in Places => out = Before) /\ Judged(Stripped(doc))
    BY DEF LangInv, Midway
  <2>2. at \in Verdicts \/ out = Before
    BY <2>1
  <2> QED
    BY <2>1, <2>2 DEF Judged, ParserReadsTheLanguage, Verdicts
<1> QED
  BY <1>1, <1>2, <1>3, PTL DEF DocSpec
=============================================================================
