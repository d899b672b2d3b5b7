------------------------ MODULE SignatureScanProofs ------------------------
(***************************************************************************)
(* Machine-checked theorems about the search for a class's virtual table,  *)
(* for every image a linker can put together from the pieces.              *)
(*                                                                         *)
(* The image is laid out by recursion over its pieces: Layout says which   *)
(* word of which piece stands at an address, and that nothing else stands  *)
(* there.  It turns a match of the scan into a word of a piece (NamePlaces,*)
(* TypePlaces, TablePlaces).  OnTheWay then says that the table is ahead   *)
(* of the cursor as long as the search goes on.                            *)
(***************************************************************************)
EXTENDS SignatureScan, ListLemmas

-----------------------------------------------------------------------------
(* The layout of an image *)

LEMMA Sizes == \A p \in Pieces : SizeOf[p] \in 2..4
BY DEF Pieces, Names, Data, Further, SizeOf

LEMMA WordsAdd ==
    ASSUME NEW pieces \in Seq(Pieces)
    PROVE  /\ Words(pieces) \in [0..Len(pieces) -> Nat]
           /\ Words(pieces)[0] = 0
           /\ \A n \in 1..Len(pieces) :
                 Words(pieces)[n] = Words(pieces)[n - 1] + SizeOf[pieces[n]]
<1> DEFINE N == Len(pieces)
           step == [n \in 1..N |-> [s \in Nat |-> s + SizeOf[pieces[n]]]]
           IsWords(g) == g = [n \in 0..N |-> IF n = 0 THEN 0 ELSE g[n - 1] + SizeOf[pieces[n]]]
           h == CHOOSE g : IsWords(g)
<1>1. N \in Nat /\ 0 \in Nat
  OBVIOUS
<1>2. \A n \in 1..N : SizeOf[pieces[n]] \in Nat
  <2>1. \A n \in 1..N : pieces[n] \in Pieces
    OBVIOUS
  <2> QED
    BY <2>1, Sizes
<1> HIDE DEF N
<1>3. step \in [1..N -> [Nat -> Nat]]
  BY <1>2
<1> HIDE DEF step
<1>4. PICK g : Stepping(g, Nat, 0, N, step)
  BY <1>1, <1>3, Steps, Zenon
<1>5. IsWords(g)
  <2>1. g \in [0..N -> Nat] /\ g[0] = 0 /\ \A n \in 1..N : g[n] = step[n][g[n - 1]]
    BY <1>4 DEF Stepping
  <2>2. ASSUME NEW n \in 0..N, n # 0
        PROVE  g[n] = g[n - 1] + SizeOf[pieces[n]]
    <3>1. n \in 1..N /\ n - 1 \in 0..N
      BY <1>1, <2>2
    <3>2. g[n - 1] \in Nat /\ g[n] = step[n][g[n - 1]]
      BY <2>1, <3>1
    <3> QED
      BY <3>1, <3>2 DEF step
  <2>3. g = [n \in 0..N |-> g[n]]
    BY <2>1
  <2> QED
    BY <2>1, <2>2, <2>3
<1>6. IsWords(h)
  BY <1>5
<1>7. Words(pieces) = h
  BY DEF Words, N
<1> HIDE DEF h
<1>8. h = [n \in 0..N |-> h[n]] /\ h[0] = 0
  BY <1>1, <1>6
<1>9. \A n \in 1..N : h[n] = h[n - 1] + SizeOf[pieces[n]]
  <2>1. \A n \in 1..N : n \in 0..N /\ n # 0
    BY <1>1
  <2> QED
    BY <1>6, <2>1
<1>10. h \in [0..N -> Nat]
  <2>1. \A n \in 1..N : h[n - 1] \in Nat => h[n] \in Nat
    BY <1>2, <1>9
  <2>2. N \in Nat /\ h = [n \in 0..N |-> h[n]] /\ h[0] \in Nat
    BY <1>1, <1>8
  <2> QED
    BY <2>1, <2>2, RunType, Zenon
<1> QED
  BY <1>7, <1>8, <1>9, <1>10 DEF N

\* A piece that comes before another ends before that begins.
LEMMA WordsGrow ==
    ASSUME NEW pieces \in Seq(Pieces), NEW i \in 0..Len(pieces), NEW j \in 0..Len(pieces), i < j
    PROVE  /\ i + 1 \in 1..Len(pieces)
           /\ Words(pieces)[i] + SizeOf[pieces[i + 1]] <= Words(pieces)[j]
<1> DEFINE N == Len(pieces)
           W == Words(pieces)
           T == {n \in 0..(j - i - 1) : W[i + 1] <= W[i + 1 + n]}
<1>1. N \in Nat /\ i + 1 \in 1..N /\ i + 1 - 1 = i
  OBVIOUS
<1>2. W \in [0..N -> Nat] /\ \A n \in 1..N : W[n] = W[n - 1] + SizeOf[pieces[n]]
  BY WordsAdd
<1>3. \A n \in 1..N : SizeOf[pieces[n]] \in Nat
  <2>1. \A n \in 1..N : pieces[n] \in Pieces
    OBVIOUS
  <2> QED
    BY <2>1, Sizes
<1> HIDE DEF N, W
<1>4. W[i + 1] = W[i] + SizeOf[pieces[i + 1]]
  BY <1>1, <1>2
<1>5. j \in 0..N /\ i \in 0..N
  BY DEF N
<1>6. 0 \in T /\ j - i - 1 \in Nat
  BY <1>1, <1>2, <1>5
<1>7. ASSUME NEW n \in 1..(j - i - 1), n - 1 \in T
      PROVE  n \in T
  <2>1. i + 1 + n \in 1..N /\ (i + 1 + n) - 1 = i + 1 + (n - 1) /\ n \in 0..(j - i - 1)
    BY <1>1, <1>5
  <2>2. /\ W[i + 1 + n] = W[(i + 1 + n) - 1] + SizeOf[pieces[i + 1 + n]]
        /\ SizeOf[pieces[i + 1 + n]] \in Nat
    BY <1>2, <1>3, <2>1
  <2>3. W[i + 1] <= W[i + 1 + (n - 1)]
    BY <1>7
  <2>4. W[i + 1] \in Nat /\ W[i + 1 + (n - 1)] \in Nat
    <3>1. i + 1 \in 0..N /\ i + 1 + (n - 1) \in 0..N
      BY <1>1, <1>5
    <3> QED
      BY <1>2, <3>1
  <2> QED
    BY <2>1, <2>2, <2>3, <2>4
<1> HIDE DEF T
<1>8. \A n \in 0..(j - i - 1) : n \in T
  BY <1>6, <1>7, NumbersUpTo
<1>9. j - i - 1 \in T /\ i + 1 + (j - i - 1) = j
  BY <1>1, <1>5, <1>6, <1>8
<1>10. W[i + 1] <= W[j]
  BY <1>9 DEF T
<1> QED
  BY <1>1, <1>4, <1>10 DEF N, W

LEMMA WordsRise ==
    ASSUME NEW pieces \in Seq(Pieces), NEW i \in 0..Len(pieces), NEW j \in 0..Len(pieces), i <= j
    PROVE  Words(pieces)[i] <= Words(pieces)[j]
<1> DEFINE W == Words(pieces)
           N == Len(pieces)
<1>1. W \in [0..N -> Nat] /\ N \in Nat
  BY WordsAdd
<1>2. W[i] \in Nat /\ W[j] \in Nat /\ i \in Nat /\ j \in Nat
  BY <1>1
<1>3. CASE i = j
  BY <1>2, <1>3
<1>4. CASE i < j
  <2>1. i + 1 \in 1..N /\ W[i] + SizeOf[pieces[i + 1]] <= W[j]
    BY <1>4, WordsGrow
  <2>2. SizeOf[pieces[i + 1]] \in 2..4
    <3>1. pieces[i + 1] \in Pieces
      BY <2>1
    <3> QED
      BY <3>1, Sizes
  <2> HIDE DEF W
  <2> QED
    BY <1>2, <2>1, <2>2 DEF W
<1> QED
  BY <1>2, <1>3, <1>4

\* The pieces of an image: all of them, and those of each section.
LEMMA ImageFacts ==
    ASSUME NEW img \in Images
    PROVE  LET all == AllPieces(img)
               r   == Len(img.rodata)
               l   == Len(img.relro)
               o   == Len(img.local)
               f   == Len(img.rest)
           IN  /\ img \in ImageTypes
               /\ all \in Seq(Pieces) /\ Len(all) = r + l + o + f
               /\ r \in Nat /\ l \in Nat /\ o \in Nat /\ f \in Nat
               /\ \A i \in 1..r : all[i] = img.rodata[i]
               /\ \A i \in 1..l : all[r + i] = img.relro[i]
               /\ \A i \in 1..o : all[r + l + i] = img.local[i]
               /\ \A i \in 1..f : all[r + l + o + i] = img.rest[i]
               /\ \A i, j \in 1..Len(all) : all[i] = all[j] => i = j
               /\ \A p \in Range(all) : PointsTo[p] \subseteq Range(all)
<1> DEFINE a == img.rodata
           b == img.relro
           c == img.local
           d == img.rest
           ab == a \o b
           abc == ab \o c
           abcd == abc \o d
<1>1. /\ img \in ImageTypes
      /\ IsInjective(AllPieces(img))
      /\ \A p \in Range(AllPieces(img)) : PointsTo[p] \subseteq Range(AllPieces(img))
  BY ImagesAssumption
<1>2. a \in Seq(Names) /\ b \in Seq(Data) /\ c \in Seq(Data) /\ d \in Seq(Further)
  BY <1>1 DEF ImageTypes
<1>3. Names \subseteq Pieces /\ Data \subseteq Pieces /\ Further \subseteq Pieces
  BY DEF Pieces
<1>4. a \in Seq(Pieces) /\ b \in Seq(Pieces) /\ c \in Seq(Pieces) /\ d \in Seq(Pieces)
  <2>1. \A S, T, s : S \subseteq T /\ s \in Seq(S) => s \in Seq(T)
    OBVIOUS
  <2> QED
    BY <1>2, <1>3, <2>1, Zenon
<1>5. AllPieces(img) = abcd
  BY DEF AllPieces
<1> HIDE DEF a, b, c, d
<1>6. /\ ab \in Seq(Pieces) /\ Len(ab) = Len(a) + Len(b)
      /\ \A i \in 1..(Len(a) + Len(b)) : ab[i] = IF i <= Len(a) THEN a[i] ELSE b[i - Len(a)]
  BY <1>4, ConcatProperties, Zenon
<1> HIDE DEF ab
<1>7. /\ abc \in Seq(Pieces) /\ Len(abc) = Len(ab) + Len(c)
      /\ \A i \in 1..(Len(ab) + Len(c)) : abc[i] = IF i <= Len(ab) THEN ab[i] ELSE c[i - Len(ab)]
  <2>1. ab \in Seq(Pieces) /\ c \in Seq(Pieces)
    BY <1>4, <1>6
  <2> QED
    BY <2>1, ConcatProperties, Zenon
<1> HIDE DEF abc
<1>14. /\ abcd \in Seq(Pieces) /\ Len(abcd) = Len(abc) + Len(d)
       /\ \A i \in 1..(Len(abc) + Len(d)) :
             abcd[i] = IF i <= Len(abc) THEN abc[i] ELSE d[i - Len(abc)]
  <2>1. abc \in Seq(Pieces) /\ d \in Seq(Pieces)
    BY <1>4, <1>7
  <2> QED
    BY <2>1, ConcatProperties, Zenon
<1> HIDE DEF abcd
<1> DEFINE r == Len(a)
           l == Len(b)
           o == Len(c)
           f == Len(d)
<1>8. r \in Nat /\ l \in Nat /\ o \in Nat /\ f \in Nat
  BY <1>4
<1>9. Len(ab) = r + l /\ Len(abc) = r + l + o /\ Len(abcd) = r + l + o + f
  BY <1>6, <1>7, <1>14
<1> HIDE DEF r, l, o, f
<1>15. ASSUME NEW i \in 1..(r + l + o)
       PROVE  abcd[i] = abc[i]
  <2>1. i \in 1..(r + l + o + f) /\ i <= r + l + o
    BY <1>8
  <2> QED
    BY <1>9, <1>14, <2>1 DEF f
<1>10. ASSUME NEW i \in 1..r
       PROVE  abcd[i] = a[i]
  <2>1. i \in 1..(r + l) /\ i <= r /\ i \in 1..(r + l + o) /\ i <= r + l
    BY <1>8
  <2>2. abc[i] = ab[i]
    BY <1>7, <1>9, <2>1 DEF o
  <2>3. ab[i] = a[i]
    BY <1>6, <2>1 DEF r, l
  <2> QED
    BY <1>15, <2>1, <2>2, <2>3
<1>11. ASSUME NEW i \in 1..l
       PROVE  abcd[r + i] = b[i]
  <2>1. /\ r + i \in 1..(r + l) /\ ~(r + i <= r) /\ r + i \in 1..(r + l + o) /\ r + i <= r + l
        /\ r + i - r = i
    BY <1>8
  <2>2. abc[r + i] = ab[r + i]
    BY <1>7, <1>9, <2>1 DEF o
  <2>3. ab[r + i] = b[i]
    BY <1>6, <2>1 DEF r, l
  <2> QED
    BY <1>15, <2>1, <2>2, <2>3
<1>12. ASSUME NEW i \in 1..o
       PROVE  abcd[r + l + i] = c[i]
  <2>1. r + l + i \in 1..(r + l + o) /\ ~(r + l + i <= r + l) /\ r + l + i - (r + l) = i
    BY <1>8
  <2>2. abc[r + l + i] = c[i]
    BY <1>7, <1>9, <2>1 DEF o
  <2> QED
    BY <1>15, <2>1, <2>2
<1>16. ASSUME NEW i \in 1..f
       PROVE  abcd[r + l + o + i] = d[i]
  <2>1. /\ r + l + o + i \in 1..(r + l + o + f) /\ ~(r + l + o + i <= r + l + o)
        /\ r + l + o + i - (r + l + o) = i
    BY <1>8
  <2> QED
    BY <1>9, <1>14, <2>1 DEF f
<1>13. \A i, j \in 1..Len(abcd) : abcd[i] = abcd[j] => i = j
  <2>1. IsInjective(abcd) /\ DOMAIN abcd = 1..Len(abcd)
    BY <1>1, <1>5, <1>14
  <2> QED
    BY <2>1 DEF IsInjective
<1> QED
  BY <1>1, <1>5, <1>14, <1>8, <1>9, <1>10, <1>11, <1>12, <1>16, <1>13 DEF r, l, o, f, a, b, c, d

\* A piece is at the address behind the words of those before it.
LEMMA Addresses ==
    ASSUME NEW img \in Images, NEW i \in 1..Len(AllPieces(img))
    PROVE  AddressOf(img, AllPieces(img)[i]) = 1 + Words(AllPieces(img))[i - 1]
<1> DEFINE all == AllPieces(img)
           k == CHOOSE n \in DOMAIN all : all[n] = all[i]
<1>1. all \in Seq(Pieces) /\ \A m, n \in 1..Len(all) : all[m] = all[n] => m = n
  BY ImageFacts
<1> HIDE DEF all
<1>2. DOMAIN all = 1..Len(all) /\ i \in DOMAIN all
  BY <1>1 DEF all
<1>3. k \in DOMAIN all /\ all[k] = all[i]
  BY <1>2
<1>4. k = i
  BY <1>1, <1>2, <1>3
<1> QED
  BY <1>4 DEF AddressOf, all

LEMMA AddressTypes ==
    ASSUME NEW img \in Images, NEW p \in Range(AllPieces(img))
    PROVE  AddressOf(img, p) \in Nat /\ AddressOf(img, p) # 0 /\ p \in Pieces
<1> DEFINE all == AllPieces(img)
<1>1. all \in Seq(Pieces)
  BY ImageFacts
<1>2. PICK i \in 1..Len(all) : p = all[i]
  BY <1>1 DEF Range
<1>3. AddressOf(img, p) = 1 + Words(all)[i - 1]
  BY <1>2, Addresses
<1>4. i - 1 \in 0..Len(all) /\ Words(all) \in [0..Len(all) -> Nat]
  BY <1>1, WordsAdd
<1> QED
  BY <1>1, <1>2, <1>3, <1>4

LEMMA AddressesDiffer ==
    ASSUME NEW img \in Images, NEW p \in Range(AllPieces(img)), NEW q \in Range(AllPieces(img)),
           AddressOf(img, p) = AddressOf(img, q)
    PROVE  p = q
<1> DEFINE all == AllPieces(img)
           W == Words(all)
<1>1. all \in Seq(Pieces)
  BY ImageFacts
<1>2. PICK i \in 1..Len(all) : p = all[i]
  BY <1>1 DEF Range
<1>3. PICK j \in 1..Len(all) : q = all[j]
  BY <1>1 DEF Range
<1>4. AddressOf(img, p) = 1 + W[i - 1] /\ AddressOf(img, q) = 1 + W[j - 1]
  BY <1>2, <1>3, Addresses
<1>5. W \in [0..Len(all) -> Nat]
  BY <1>1, WordsAdd
<1>6. ASSUME NEW m \in 1..Len(all), NEW n \in 1..Len(all), m < n, W[m - 1] = W[n - 1]
      PROVE  FALSE
  <2>1. m - 1 \in 0..Len(all) /\ n - 1 \in 0..Len(all) /\ m - 1 < n - 1 /\ m - 1 + 1 = m
    BY <1>1, <1>6
  <2>2. W[m - 1] + SizeOf[all[m]] <= W[n - 1]
    BY <1>1, <2>1, WordsGrow
  <2>3. SizeOf[all[m]] \in 2..4 /\ W[m - 1] \in Nat
    <3>1. all[m] \in Pieces
      BY <1>1
    <3> QED
      BY <1>5, <2>1, <3>1, Sizes
  <2> QED
    BY <1>6, <2>2, <2>3
<1> HIDE DEF W, all
<1>7. W[i - 1] = W[j - 1]
  <2>1. W[i - 1] \in Nat /\ W[j - 1] \in Nat
    <3>1. Len(all) \in Nat /\ i - 1 \in 0..Len(all) /\ j - 1 \in 0..Len(all)
      BY <1>1
    <3> QED
      BY <1>5, <3>1
  <2>2. \A x, y \in Nat : 1 + x = 1 + y => x = y
    OBVIOUS
  <2>3. 1 + W[i - 1] = 1 + W[j - 1]
    BY <1>4
  <2> QED
    BY <2>1, <2>2, <2>3, Zenon
<1>8. ~(i < j) /\ ~(j < i)
  BY <1>6, <1>7
<1>9. i = j
  BY <1>8
<1> QED
  BY <1>2, <1>3, <1>9

-----------------------------------------------------------------------------
(* What stands where *)

Kinds == {"length", "class", "nul", "other", "P", "zero", "offset", "pointer"}
Cells == [kind : Kinds, to : Nat]

LEMMA OneBeforeThree ==
    ASSUME NEW a, NEW b, NEW c, NEW d
    PROVE  <<a>> \o <<b, c, d>> = <<a, b, c, d>>
<1> DEFINE T == {a, b, c, d}
           s == <<a>>
           t == <<b, c, d>>
           l == <<a, b, c, d>>
<1>1. /\ s \in Seq(T) /\ Len(s) = 1 /\ s[1] = a
      /\ t \in Seq(T) /\ Len(t) = 3 /\ t[1] = b /\ t[2] = c /\ t[3] = d
      /\ l \in Seq(T) /\ Len(l) = 4 /\ l[1] = a /\ l[2] = b /\ l[3] = c /\ l[4] = d
  OBVIOUS
<1> HIDE DEF s, t, l, T
<1>2. /\ s \o t \in Seq(T) /\ Len(s \o t) = Len(s) + Len(t)
      /\ \A i \in 1..(Len(s) + Len(t)) :
            (s \o t)[i] = IF i <= Len(s) THEN s[i] ELSE t[i - Len(s)]
  BY <1>1, ConcatProperties, Zenon
<1>3. /\ Len(s \o t) = 4
      /\ \A i \in 1..4 : (s \o t)[i] = IF i <= 1 THEN s[i] ELSE t[i - 1]
  BY <1>1, <1>2
<1>4. (s \o t)[1] = a /\ (s \o t)[2] = b /\ (s \o t)[3] = c /\ (s \o t)[4] = d
  BY <1>1, <1>3
<1>5. ASSUME NEW i \in 1..4
      PROVE  (s \o t)[i] = l[i]
  <2>1. i = 1 \/ i = 2 \/ i = 3 \/ i = 4
    OBVIOUS
  <2> QED
    BY <1>1, <1>4, <2>1
<1>6. s \o t = l
  BY <1>1, <1>2, <1>3, <1>5, SeqEqual
<1> QED
  BY <1>6 DEF s, t, l

LEMMA ContentIs ==
    ASSUME NEW img
    PROVE  /\ Content(img, "name") = <<Word("length"), Word("class"), Word("nul")>>
           /\ Content(img, "derivedName") = <<Word("other"), Word("nul")>>
           /\ Content(img, "pointerName") =
                <<Word("P"), Word("length"), Word("class"), Word("nul")>>
           /\ Content(img, "type") = <<Word("other"), Pointer(AddressOf(img, "name"))>>
           /\ Content(img, "table") = <<Word("zero"), Pointer(AddressOf(img, "type")), Word("other")>>
           /\ Content(img, "secondTable") = <<Word("offset"), Pointer(AddressOf(img, "type")), Word("other")>>
           /\ Content(img, "derivedType") = <<Word("other"), Pointer(AddressOf(img, "derivedName")),
                                       Pointer(AddressOf(img, "type"))>>
           /\ Content(img, "pointerType") = <<Word("other"), Pointer(AddressOf(img, "pointerName")),
                                       Word("zero"), Pointer(AddressOf(img, "type"))>>
           /\ Content(img, "reference") = <<Word("zero"), Pointer(AddressOf(img, "type"))>>
           /\ Content(img, "filler") = <<Word("other"), Word("other")>>
<1>1. Content(img, "name") = <<Word("length"), Word("class"), Word("nul")>>
  BY DEF Content, ClassName
<1>2. Content(img, "derivedName") = <<Word("other"), Word("nul")>>
  BY DEF Content, ClassName
<1>3. Content(img, "pointerName") = <<Word("P"), Word("length"), Word("class"), Word("nul")>>
  BY OneBeforeThree DEF Content, ClassName
<1>4. Content(img, "type") = <<Word("other"), Pointer(AddressOf(img, "name"))>>
  BY DEF Content, ClassName
<1>5. Content(img, "table") = <<Word("zero"), Pointer(AddressOf(img, "type")), Word("other")>>
  BY DEF Content, ClassName
<1>6. Content(img, "secondTable") = <<Word("offset"), Pointer(AddressOf(img, "type")), Word("other")>>
  BY DEF Content, ClassName
<1>7. Content(img, "derivedType") = <<Word("other"), Pointer(AddressOf(img, "derivedName")),
                                       Pointer(AddressOf(img, "type"))>>
  BY DEF Content, ClassName
<1>8. Content(img, "pointerType") = <<Word("other"), Pointer(AddressOf(img, "pointerName")),
                                       Word("zero"), Pointer(AddressOf(img, "type"))>>
  BY DEF Content, ClassName
<1>9. Content(img, "reference") = <<Word("zero"), Pointer(AddressOf(img, "type"))>>
  BY DEF Content, ClassName
<1>10. Content(img, "filler") = <<Word("other"), Word("other")>>
  BY DEF Content, ClassName
<1> QED
  BY <1>1, <1>2, <1>3, <1>4, <1>5, <1>6, <1>7, <1>8, <1>9, <1>10

LEMMA ContentTypes ==
    ASSUME NEW img \in Images, NEW p \in Range(AllPieces(img))
    PROVE  Content(img, p) \in Seq(Cells) /\ Len(Content(img, p)) = SizeOf[p]
<1>1. PointsTo[p] \subseteq Range(AllPieces(img)) /\ p \in Pieces
  BY ImageFacts, AddressTypes
<1>2. ASSUME NEW q \in PointsTo[p]
      PROVE  Pointer(AddressOf(img, q)) \in Cells
  <2>1. AddressOf(img, q) \in Nat
    BY <1>1, AddressTypes
  <2>2. \A x \in Nat : Pointer(x) \in Cells
    BY DEF Pointer, Cells, Kinds
  <2> QED
    BY <2>1, <2>2
<1>3. /\ Word("length") \in Cells /\ Word("class") \in Cells /\ Word("nul") \in Cells
      /\ Word("other") \in Cells /\ Word("P") \in Cells /\ Word("zero") \in Cells
      /\ Word("offset") \in Cells
  BY DEF Word, Null, Cells, Kinds
<1>4. CASE p = "name"
  <2>3. SizeOf[p] = 3
    BY <1>4 DEF SizeOf
  <2>4. PICK a, b, c : a = Word("length") /\ b = Word("class") /\ c = Word("nul")
    OBVIOUS
  <2>5. Content(img, p) = <<a, b, c>>
    BY <1>4, <2>4, ContentIs
  <2>6. {a, b, c} \subseteq Cells
    BY <1>3, <2>4
  <2> QED
    BY <2>3, <2>5, <2>6
<1>5. CASE p = "derivedName"
  <2>3. SizeOf[p] = 2
    BY <1>5 DEF SizeOf
  <2>4. PICK a, b : a = Word("other") /\ b = Word("nul")
    OBVIOUS
  <2>5. Content(img, p) = <<a, b>>
    BY <1>5, <2>4, ContentIs
  <2>6. {a, b} \subseteq Cells
    BY <1>3, <2>4
  <2> QED
    BY <2>3, <2>5, <2>6
<1>6. CASE p = "pointerName"
  <2>3. SizeOf[p] = 4
    BY <1>6 DEF SizeOf
  <2>4. PICK a, b, c, d : a = Word("P") /\ b = Word("length") /\ c = Word("class") /\ d = Word("nul")
    OBVIOUS
  <2>5. Content(img, p) = <<a, b, c, d>>
    BY <1>6, <2>4, ContentIs
  <2>6. {a, b, c, d} \subseteq Cells
    BY <1>3, <2>4
  <2> QED
    BY <2>3, <2>5, <2>6
<1>7. CASE p = "type"
  <2>1. "name" \in PointsTo[p]
    BY <1>7 DEF PointsTo
  <2>2. Pointer(AddressOf(img, "name")) \in Cells
    BY <1>2, <2>1
  <2>3. SizeOf[p] = 2
    BY <1>7 DEF SizeOf
  <2>4. PICK a, b : a = Word("other") /\ b = Pointer(AddressOf(img, "name"))
    OBVIOUS
  <2>5. Content(img, p) = <<a, b>>
    BY <1>7, <2>4, ContentIs
  <2>6. {a, b} \subseteq Cells
    BY <1>3, <2>2, <2>4
  <2> QED
    BY <2>3, <2>5, <2>6
<1>8. CASE p = "table"
  <2>1. "type" \in PointsTo[p]
    BY <1>8 DEF PointsTo
  <2>2. Pointer(AddressOf(img, "type")) \in Cells
    BY <1>2, <2>1
  <2>3. SizeOf[p] = 3
    BY <1>8 DEF SizeOf
  <2>4. PICK a, b, c : a = Word("zero") /\ b = Pointer(AddressOf(img, "type")) /\ c = Word("other")
    OBVIOUS
  <2>5. Content(img, p) = <<a, b, c>>
    BY <1>8, <2>4, ContentIs
  <2>6. {a, b, c} \subseteq Cells
    BY <1>3, <2>2, <2>4
  <2> QED
    BY <2>3, <2>5, <2>6
<1>9. CASE p = "secondTable"
  <2>1. "type" \in PointsTo[p]
    BY <1>9 DEF PointsTo
  <2>2. Pointer(AddressOf(img, "type")) \in Cells
    BY <1>2, <2>1
  <2>3. SizeOf[p] = 3
    BY <1>9 DEF SizeOf
  <2>4. PICK a, b, c : a = Word("offset") /\ b = Pointer(AddressOf(img, "type")) /\ c = Word("other")
    OBVIOUS
  <2>5. Content(img, p) = <<a, b, c>>
    BY <1>9, <2>4, ContentIs
  <2>6. {a, b, c} \subseteq Cells
    BY <1>3, <2>2, <2>4
  <2> QED
    BY <2>3, <2>5, <2>6
<1>10. CASE p = "derivedType"
  <2>1. "derivedName" \in PointsTo[p] /\ "type" \in PointsTo[p]
    BY <1>10 DEF PointsTo
  <2>2. /\ Pointer(AddressOf(img, "derivedName")) \in Cells
        /\ Pointer(AddressOf(img, "type")) \in Cells
    BY <1>2, <2>1
  <2>3. SizeOf[p] = 3
    BY <1>10 DEF SizeOf
  <2>4. PICK a, b, c : a = Word("other") /\ b = Pointer(AddressOf(img, "derivedName")) /\ c = Pointer(AddressOf(img, "type"))
    OBVIOUS
  <2>5. Content(img, p) = <<a, b, c>>
    BY <1>10, <2>4, ContentIs
  <2>6. {a, b, c} \subseteq Cells
    BY <1>3, <2>2, <2>4
  <2> QED
    BY <2>3, <2>5, <2>6
<1>11. CASE p = "pointerType"
  <2>1. "pointerName" \in PointsTo[p] /\ "type" \in PointsTo[p]
    BY <1>11 DEF PointsTo
  <2>2. /\ Pointer(AddressOf(img, "pointerName")) \in Cells
        /\ Pointer(AddressOf(img, "type")) \in Cells
    BY <1>2, <2>1
  <2>3. SizeOf[p] = 4
    BY <1>11 DEF SizeOf
  <2>4. PICK a, b, c, d : a = Word("other") /\ b = Pointer(AddressOf(img, "pointerName")) /\ c = Word("zero") /\ d = Pointer(AddressOf(img, "type"))
    OBVIOUS
  <2>5. Content(img, p) = <<a, b, c, d>>
    BY <1>11, <2>4, ContentIs
  <2>6. {a, b, c, d} \subseteq Cells
    BY <1>3, <2>2, <2>4
  <2> QED
    BY <2>3, <2>5, <2>6
<1>12. CASE p = "reference"
  <2>1. "type" \in PointsTo[p]
    BY <1>12 DEF PointsTo
  <2>2. Pointer(AddressOf(img, "type")) \in Cells
    BY <1>2, <2>1
  <2>3. SizeOf[p] = 2
    BY <1>12 DEF SizeOf
  <2>4. PICK a, b : a = Word("zero") /\ b = Pointer(AddressOf(img, "type"))
    OBVIOUS
  <2>5. Content(img, p) = <<a, b>>
    BY <1>12, <2>4, ContentIs
  <2>6. {a, b} \subseteq Cells
    BY <1>3, <2>2, <2>4
  <2> QED
    BY <2>3, <2>5, <2>6
<1>13. CASE p = "filler"
  <2>3. SizeOf[p] = 2
    BY <1>13 DEF SizeOf
  <2>4. PICK a : a = Word("other")
    OBVIOUS
  <2>5. Content(img, p) = <<a, a>>
    BY <1>13, <2>4, ContentIs
  <2>6. a \in Cells
    BY <1>3, <2>4
  <2> QED
    BY <2>3, <2>5, <2>6
<1> QED
  BY <1>1, <1>4, <1>5, <1>6, <1>7, <1>8, <1>9, <1>10, <1>11, <1>12, <1>13
  DEF Pieces, Names, Data, Further

\* The first n pieces are laid out in a text, and nothing else is.
LaidOut(img, text, n) ==
    LET all == AllPieces(img)
        W   == Words(all)
    IN  /\ text \in Seq(Cells) /\ Len(text) = W[n]
        /\ \A i \in 1..n : \A k \in 1..SizeOf[all[i]] :
              /\ W[i - 1] + k \in 1..W[n]
              /\ text[W[i - 1] + k] = Content(img, all[i])[k]
        /\ \A a \in 1..W[n] : \E i \in 1..n : \E k \in 1..SizeOf[all[i]] : a = W[i - 1] + k

LEMMA OnePieceMore ==
    ASSUME NEW img \in Images, NEW n \in 1..Len(AllPieces(img)),
           NEW text, LaidOut(img, text, n - 1)
    PROVE  LaidOut(img, text \o Content(img, AllPieces(img)[n]), n)
<1> DEFINE all == AllPieces(img)
           W == Words(all)
           c == Content(img, all[n])
           m == W[n - 1]
           z == SizeOf[all[n]]
           whole == text \o c
<1>1. all \in Seq(Pieces)
  BY ImageFacts
<1>2. all[n] \in Range(all) /\ all[n] \in Pieces /\ Len(all) \in Nat
  BY <1>1 DEF Range
<1>3. c \in Seq(Cells) /\ Len(c) = z /\ z \in Nat
  BY <1>2, ContentTypes, Sizes
<1>4. m \in Nat /\ W[n] = m + z
  <2>1. n - 1 \in 0..Len(all) /\ n \in 1..Len(all)
    BY <1>2
  <2> QED
    BY <1>1, <2>1, WordsAdd
<1>5. /\ text \in Seq(Cells) /\ Len(text) = m
      /\ \A i \in 1..(n - 1) : \A k \in 1..SizeOf[all[i]] :
            /\ W[i - 1] + k \in 1..m
            /\ text[W[i - 1] + k] = Content(img, all[i])[k]
      /\ \A a \in 1..m : \E i \in 1..(n - 1) : \E k \in 1..SizeOf[all[i]] : a = W[i - 1] + k
  BY DEF LaidOut
<1> HIDE DEF c, m, z
<1>6. /\ whole \in Seq(Cells) /\ Len(whole) = Len(text) + Len(c)
      /\ \A j \in 1..(Len(text) + Len(c)) :
            whole[j] = IF j <= Len(text) THEN text[j] ELSE c[j - Len(text)]
  BY <1>3, <1>5, ConcatProperties, Zenon
<1> HIDE DEF whole
<1>7. /\ Len(whole) = m + z
      /\ \A j \in 1..(m + z) : whole[j] = IF j <= m THEN text[j] ELSE c[j - m]
  BY <1>3, <1>5, <1>6
<1> HIDE DEF W, all
<1>8. ASSUME NEW i \in 1..n, NEW k \in 1..SizeOf[all[i]]
      PROVE  W[i - 1] + k \in 1..W[n] /\ whole[W[i - 1] + k] = Content(img, all[i])[k]
  <2>1. CASE i # n
    <3>1. i \in 1..(n - 1)
      BY <1>2, <2>1 DEF all
    <3>2. W[i - 1] + k \in 1..m /\ text[W[i - 1] + k] = Content(img, all[i])[k]
      BY <1>5, <3>1
    <3>3. \A j \in 1..m : j \in 1..(m + z) /\ j <= m
      BY <1>3, <1>4
    <3> QED
      BY <1>4, <1>7, <3>2, <3>3
  <2>2. CASE i = n
    <3>1. k \in 1..z /\ W[i - 1] = m
      BY <2>2 DEF z, m
    <3>2. m + k \in 1..(m + z) /\ ~(m + k <= m) /\ m + k - m = k
      BY <1>3, <1>4, <3>1
    <3>3. whole[m + k] = c[k]
      <4>1. PICK j \in 1..(m + z) : j = m + k
        BY <3>2
      <4>2. ~(j <= m) /\ j - m = k
        BY <1>4, <3>1, <3>2, <4>1
      <4>3. whole[j] = c[j - m]
        BY <1>7, <4>2
      <4> QED
        BY <4>1, <4>2, <4>3
    <3> QED
      BY <1>4, <2>2, <3>1, <3>2, <3>3 DEF c
  <2> QED
    BY <2>1, <2>2
<1>9. ASSUME NEW a \in 1..W[n]
      PROVE  \E i \in 1..n : \E k \in 1..SizeOf[all[i]] : a = W[i - 1] + k
  <2>1. CASE a <= m
    <3>1. a \in 1..m
      BY <1>4, <2>1
    <3>2. PICK i \in 1..(n - 1) : \E k \in 1..SizeOf[all[i]] : a = W[i - 1] + k
      BY <1>5, <3>1
    <3>3. i \in 1..n
      BY <1>2 DEF all
    <3> QED
      BY <3>2, <3>3
  <2>2. CASE ~(a <= m)
    <3>1. a - m \in 1..z /\ a = m + (a - m)
      BY <1>3, <1>4, <2>2
    <3>2. n \in 1..n
      BY <1>2 DEF all
    <3> QED
      BY <3>1, <3>2 DEF z, m
  <2> QED
    BY <2>1, <2>2
<1> QED
  BY <1>4, <1>6, <1>7, <1>8, <1>9 DEF LaidOut, whole, c, W, all

\* The memory of an image is its pieces, one behind the other.
LEMMA Layout ==
    ASSUME NEW img \in Images
    PROVE  LaidOut(img, MemoryOf(img), Len(AllPieces(img)))
<1> DEFINE all == AllPieces(img)
           N == Len(all)
           S == Seq(Cells)
           step == [n \in 1..N |-> [s \in S |-> s \o Content(img, all[n])]]
           IsText(g) == g = [n \in 0..N |-> IF n = 0 THEN <<>> ELSE g[n - 1] \o Content(img, all[n])]
           h == CHOOSE g : IsText(g)
<1>1. all \in Seq(Pieces) /\ N \in Nat
  <2>1. all \in Seq(Pieces)
    BY ImageFacts
  <2> QED
    BY <2>1
<1>2. <<>> \in S
  OBVIOUS
<1>3. \A n \in 1..N : Content(img, all[n]) \in S
  <2>1. \A n \in 1..N : all[n] \in Range(all)
    BY <1>1 DEF Range
  <2> QED
    BY <2>1, ContentTypes
<1> HIDE DEF all, N, S
<1>4. step \in [1..N -> [S -> S]]
  <2>1. \A n \in 1..N, s \in S : s \o Content(img, all[n]) \in S
    BY <1>3, ConcatProperties DEF S
  <2> QED
    BY <2>1
<1> HIDE DEF step
<1>5. PICK g : Stepping(g, S, <<>>, N, step)
  BY <1>1, <1>2, <1>4, Steps, Zenon
<1>6. IsText(g)
  <2>1. g \in [0..N -> S] /\ g[0] = <<>> /\ \A n \in 1..N : g[n] = step[n][g[n - 1]]
    BY <1>5 DEF Stepping
  <2>2. ASSUME NEW n \in 0..N, n # 0
        PROVE  g[n] = g[n - 1] \o Content(img, all[n])
    <3>1. n \in 1..N /\ n - 1 \in 0..N
      BY <1>1, <2>2
    <3>2. g[n - 1] \in S /\ g[n] = step[n][g[n - 1]]
      BY <2>1, <3>1
    <3>3. step[n] = [s \in S |-> s \o Content(img, all[n])]
      BY <3>1 DEF step
    <3> QED
      BY <3>2, <3>3
  <2>3. g = [n \in 0..N |-> g[n]]
    BY <2>1
  <2> QED
    BY <2>1, <2>2, <2>3
<1>7. IsText(h)
  BY <1>6
<1>8. MemoryOf(img) = h[N]
  BY DEF MemoryOf, all, N
<1> HIDE DEF h
<1>9. h[0] = <<>> /\ \A n \in 1..N : h[n] = h[n - 1] \o Content(img, all[n])
  <2>1. \A n \in 1..N : n \in 0..N /\ n # 0
    BY <1>1
  <2>2. 0 \in 0..N
    BY <1>1
  <2> QED
    BY <1>7, <2>1, <2>2
<1> DEFINE T == {n \in 0..N : LaidOut(img, h[n], n)}
<1>10. 0 \in T
  <2>1. Words(all)[0] = 0
    BY <1>1, WordsAdd
  <2>2. \A i \in 1..0 : FALSE
    OBVIOUS
  <2>3. h[0] \in Seq(Cells) /\ Len(h[0]) = 0
    BY <1>9
  <2>4. LaidOut(img, h[0], 0)
    BY <2>1, <2>2, <2>3 DEF LaidOut, all
  <2> QED
    BY <1>1, <2>4
<1>11. ASSUME NEW n \in 1..N, n - 1 \in T
       PROVE  n \in T
  <2>1. LaidOut(img, h[n - 1], n - 1) /\ n \in 0..N
    BY <1>1, <1>11
  <2>2. LaidOut(img, h[n - 1] \o Content(img, all[n]), n)
    BY <2>1, OnePieceMore DEF all, N
  <2> QED
    BY <1>9, <2>1, <2>2
<1> HIDE DEF T
<1>12. \A n \in 0..N : n \in T
  BY <1>1, <1>10, <1>11, NumbersUpTo
<1>13. N \in T
  BY <1>1, <1>12
<1>14. LaidOut(img, MemoryOf(img), N)
  BY <1>8, <1>13 DEF T
<1> QED
  BY <1>14 DEF N, all

\* The address of the k-th word of a piece.
At(img, p, k) == AddressOf(img, p) + (k - 1)

LEMMA WordAt ==
    ASSUME NEW img \in Images, NEW p \in Range(AllPieces(img)), NEW k \in 1..SizeOf[p]
    PROVE  /\ At(img, p, k) \in 1..Len(MemoryOf(img))
           /\ MemoryOf(img)[At(img, p, k)] = Content(img, p)[k]
<1> DEFINE all == AllPieces(img)
           W == Words(all)
           M == MemoryOf(img)
<1>1. all \in Seq(Pieces)
  BY ImageFacts
<1>2. PICK i \in 1..Len(all) : p = all[i]
  BY <1>1 DEF Range
<1>3. AddressOf(img, p) = 1 + W[i - 1]
  BY <1>2, Addresses
<1>4. LaidOut(img, M, Len(all))
  BY Layout
<1>5. Len(M) = W[Len(all)] /\ W[i - 1] + k \in 1..W[Len(all)] /\ M[W[i - 1] + k] = Content(img, p)[k]
  BY <1>2, <1>4 DEF LaidOut
<1>6. W[i - 1] \in Nat
  <2>1. i - 1 \in 0..Len(all)
    BY <1>1
  <2> QED
    BY <1>1, <2>1, WordsAdd
<1>7. At(img, p, k) = W[i - 1] + k
  <2>1. k \in Int
    <3>1. SizeOf[p] \in Nat
      BY <1>1, <1>2, Sizes
    <3> QED
      BY <3>1
  <2> HIDE DEF W
  <2> QED
    BY <1>3, <1>6, <2>1 DEF At
<1> QED
  BY <1>5, <1>7

LEMMA WordFrom ==
    ASSUME NEW img \in Images, NEW a \in 1..Len(MemoryOf(img))
    PROVE  \E p \in Range(AllPieces(img)) : \E k \in 1..SizeOf[p] :
              a = At(img, p, k) /\ MemoryOf(img)[a] = Content(img, p)[k]
<1> DEFINE all == AllPieces(img)
           W == Words(all)
           M == MemoryOf(img)
<1>1. all \in Seq(Pieces)
  BY ImageFacts
<1>2. LaidOut(img, M, Len(all))
  BY Layout
<1>3. PICK i \in 1..Len(all) : \E k \in 1..SizeOf[all[i]] : a = W[i - 1] + k
  BY <1>2 DEF LaidOut
<1>4. PICK k \in 1..SizeOf[all[i]] : a = W[i - 1] + k
  BY <1>3
<1>5. all[i] \in Range(all) /\ AddressOf(img, all[i]) = 1 + W[i - 1]
  BY <1>1, Addresses DEF Range
<1>6. W[i - 1] \in Nat
  <2>1. i - 1 \in 0..Len(all)
    BY <1>1
  <2> QED
    BY <1>1, <2>1, WordsAdd
<1>7. a = At(img, all[i], k)
  <2>1. k \in Int
    <3>1. SizeOf[all[i]] \in Nat
      BY <1>1, Sizes
    <3> QED
      BY <3>1
  <2> HIDE DEF W, all
  <2> QED
    BY <1>4, <1>5, <1>6, <2>1 DEF At
<1>8. M[a] = Content(img, all[i])[k]
  BY <1>5, <1>7, WordAt
<1> QED
  BY <1>5, <1>7, <1>8

\* Where the words are that the search looks for.
LEMMA LengthWords ==
    ASSUME NEW img, NEW p \in Pieces, NEW k \in 1..SizeOf[p],
           Content(img, p)[k].kind = "length"
    PROVE  (p = "name" /\ k = 1) \/ (p = "pointerName" /\ k = 2)
<1>1. \A kind : Word(kind).kind = kind
  BY DEF Word
<1>2. \A to : Pointer(to).kind = "pointer"
  BY DEF Pointer
<1>3. CASE p = "name"
  <2>1. k \in 1..3
    BY <1>3 DEF SizeOf
  <2>2. k = 1 \/ k = 2 \/ k = 3
    BY <2>1
  <2> QED
    BY <1>1, <1>2, <1>3, <2>2, ContentIs
<1>4. CASE p = "derivedName"
  <2>1. k \in 1..2
    BY <1>4 DEF SizeOf
  <2>2. k = 1 \/ k = 2
    BY <2>1
  <2> QED
    BY <1>1, <1>2, <1>4, <2>2, ContentIs
<1>5. CASE p = "pointerName"
  <2>1. k \in 1..4
    BY <1>5 DEF SizeOf
  <2>2. k = 1 \/ k = 2 \/ k = 3 \/ k = 4
    BY <2>1
  <2> QED
    BY <1>1, <1>2, <1>5, <2>2, ContentIs
<1>6. CASE p = "type"
  <2>1. k \in 1..2
    BY <1>6 DEF SizeOf
  <2>2. k = 1 \/ k = 2
    BY <2>1
  <2> QED
    BY <1>1, <1>2, <1>6, <2>2, ContentIs
<1>7. CASE p = "table"
  <2>1. k \in 1..3
    BY <1>7 DEF SizeOf
  <2>2. k = 1 \/ k = 2 \/ k = 3
    BY <2>1
  <2> QED
    BY <1>1, <1>2, <1>7, <2>2, ContentIs
<1>8. CASE p = "secondTable"
  <2>1. k \in 1..3
    BY <1>8 DEF SizeOf
  <2>2. k = 1 \/ k = 2 \/ k = 3
    BY <2>1
  <2> QED
    BY <1>1, <1>2, <1>8, <2>2, ContentIs
<1>9. CASE p = "derivedType"
  <2>1. k \in 1..3
    BY <1>9 DEF SizeOf
  <2>2. k = 1 \/ k = 2 \/ k = 3
    BY <2>1
  <2> QED
    BY <1>1, <1>2, <1>9, <2>2, ContentIs
<1>10. CASE p = "pointerType"
  <2>1. k \in 1..4
    BY <1>10 DEF SizeOf
  <2>2. k = 1 \/ k = 2 \/ k = 3 \/ k = 4
    BY <2>1
  <2> QED
    BY <1>1, <1>2, <1>10, <2>2, ContentIs
<1>11. CASE p = "reference"
  <2>1. k \in 1..2
    BY <1>11 DEF SizeOf
  <2>2. k = 1 \/ k = 2
    BY <2>1
  <2> QED
    BY <1>1, <1>2, <1>11, <2>2, ContentIs
<1>12. CASE p = "filler"
  <2>1. k \in 1..2
    BY <1>12 DEF SizeOf
  <2>2. k = 1 \/ k = 2
    BY <2>1
  <2> QED
    BY <1>1, <1>2, <1>12, <2>2, ContentIs
<1> QED
  BY <1>3, <1>4, <1>5, <1>6, <1>7, <1>8, <1>9, <1>10, <1>11, <1>12
  DEF Pieces, Names, Data, Further

LEMMA PointerWords ==
    ASSUME NEW img, NEW p \in Pieces, NEW k \in 1..SizeOf[p],
           Content(img, p)[k].kind = "pointer"
    PROVE  \/ /\ p = "type" /\ k = 2
              /\ Content(img, p)[k] = Pointer(AddressOf(img, "name"))
           \/ /\ p = "derivedType" /\ k = 2
              /\ Content(img, p)[k] = Pointer(AddressOf(img, "derivedName"))
           \/ /\ p = "pointerType" /\ k = 2
              /\ Content(img, p)[k] = Pointer(AddressOf(img, "pointerName"))
           \/ /\ \/ p \in {"table", "secondTable", "reference"} /\ k = 2
                 \/ p = "derivedType" /\ k = 3
                 \/ p = "pointerType" /\ k = 4
              /\ Content(img, p)[k] = Pointer(AddressOf(img, "type"))
<1>1. \A kind : Word(kind).kind = kind
  BY DEF Word
<1>3. CASE p = "name"
  <2>1. k \in 1..3
    BY <1>3 DEF SizeOf
  <2>2. k = 1 \/ k = 2 \/ k = 3
    BY <2>1
  <2> QED
    BY <1>1, <1>3, <2>2, ContentIs
<1>4. CASE p = "derivedName"
  <2>1. k \in 1..2
    BY <1>4 DEF SizeOf
  <2>2. k = 1 \/ k = 2
    BY <2>1
  <2> QED
    BY <1>1, <1>4, <2>2, ContentIs
<1>5. CASE p = "pointerName"
  <2>1. k \in 1..4
    BY <1>5 DEF SizeOf
  <2>2. k = 1 \/ k = 2 \/ k = 3 \/ k = 4
    BY <2>1
  <2> QED
    BY <1>1, <1>5, <2>2, ContentIs
<1>6. CASE p = "type"
  <2>1. k \in 1..2
    BY <1>6 DEF SizeOf
  <2>2. k = 1 \/ k = 2
    BY <2>1
  <2> QED
    BY <1>1, <1>6, <2>2, ContentIs
<1>7. CASE p = "table"
  <2>1. k \in 1..3
    BY <1>7 DEF SizeOf
  <2>2. k = 1 \/ k = 2 \/ k = 3
    BY <2>1
  <2> QED
    BY <1>1, <1>7, <2>2, ContentIs
<1>8. CASE p = "secondTable"
  <2>1. k \in 1..3
    BY <1>8 DEF SizeOf
  <2>2. k = 1 \/ k = 2 \/ k = 3
    BY <2>1
  <2> QED
    BY <1>1, <1>8, <2>2, ContentIs
<1>9. CASE p = "derivedType"
  <2>1. k \in 1..3
    BY <1>9 DEF SizeOf
  <2>2. k = 1 \/ k = 2 \/ k = 3
    BY <2>1
  <2> QED
    BY <1>1, <1>9, <2>2, ContentIs
<1>10. CASE p = "pointerType"
  <2>1. k \in 1..4
    BY <1>10 DEF SizeOf
  <2>2. k = 1 \/ k = 2 \/ k = 3 \/ k = 4
    BY <2>1
  <2> QED
    BY <1>1, <1>10, <2>2, ContentIs
<1>11. CASE p = "reference"
  <2>1. k \in 1..2
    BY <1>11 DEF SizeOf
  <2>2. k = 1 \/ k = 2
    BY <2>1
  <2> QED
    BY <1>1, <1>11, <2>2, ContentIs
<1>12. CASE p = "filler"
  <2>1. k \in 1..2
    BY <1>12 DEF SizeOf
  <2>2. k = 1 \/ k = 2
    BY <2>1
  <2> QED
    BY <1>1, <1>12, <2>2, ContentIs
<1> QED
  BY <1>3, <1>4, <1>5, <1>6, <1>7, <1>8, <1>9, <1>10, <1>11, <1>12
  DEF Pieces, Names, Data, Further

LEMMA PointersDiffer ==
    ASSUME NEW x, NEW y, Pointer(x) = Pointer(y)
    PROVE  x = y
<1>1. Pointer(x).to = x /\ Pointer(y).to = y
  BY DEF Pointer
<1> QED
  BY <1>1

\* Where an address starts the name of the class.
LEMMA NamePlaces ==
    ASSUME NEW img \in Images, NEW a \in 1..Len(MemoryOf(img)),
           MemoryOf(img)[a] = Word("length")
    PROVE  \/ "name" \in Range(AllPieces(img)) /\ a = At(img, "name", 1)
           \/ "pointerName" \in Range(AllPieces(img)) /\ a = At(img, "pointerName", 2)
<1>1. PICK p \in Range(AllPieces(img)) :
          \E k \in 1..SizeOf[p] : a = At(img, p, k) /\ MemoryOf(img)[a] = Content(img, p)[k]
  BY WordFrom
<1>2. PICK k \in 1..SizeOf[p] : a = At(img, p, k) /\ MemoryOf(img)[a] = Content(img, p)[k]
  BY <1>1
<1>3. Content(img, p)[k].kind = "length"
  BY <1>2 DEF Word
<1>4. p \in Pieces
  BY AddressTypes
<1>5. (p = "name" /\ k = 1) \/ (p = "pointerName" /\ k = 2)
  BY <1>3, <1>4, LengthWords
<1> QED
  BY <1>2, <1>5

\* Only the type_info points to the name.
LEMMA TypePlaces ==
    ASSUME NEW img \in Images, NEW a \in 1..Len(MemoryOf(img)),
           "name" \in Range(AllPieces(img)),
           MemoryOf(img)[a] = Pointer(AddressOf(img, "name"))
    PROVE  "type" \in Range(AllPieces(img)) /\ a = At(img, "type", 2)
<1> DEFINE all == AllPieces(img)
<1>1. PICK p \in Range(all) :
          \E k \in 1..SizeOf[p] : a = At(img, p, k) /\ MemoryOf(img)[a] = Content(img, p)[k]
  BY WordFrom
<1>2. PICK k \in 1..SizeOf[p] : a = At(img, p, k) /\ MemoryOf(img)[a] = Content(img, p)[k]
  BY <1>1
<1>3. Content(img, p)[k].kind = "pointer"
  BY <1>2 DEF Pointer
<1>4. p \in Pieces /\ PointsTo[p] \subseteq Range(all)
  BY AddressTypes, ImageFacts
<1> HIDE DEF all
<1>5. ASSUME NEW q \in {"derivedName", "pointerName", "type"}, q \in PointsTo[p],
             Content(img, p)[k] = Pointer(AddressOf(img, q))
      PROVE  FALSE
  <2>1. AddressOf(img, q) = AddressOf(img, "name")
    BY <1>2, <1>5, PointersDiffer
  <2>2. q \in Range(all)
    BY <1>4, <1>5
  <2>3. q = "name"
    BY <2>1, <2>2, AddressesDiffer DEF all
  <2> QED
    BY <1>5, <2>3
<1>6. p = "type" /\ k = 2
  <2>1. \/ p = "type" /\ k = 2
        \/ p = "derivedType" /\ Content(img, p)[k] = Pointer(AddressOf(img, "derivedName"))
        \/ p = "pointerType" /\ Content(img, p)[k] = Pointer(AddressOf(img, "pointerName"))
        \/ /\ p \in {"table", "secondTable", "derivedType", "pointerType", "reference"}
           /\ Content(img, p)[k] = Pointer(AddressOf(img, "type"))
    BY <1>3, <1>4, PointerWords
  <2>2. /\ "derivedName" \in PointsTo["derivedType"] /\ "pointerName" \in PointsTo["pointerType"]
        /\ \A x \in {"table", "secondTable", "derivedType", "pointerType", "reference"} : "type" \in PointsTo[x]
    BY DEF PointsTo
  <2> QED
    BY <1>5, <2>1, <2>2
<1> QED
  BY <1>2, <1>6 DEF all

\* Only the primary table, the type_info of a pointer and a reference behind the
\* sections look like a table.
LEMMA TablePlaces ==
    ASSUME NEW img \in Images, NEW a \in 1..Len(MemoryOf(img)),
           "type" \in Range(AllPieces(img)),
           MemoryOf(img)[a] = Pointer(AddressOf(img, "type")),
           MemoryOf(img)[a - 1] = Word("zero")
    PROVE  \/ "table" \in Range(AllPieces(img)) /\ a = At(img, "table", 2)
           \/ "pointerType" \in Range(AllPieces(img)) /\ a = At(img, "pointerType", 4)
           \/ "reference" \in Range(AllPieces(img)) /\ a = At(img, "reference", 2)
<1> DEFINE all == AllPieces(img)
           M == MemoryOf(img)
<1>1. PICK p \in Range(all) :
          \E k \in 1..SizeOf[p] : a = At(img, p, k) /\ M[a] = Content(img, p)[k]
  BY WordFrom
<1>2. PICK k \in 1..SizeOf[p] : a = At(img, p, k) /\ M[a] = Content(img, p)[k]
  BY <1>1
<1>3. Content(img, p)[k].kind = "pointer"
  BY <1>2 DEF Pointer
<1>4. p \in Pieces /\ PointsTo[p] \subseteq Range(all) /\ AddressOf(img, p) \in Nat
  BY AddressTypes, ImageFacts
<1>5. ASSUME NEW j \in 1..3, k = 1 + j
      PROVE  /\ j \in 1..SizeOf[p] /\ a - 1 = At(img, p, j)
             /\ M[a - 1] = Content(img, p)[j]
  <2>1. SizeOf[p] \in 2..4
    BY <1>4, Sizes
  <2>2. j \in 1..SizeOf[p]
    BY <1>5, <2>1
  <2>3. a - 1 = At(img, p, j)
    BY <1>2, <1>4, <1>5 DEF At
  <2> QED
    BY <2>2, <2>3, WordAt
<1> HIDE DEF all, M
<1>6. ASSUME NEW q \in {"name", "derivedName", "pointerName"}, q \in PointsTo[p],
             Content(img, p)[k] = Pointer(AddressOf(img, q))
      PROVE  FALSE
  <2>1. AddressOf(img, q) = AddressOf(img, "type")
    BY <1>2, <1>6, PointersDiffer DEF M
  <2>2. q \in Range(all)
    BY <1>4, <1>6
  <2>3. q = "type"
    BY <2>1, <2>2, AddressesDiffer DEF all
  <2> QED
    BY <1>6, <2>3
<1>7. \/ p \in {"table", "secondTable", "reference"} /\ k = 2
      \/ p = "derivedType" /\ k = 3
      \/ p = "pointerType" /\ k = 4
  <2>1. \/ p = "type" /\ Content(img, p)[k] = Pointer(AddressOf(img, "name"))
        \/ p = "derivedType" /\ Content(img, p)[k] = Pointer(AddressOf(img, "derivedName"))
        \/ p = "pointerType" /\ Content(img, p)[k] = Pointer(AddressOf(img, "pointerName"))
        \/ p \in {"table", "secondTable", "reference"} /\ k = 2
        \/ p = "derivedType" /\ k = 3
        \/ p = "pointerType" /\ k = 4
    BY <1>3, <1>4, PointerWords
  <2>2. /\ "derivedName" \in PointsTo["derivedType"] /\ "pointerName" \in PointsTo["pointerType"]
        /\ "name" \in PointsTo["type"]
    BY DEF PointsTo
  <2> QED
    BY <1>6, <2>1, <2>2
<1>8. M[a - 1] = Word("zero")
  BY DEF M
<1>9. ~(p = "secondTable" /\ k = 2)
  <2> SUFFICES ASSUME p = "secondTable", k = 2
               PROVE  FALSE
    OBVIOUS
  <2>1. M[a - 1] = Content(img, "secondTable")[1]
    BY <1>5
  <2>2. Content(img, "secondTable")[1] = Word("offset")
    BY ContentIs
  <2>3. Word("offset").kind = "offset" /\ Word("zero").kind = "zero"
    BY DEF Word
  <2> QED
    BY <1>8, <2>1, <2>2, <2>3
<1>10. ~(p = "derivedType" /\ k = 3)
  <2> SUFFICES ASSUME p = "derivedType", k = 3
               PROVE  FALSE
    OBVIOUS
  <2>1. M[a - 1] = Content(img, "derivedType")[2]
    BY <1>5
  <2>2. Content(img, "derivedType")[2] = Pointer(AddressOf(img, "derivedName"))
    BY ContentIs
  <2>3. Pointer(AddressOf(img, "derivedName")).kind = "pointer" /\ Word("zero").kind = "zero"
    BY DEF Word, Pointer
  <2> QED
    BY <1>8, <2>1, <2>2, <2>3
<1> QED
  BY <1>2, <1>7, <1>9, <1>10 DEF all

\* The words of the class's own pieces.
LEMMA ClassWords ==
    ASSUME NEW img \in Images
    PROVE  LET all == AllPieces(img)
               M   == MemoryOf(img)
           IN  /\ "name" \in Range(all) =>
                     /\ At(img, "name", 1) = AddressOf(img, "name")
                     /\ \A k \in 1..3 : At(img, "name", k) \in 1..Len(M)
                     /\ M[At(img, "name", 1)] = Word("length")
                     /\ M[At(img, "name", 2)] = Word("class")
                     /\ M[At(img, "name", 3)] = Word("nul")
               /\ "type" \in Range(all) =>
                     /\ "name" \in Range(all)
                     /\ At(img, "type", 2) \in 1..Len(M)
                     /\ At(img, "type", 2) - 1 = AddressOf(img, "type")
                     /\ M[At(img, "type", 2)] = Pointer(AddressOf(img, "name"))
               /\ "table" \in Range(all) =>
                     /\ At(img, "table", 2) \in 1..Len(M)
                     /\ At(img, "table", 2) + 1 = AddressOf(img, "table") + 2
                     /\ M[At(img, "table", 2)] = Pointer(AddressOf(img, "type"))
                     /\ M[At(img, "table", 2) - 1] = Word("zero")
<1> DEFINE all == AllPieces(img)
           M == MemoryOf(img)
<1>1. ASSUME NEW p \in Range(all)
      PROVE  AddressOf(img, p) \in Nat /\ PointsTo[p] \subseteq Range(all)
  BY AddressTypes, ImageFacts
<1>2. ASSUME "name" \in Range(all)
      PROVE  /\ At(img, "name", 1) = AddressOf(img, "name")
             /\ \A k \in 1..3 : At(img, "name", k) \in 1..Len(M)
             /\ M[At(img, "name", 1)] = Word("length")
             /\ M[At(img, "name", 2)] = Word("class")
             /\ M[At(img, "name", 3)] = Word("nul")
  <2>1. At(img, "name", 1) = AddressOf(img, "name")
    BY <1>1, <1>2 DEF At
  <2>2. SizeOf["name"] = 3
    BY DEF SizeOf
  <2>3. \A k \in 1..3 : At(img, "name", k) \in 1..Len(M) /\ M[At(img, "name", k)] = Content(img, "name")[k]
    BY <1>2, <2>2, WordAt
  <2>4. Content(img, "name") = <<Word("length"), Word("class"), Word("nul")>>
    BY ContentIs
  <2>5. Content(img, "name")[1] = Word("length") /\ Content(img, "name")[2] = Word("class")
        /\ Content(img, "name")[3] = Word("nul")
    BY <2>4
  <2> QED
    BY <2>1, <2>3, <2>5
<1>3. ASSUME "type" \in Range(all)
      PROVE  /\ "name" \in Range(all)
             /\ At(img, "type", 2) \in 1..Len(M)
             /\ At(img, "type", 2) - 1 = AddressOf(img, "type")
             /\ M[At(img, "type", 2)] = Pointer(AddressOf(img, "name"))
  <2>1. At(img, "type", 2) - 1 = AddressOf(img, "type")
    BY <1>1, <1>3 DEF At
  <2>2. SizeOf["type"] = 2 /\ "name" \in PointsTo["type"]
    BY DEF SizeOf, PointsTo
  <2>3. At(img, "type", 2) \in 1..Len(M) /\ M[At(img, "type", 2)] = Content(img, "type")[2]
    BY <1>3, <2>2, WordAt
  <2>4. Content(img, "type") = <<Word("other"), Pointer(AddressOf(img, "name"))>>
    BY ContentIs
  <2>5. Content(img, "type")[2] = Pointer(AddressOf(img, "name"))
    BY <2>4
  <2> QED
    BY <1>1, <1>3, <2>1, <2>2, <2>3, <2>5
<1>4. ASSUME "table" \in Range(all)
      PROVE  /\ At(img, "table", 2) \in 1..Len(M)
             /\ At(img, "table", 2) + 1 = AddressOf(img, "table") + 2
             /\ M[At(img, "table", 2)] = Pointer(AddressOf(img, "type"))
             /\ M[At(img, "table", 2) - 1] = Word("zero")
  <2>1. At(img, "table", 2) + 1 = AddressOf(img, "table") + 2 /\ At(img, "table", 2) - 1 = At(img, "table", 1)
    BY <1>1, <1>4 DEF At
  <2>2. SizeOf["table"] = 3
    BY DEF SizeOf
  <2>3. \A k \in 1..3 : At(img, "table", k) \in 1..Len(M) /\ M[At(img, "table", k)] = Content(img, "table")[k]
    BY <1>4, <2>2, WordAt
  <2>4. Content(img, "table") = <<Word("zero"), Pointer(AddressOf(img, "type")), Word("other")>>
    BY ContentIs
  <2>5. Content(img, "table")[1] = Word("zero") /\ Content(img, "table")[2] = Pointer(AddressOf(img, "type"))
    BY <2>4
  <2> QED
    BY <2>1, <2>3, <2>5
<1> QED
  BY <1>2, <1>3, <1>4

\* The words from the address behind the first b pieces to the last of the first
\* e pieces are those of the pieces between.
LEMMA Block ==
    ASSUME NEW img \in Images, NEW b \in 0..Len(AllPieces(img)), NEW e \in 0..Len(AllPieces(img)),
           NEW i \in 1..Len(AllPieces(img)), NEW k \in 1..SizeOf[AllPieces(img)[i]]
    PROVE  LET all == AllPieces(img)
               W   == Words(all)
           IN  At(img, all[i], k) \in (1 + W[b])..W[e] <=> i \in (b + 1)..e
<1> DEFINE all == AllPieces(img)
           W == Words(all)
           N == Len(all)
           a == At(img, all[i], k)
           z == SizeOf[all[i]]
<1>1. all \in Seq(Pieces)
  BY ImageFacts
<1>2. W \in [0..N -> Nat] /\ N \in Nat /\ W[i] = W[i - 1] + z
  BY <1>1, WordsAdd
<1>3. z \in 2..4
  <2>1. all[i] \in Pieces
    BY <1>1
  <2> QED
    BY <2>1, Sizes
<1>4. a = 1 + W[i - 1] + (k - 1)
  BY Addresses DEF At
<1>5. i - 1 \in 0..N /\ i \in 0..N
  BY <1>2
<1>6. ASSUME NEW m \in 0..N, NEW n \in 0..N, m <= n
      PROVE  W[m] <= W[n]
  BY <1>1, <1>6, WordsRise
<1> HIDE DEF all, W, N
<1>7. W[b] \in Nat /\ W[e] \in Nat /\ W[i - 1] \in Nat /\ W[i] \in Nat
  BY <1>2, <1>5 DEF N, all
<1>8. b \in 0..N /\ e \in 0..N /\ i \in 1..N /\ k \in 1..z
  BY DEF N, all, z
<1> HIDE DEF z, a
<1>9. a \in Nat /\ W[i - 1] < a /\ a <= W[i]
  <2>1. \A u, v \in Nat : \A n \in 2..4 : \A m \in 1..n :
            v = u + n => 1 + u + (m - 1) \in Nat /\ u < 1 + u + (m - 1) /\ 1 + u + (m - 1) <= v
    OBVIOUS
  <2> QED
    BY <1>2, <1>3, <1>4, <1>7, <1>8, <2>1, Zenon
<1>10. ASSUME i <= b
       PROVE  a \in (1 + W[b])..W[e] <=> i \in (b + 1)..e
  <2>1. W[i] <= W[b]
    BY <1>5, <1>6, <1>8, <1>10
  <2> QED
    BY <1>7, <1>8, <1>9, <1>10, <2>1
<1>11. ASSUME e < i
       PROVE  a \in (1 + W[b])..W[e] <=> i \in (b + 1)..e
  <2>1. W[e] <= W[i - 1]
    <3>1. e <= i - 1
      BY <1>2, <1>8, <1>11
    <3> QED
      BY <1>5, <1>6, <1>8, <3>1
  <2> QED
    BY <1>7, <1>8, <1>9, <1>11, <2>1
<1>12. ASSUME b < i, i <= e
       PROVE  a \in (1 + W[b])..W[e] <=> i \in (b + 1)..e
  <2>1. W[b] <= W[i - 1]
    <3>1. b <= i - 1
      BY <1>2, <1>8, <1>12
    <3> QED
      BY <1>5, <1>6, <1>8, <3>1
  <2>2. W[i] <= W[e]
    BY <1>5, <1>6, <1>8, <1>12
  <2> QED
    BY <1>7, <1>8, <1>9, <1>12, <2>1, <2>2
<1>13. (i <= b \/ e < i \/ (b < i /\ i <= e))
  BY <1>2, <1>8
<1>14. a \in (1 + W[b])..W[e] <=> i \in (b + 1)..e
  BY <1>10, <1>11, <1>12, <1>13
<1> QED
  BY <1>14 DEF W, all, a

\* A piece that does not come before another begins behind it.
LEMMA Later ==
    ASSUME NEW img \in Images, NEW p, NEW q \in Range(AllPieces(img)), p # q,
           NotBefore(AllPieces(img), q, p)
    PROVE  /\ p \in Range(AllPieces(img))
           /\ \A k \in 1..SizeOf[p], j \in 1..SizeOf[q] : At(img, p, k) < At(img, q, j)
<1> DEFINE all == AllPieces(img)
           W == Words(all)
           N == Len(all)
<1>1. all \in Seq(Pieces) /\ N \in Nat
  <2>1. all \in Seq(Pieces)
    BY ImageFacts
  <2> QED
    BY <2>1
<1>2. DOMAIN all = 1..N
  BY <1>1
<1>3. PICK i \in 1..N : all[i] = p /\ q \notin Range(SubSeq(all, 1, i))
  BY <1>2 DEF NotBefore
<1>4. PICK n \in 1..N : q = all[n]
  BY <1>2 DEF Range
<1>5. i < n
  <2> SUFFICES ASSUME n <= i
               PROVE  FALSE
    BY <1>3, <1>4
  <2>1. i \in 0..Len(all) /\ n \in 1..i
    BY <1>1
  <2>2. DOMAIN SubSeq(all, 1, i) = 1..i /\ SubSeq(all, 1, i)[n] = all[n]
    BY <1>1, <2>1, FirstElements
  <2>3. q \in Range(SubSeq(all, 1, i))
    BY <1>4, <2>1, <2>2 DEF Range
  <2> QED
    BY <1>3, <2>3
<1>6. /\ AddressOf(img, p) = 1 + W[i - 1] /\ AddressOf(img, q) = 1 + W[n - 1]
      /\ W[i] = W[i - 1] + SizeOf[p] /\ SizeOf[p] \in Nat
  <2>1. all[i] \in Pieces
    BY <1>1
  <2>2. SizeOf[p] \in Nat
    BY <1>3, <2>1, Sizes
  <2> QED
    BY <1>1, <1>3, <1>4, <2>2, Addresses, WordsAdd
<1>7. i \in 0..N /\ i - 1 \in 0..N /\ n - 1 \in 0..N /\ i <= n - 1
  BY <1>1, <1>5
<1>8. W[i] <= W[n - 1]
  BY <1>1, <1>7, WordsRise
<1>9. W[i - 1] \in Nat /\ W[i] \in Nat /\ W[n - 1] \in Nat
  BY <1>1, <1>7, WordsAdd
<1>10. p \in Range(all)
  BY <1>2, <1>3 DEF Range
<1>11. SizeOf[q] \in Nat
  <2>1. all[n] \in Pieces
    BY <1>1
  <2> QED
    BY <1>4, <2>1, Sizes
<1> HIDE DEF all, W, N
<1>12. ASSUME NEW k \in 1..SizeOf[p], NEW j \in 1..SizeOf[q]
       PROVE  At(img, p, k) < At(img, q, j)
  BY <1>6, <1>8, <1>9, <1>11 DEF At
<1> QED
  BY <1>10, <1>12 DEF all

-----------------------------------------------------------------------------
(* The sections *)

Sections == {"rodata", "relro", "local"}

LEMMA Bounds ==
    ASSUME image \in Images
    PROVE  LET all == AllPieces(image)
               W   == Words(all)
               N   == Len(all)
           IN  /\ PiecesBefore("rodata") = 0
               /\ PiecesBefore("relro") = Len(image.rodata)
               /\ PiecesBefore("local") = Len(image.rodata) + Len(image.relro)
               /\ N \in Nat /\ W \in [0..N -> Nat] /\ W[0] = 0 /\ Len(Memory) = W[N]
               /\ \A s \in Sections :
                     /\ Len(image[s]) \in Nat
                     /\ PiecesBefore(s) \in 0..N
                     /\ PiecesBefore(s) + Len(image[s]) \in 0..N
                     /\ \A i \in 1..Len(image[s]) : all[PiecesBefore(s) + i] = image[s][i]
                     /\ DOMAIN image[s] = 1..Len(image[s])
<1> DEFINE all == AllPieces(image)
           W == Words(all)
           N == Len(all)
           r == Len(image.rodata)
           l == Len(image.relro)
           o == Len(image.local)
           f == Len(image.rest)
<1>1. /\ image \in ImageTypes
      /\ all \in Seq(Pieces) /\ N = r + l + o + f /\ r \in Nat /\ l \in Nat /\ o \in Nat /\ f \in Nat
      /\ \A i \in 1..r : all[i] = image.rodata[i]
      /\ \A i \in 1..l : all[r + i] = image.relro[i]
      /\ \A i \in 1..o : all[r + l + i] = image.local[i]
  BY ImageFacts
<1>2. N \in Nat /\ W \in [0..N -> Nat] /\ W[0] = 0
  <2>1. all \in Seq(Pieces)
    BY <1>1
  <2>2. W \in [0..N -> Nat] /\ W[0] = 0
    BY <2>1, WordsAdd
  <2>3. N \in Nat
    BY <2>1
  <2> QED
    BY <2>2, <2>3
<1>3. Len(Memory) = W[N]
  <2>1. LaidOut(image, MemoryOf(image), Len(all))
    BY Layout
  <2> QED
    BY <2>1 DEF LaidOut, Memory
<1>4. /\ PiecesBefore("rodata") = 0 /\ PiecesBefore("relro") = r /\ PiecesBefore("local") = r + l
  BY DEF PiecesBefore
<1>5. /\ DOMAIN image.rodata = 1..r /\ DOMAIN image.relro = 1..l /\ DOMAIN image.local = 1..o
  BY <1>1 DEF ImageTypes
<1> HIDE DEF all, W
<1>6. /\ image["rodata"] = image.rodata /\ image["relro"] = image.relro /\ image["local"] = image.local
  OBVIOUS
<1>7. ASSUME NEW i \in 1..r
      PROVE  all[0 + i] = image.rodata[i]
  <2>1. 0 + i = i
    BY <1>1
  <2> QED
    BY <1>1, <2>1
<1> HIDE DEF r, l, o, f, N
<1>8. ASSUME NEW s \in Sections
      PROVE  /\ Len(image[s]) \in Nat
             /\ PiecesBefore(s) \in 0..N
             /\ PiecesBefore(s) + Len(image[s]) \in 0..N
             /\ \A i \in 1..Len(image[s]) : all[PiecesBefore(s) + i] = image[s][i]
             /\ DOMAIN image[s] = 1..Len(image[s])
  <2>1. CASE s = "rodata"
    <3>1. Len(image[s]) = r /\ PiecesBefore(s) = 0 /\ image[s] = image.rodata
      BY <1>4, <2>1 DEF r
    <3>2. 0 \in 0..N /\ 0 + r \in 0..N
      BY <1>1
    <3> QED
      BY <1>1, <1>5, <1>7, <3>1, <3>2
  <2>2. CASE s = "relro"
    <3>1. Len(image[s]) = l /\ PiecesBefore(s) = r /\ image[s] = image.relro
      BY <1>4, <2>2 DEF l
    <3>2. r \in 0..N /\ r + l \in 0..N
      BY <1>1
    <3> QED
      BY <1>1, <1>5, <3>1, <3>2
  <2>3. CASE s = "local"
    <3>1. Len(image[s]) = o /\ PiecesBefore(s) = r + l /\ image[s] = image.local
      BY <1>4, <2>3 DEF o
    <3>2. r + l \in 0..N /\ r + l + o \in 0..N
      BY <1>1
    <3> QED
      BY <1>1, <1>5, <3>1, <3>2
  <2> QED
    BY <2>1, <2>2, <2>3 DEF Sections
<1> QED
  BY <1>2, <1>3, <1>4, <1>8 DEF N, r, l, o, all, W

\* A section begins in the image or behind it, and ends there.
LEMMA SectionTypes ==
    ASSUME image \in Images, NEW s \in Sections
    PROVE  /\ Len(Memory) \in Nat
           /\ Base(s) \in 1..(Len(Memory) + 1)
           /\ Size(s) \in Nat
           /\ Base(s) + Size(s) <= Len(Memory) + 1
           /\ Base("rodata") = 1
<1> DEFINE all == AllPieces(image)
           W == Words(all)
           N == Len(all)
           b == PiecesBefore(s)
           e == b + Len(image[s])
<1>1. /\ N \in Nat /\ W \in [0..N -> Nat] /\ W[0] = 0 /\ Len(Memory) = W[N]
      /\ b \in 0..N /\ Len(image[s]) \in Nat /\ e \in 0..N /\ PiecesBefore("rodata") = 0
  BY Bounds
<1>2. all \in Seq(Pieces)
  BY ImageFacts
<1>3. Base(s) = 1 + W[b] /\ Size(s) = W[e] - W[b] /\ Base("rodata") = 1 + W[0]
  BY <1>1 DEF Base, Size
<1>4. b <= e /\ e <= N /\ N \in 0..N
  BY <1>1
<1>5. W[b] <= W[e]
  BY <1>1, <1>2, <1>4, WordsRise
<1>6. W[e] <= W[N]
  BY <1>1, <1>2, <1>4, WordsRise
<1>7. W[b] \in Nat /\ W[e] \in Nat /\ W[N] \in Nat
  BY <1>1, <1>4
<1> HIDE DEF all, W, N, b, e
<1> QED
  BY <1>1, <1>3, <1>5, <1>6, <1>7

\* The words of a section are those of its pieces.
LEMMA SectionWords ==
    ASSUME image \in Images, NEW s \in Sections,
           NEW p \in Range(AllPieces(image)), NEW k \in 1..SizeOf[p]
    PROVE  At(image, p, k) \in Base(s)..(Base(s) + Size(s) - 1) <=> p \in Range(image[s])
<1> DEFINE all == AllPieces(image)
           W == Words(all)
           N == Len(all)
           b == PiecesBefore(s)
           e == b + Len(image[s])
<1>1. /\ N \in Nat /\ W \in [0..N -> Nat]
      /\ b \in 0..N /\ Len(image[s]) \in Nat /\ e \in 0..N
      /\ \A i \in 1..Len(image[s]) : all[b + i] = image[s][i]
      /\ DOMAIN image[s] = 1..Len(image[s])
  BY Bounds
<1>2. all \in Seq(Pieces) /\ \A i, j \in 1..N : all[i] = all[j] => i = j
  BY ImageFacts
<1>3. PICK i \in 1..N : p = all[i]
  BY <1>2 DEF Range
<1>4. At(image, p, k) \in (1 + W[b])..W[e] <=> i \in (b + 1)..e
  BY <1>1, <1>3, Block
<1>5. Base(s) = 1 + W[b] /\ Base(s) + Size(s) - 1 = W[e]
  <2>1. Base(s) = 1 + W[b] /\ Size(s) = W[e] - W[b]
    BY DEF Base, Size
  <2>2. W[b] \in Nat /\ W[e] \in Nat
    BY <1>1
  <2> HIDE DEF W, b, e
  <2> QED
    BY <2>1, <2>2
<1> HIDE DEF all, W, N, b
<1>6. i \in (b + 1)..e <=> p \in Range(image[s])
  <2>1. ASSUME i \in (b + 1)..e
        PROVE  p \in Range(image[s])
    <3>1. i - b \in 1..Len(image[s]) /\ b + (i - b) = i
      <4>1. \A n, l \in Nat : \A m \in (n + 1)..(n + l) : m - n \in 1..l /\ n + (m - n) = m
        OBVIOUS
      <4>2. i \in (b + 1)..(b + Len(image[s])) /\ b \in Nat /\ Len(image[s]) \in Nat
        BY <1>1, <2>1
      <4> QED
        BY <4>1, <4>2, Zenon
    <3>2. all[b + (i - b)] = image[s][i - b]
      BY <1>1, <3>1
    <3>3. p = image[s][i - b]
      BY <1>3, <3>1, <3>2
    <3> QED
      BY <1>1, <3>1, <3>3 DEF Range
  <2>2. ASSUME p \in Range(image[s])
        PROVE  i \in (b + 1)..e
    <3>1. PICK j \in 1..Len(image[s]) : p = image[s][j]
      BY <1>1, <2>2 DEF Range
    <3>2. b + j \in 1..N /\ b + j \in (b + 1)..e
      BY <1>1
    <3>3. all[b + j] = all[i]
      BY <1>1, <1>3, <3>1
    <3>4. b + j = i
      BY <1>2, <3>2, <3>3
    <3> QED
      BY <3>2, <3>4
  <2> QED
    BY <2>1, <2>2
<1> QED
  BY <1>4, <1>5, <1>6

\* The sections of data follow each other.
LEMMA SectionOrder ==
    ASSUME image \in Images
    PROVE  Base("relro") <= Base("local")
<1> DEFINE all == AllPieces(image)
           W == Words(all)
           r == PiecesBefore("relro")
           l == PiecesBefore("local")
<1>1. /\ Len(all) \in Nat /\ r \in 0..Len(all) /\ l \in 0..Len(all) /\ W \in [0..Len(all) -> Nat]
      /\ r = Len(image.rodata) /\ l = Len(image.rodata) + Len(image.relro)
      /\ Len(image["relro"]) \in Nat
  BY Bounds DEF Sections
<1>2. all \in Seq(Pieces)
  BY ImageFacts
<1>3. r <= l
  <2> HIDE DEF r, l, all
  <2> QED
    BY <1>1
<1>4. W[r] <= W[l]
  BY <1>1, <1>2, <1>3, WordsRise
<1>5. Base("relro") = 1 + W[r] /\ Base("local") = 1 + W[l] /\ W[r] \in Nat /\ W[l] \in Nat
  BY <1>1 DEF Base
<1> HIDE DEF W, r, l
<1> QED
  BY <1>4, <1>5

\* A piece of data is in one of the two sections of data, a name in the other.
LEMMA SectionsOfPieces ==
    ASSUME image \in Images
    PROVE  /\ \A s \in Sections : Range(image[s]) \subseteq Range(AllPieces(image))
           /\ \A p \in Range(AllPieces(image)) \cap Data :
                 p \in Range(image["relro"]) \/ p \in Range(image["local"])
           /\ "name" \in Range(AllPieces(image)) => "name" \in Range(image["rodata"])
<1> DEFINE all == AllPieces(image)
           r == Len(image.rodata)
           l == Len(image.relro)
           o == Len(image.local)
           f == Len(image.rest)
<1>1. /\ image \in ImageTypes
      /\ all \in Seq(Pieces) /\ Len(all) = r + l + o + f
      /\ r \in Nat /\ l \in Nat /\ o \in Nat /\ f \in Nat
      /\ \A i \in 1..r : all[i] = image.rodata[i]
      /\ \A i \in 1..l : all[r + i] = image.relro[i]
      /\ \A i \in 1..o : all[r + l + i] = image.local[i]
      /\ \A i \in 1..f : all[r + l + o + i] = image.rest[i]
  BY ImageFacts
<1>2. /\ image["rodata"] = image.rodata /\ image["relro"] = image.relro /\ image["local"] = image.local
  OBVIOUS
<1>3. /\ DOMAIN image.rodata = 1..r /\ DOMAIN image.relro = 1..l /\ DOMAIN image.local = 1..o
      /\ DOMAIN image.rest = 1..f /\ DOMAIN all = 1..(r + l + o + f)
  BY <1>1 DEF ImageTypes
<1>4. Range(image.rodata) \subseteq Names /\ Range(image.relro) \subseteq Data
      /\ Range(image.local) \subseteq Data /\ Range(image.rest) \subseteq Further
  <2>1. /\ image.rodata \in Seq(Names) /\ image.relro \in Seq(Data)
        /\ image.local \in Seq(Data) /\ image.rest \in Seq(Further)
    BY <1>1 DEF ImageTypes
  <2> QED
    BY <2>1 DEF Range
<1> HIDE DEF r, l, o, f, all
<1>5. ASSUME NEW p \in Range(all)
      PROVE  \/ p \in Range(image.rodata) \/ p \in Range(image.relro)
             \/ p \in Range(image.local) \/ p \in Range(image.rest)
  <2>1. PICK i \in 1..(r + l + o + f) : p = all[i]
    BY <1>3 DEF Range
  <2>2. CASE i <= r
    <3>1. i \in 1..r
      BY <1>1, <2>2
    <3> QED
      BY <1>1, <1>3, <2>1, <3>1 DEF Range
  <2>3. CASE r < i /\ i <= r + l
    <3>1. PICK j \in 1..l : i = r + j
      <4>1. i - r \in 1..l /\ i = r + (i - r)
        BY <1>1, <2>3
      <4> QED
        BY <4>1
    <3> QED
      BY <1>1, <1>3, <2>1, <3>1 DEF Range
  <2>4. CASE r + l < i /\ i <= r + l + o
    <3>1. PICK j \in 1..o : i = r + l + j
      <4>1. i - (r + l) \in 1..o /\ i = r + l + (i - (r + l))
        BY <1>1, <2>4
      <4> QED
        BY <4>1
    <3> QED
      BY <1>1, <1>3, <2>1, <3>1 DEF Range
  <2>5. CASE r + l + o < i
    <3>1. PICK j \in 1..f : i = r + l + o + j
      <4>1. i - (r + l + o) \in 1..f /\ i = r + l + o + (i - (r + l + o))
        BY <1>1, <2>5
      <4> QED
        BY <4>1
    <3> QED
      BY <1>1, <1>3, <2>1, <3>1 DEF Range
  <2> QED
    BY <1>1, <2>2, <2>3, <2>4, <2>5
<1>6. /\ Range(image.rodata) \subseteq Range(all) /\ Range(image.relro) \subseteq Range(all)
      /\ Range(image.local) \subseteq Range(all)
  <2>1. ASSUME NEW p \in Range(image.rodata)
        PROVE  p \in Range(all)
    <3>1. PICK i \in 1..r : p = image.rodata[i]
      BY <1>3 DEF Range
    <3>2. i \in 1..(r + l + o + f) /\ p = all[i]
      BY <1>1, <3>1
    <3> QED
      BY <1>3, <3>2 DEF Range
  <2>2. ASSUME NEW p \in Range(image.relro)
        PROVE  p \in Range(all)
    <3>1. PICK i \in 1..l : p = image.relro[i]
      BY <1>3 DEF Range
    <3>2. r + i \in 1..(r + l + o + f) /\ p = all[r + i]
      BY <1>1, <3>1
    <3> QED
      BY <1>3, <3>2 DEF Range
  <2>3. ASSUME NEW p \in Range(image.local)
        PROVE  p \in Range(all)
    <3>1. PICK i \in 1..o : p = image.local[i]
      BY <1>3 DEF Range
    <3>2. r + l + i \in 1..(r + l + o + f) /\ p = all[r + l + i]
      BY <1>1, <3>1
    <3> QED
      BY <1>3, <3>2 DEF Range
  <2> QED
    BY <2>1, <2>2, <2>3
<1>7. /\ Names \cap Data = {} /\ Further \cap Data = {} /\ Further \cap Names = {}
      /\ "name" \in Names
  BY DEF Names, Data, Further
<1> QED
  BY <1>2, <1>4, <1>5, <1>6, <1>7 DEF Sections, all

-----------------------------------------------------------------------------
(* The scan *)

\* The scan finds the first match in its window, or there is none.
LEMMA FirstMatch ==
    ASSUME NEW section, NEW signature, cursor \in Nat, cursor # 0, Size(section) \in Nat
    PROVE  LET a == FindNext(section, signature)
           IN  \/ /\ a = Null
                  /\ \A n \in Window(section) : ~Matches(n, signature)
               \/ /\ a # Null /\ a \in Window(section) /\ Matches(a, signature)
                  /\ \A n \in Window(section) : Matches(n, signature) => a <= n
<1> DEFINE hits == {n \in Window(section) : Matches(n, signature)}
<1>1. \A n \in Window(section) : n \in Nat /\ n # Null
  BY DEF Window, Null
<1>2. FindNext(section, signature) =
          IF hits = {} THEN Null ELSE CHOOSE n \in hits : \A m \in hits : n <= m
  BY DEF FindNext
<1>3. hits \subseteq Nat
  BY <1>1
<1>4. CASE hits = {}
  <2>1. FindNext(section, signature) = Null
    BY <1>2, <1>4
  <2>2. \A n \in Window(section) : ~Matches(n, signature)
    BY <1>4
  <2> QED
    BY <2>1, <2>2
<1>5. CASE hits # {}
  <2> DEFINE a == CHOOSE n \in hits : \A m \in hits : n <= m
  <2>1. \E n \in hits : \A m \in hits : n <= m
    <3> HIDE DEF hits
    <3> QED
      BY <1>3, <1>5, LeastNumber
  <2>2. a \in hits /\ \A m \in hits : a <= m
    BY <2>1
  <2>3. FindNext(section, signature) = a
    BY <1>2, <1>5
  <2> HIDE DEF a
  <2> QED
    BY <1>1, <2>2, <2>3
<1> QED
  BY <1>4, <1>5

LEMMA MemoryType ==
    ASSUME image \in Images
    PROVE  Memory \in Seq(Cells) /\ Len(Memory) \in Nat
<1>1. LaidOut(image, MemoryOf(image), Len(AllPieces(image)))
  BY Layout
<1>2. Memory \in Seq(Cells)
  BY <1>1 DEF LaidOut, Memory
<1> QED
  BY <1>2

\* One word matches where it stands.
LEMMA MatchesWord ==
    ASSUME image \in Images, NEW a \in Nat, a # 0, NEW word
    PROVE  Matches(a, <<word>>) <=> a \in 1..Len(Memory) /\ Memory[a] = word
<1> DEFINE s == <<word>>
           part == SubSeq(Memory, a, a)
<1>1. Memory \in Seq(Cells) /\ Len(Memory) \in Nat
  BY MemoryType
<1>2. Len(s) = 1 /\ s[1] = word /\ a + 1 - 1 = a
  OBVIOUS
<1>3. Matches(a, s) <=> a <= Len(Memory) /\ part = s
  BY <1>2 DEF Matches
<1>4. a \in 1..Len(Memory) <=> a <= Len(Memory)
  BY <1>1
<1>5. ASSUME a <= Len(Memory)
      PROVE  part = s <=> Memory[a] = word
  <2>1. part = <<Memory[a]>>
    <3> DEFINE T == <<Memory[a]>>
    <3>1. Memory[a] \in Cells
      BY <1>1, <1>5
    <3>2. T \in Seq(Cells) /\ Len(T) = 1 /\ T[1] = Memory[a]
      BY <3>1
    <3>3. part \in Seq(Cells) /\ Len(part) = 1 /\ part[1] = Memory[a]
      BY <1>1, <1>5
    <3> HIDE DEF T, part
    <3>4. \A i \in 1..1 : i = 1
      OBVIOUS
    <3>5. part = T
      BY <3>2, <3>3, <3>4, SeqEqual
    <3> QED
      BY <3>5 DEF T
  <2>2. part[1] = Memory[a]
    BY <2>1
  <2> QED
    BY <1>2, <2>1, <2>2
<1> QED
  BY <1>3, <1>4, <1>5

\* The class's name matches where its three words stand.
LEMMA MatchesName ==
    ASSUME image \in Images, NEW a \in Nat, a # 0
    PROVE  /\ Matches(a, ClassName) => a \in 1..Len(Memory) /\ Memory[a] = Word("length")
           /\ /\ a + 2 <= Len(Memory) /\ Memory[a] = Word("length")
              /\ Memory[a + 1] = Word("class") /\ Memory[a + 2] = Word("nul")
              => Matches(a, ClassName)
<1> DEFINE part == SubSeq(Memory, a, a + 2)
           x == Word("length")
           y == Word("class")
           z == Word("nul")
<1>1. Memory \in Seq(Cells) /\ Len(Memory) \in Nat
  BY MemoryType
<1>2. ClassName = <<x, y, z>>
  BY DEF ClassName
<1> HIDE DEF x, y, z
<1>3. Len(ClassName) = 3 /\ ClassName[1] = x /\ a + 3 - 1 = a + 2
  BY <1>2
<1>4. Matches(a, ClassName) <=> a + 2 <= Len(Memory) /\ part = ClassName
  BY <1>3 DEF Matches
<1>5. ASSUME a + 2 <= Len(Memory)
      PROVE  part = <<Memory[a], Memory[a + 1], Memory[a + 2]>>
  <2> DEFINE T == <<Memory[a], Memory[a + 1], Memory[a + 2]>>
  <2>1. Memory[a] \in Cells /\ Memory[a + 1] \in Cells /\ Memory[a + 2] \in Cells
    BY <1>1, <1>5
  <2>2. /\ T \in Seq(Cells) /\ Len(T) = 3
        /\ T[1] = Memory[a] /\ T[2] = Memory[a + 1] /\ T[3] = Memory[a + 2]
    BY <2>1
  <2>3. part \in Seq(Cells) /\ Len(part) = 3 /\ \A i \in 1..3 : part[i] = Memory[a + i - 1]
    BY <1>1, <1>5
  <2> HIDE DEF T, part
  <2>4. ASSUME NEW i \in 1..3
        PROVE  part[i] = T[i]
    <3>1. (i = 1 /\ a + i - 1 = a) \/ (i = 2 /\ a + i - 1 = a + 1) \/ (i = 3 /\ a + i - 1 = a + 2)
      OBVIOUS
    <3> QED
      BY <2>2, <2>3, <3>1
  <2>5. part = T
    BY <2>2, <2>3, <2>4, SeqEqual
  <2> QED
    BY <2>5 DEF T
<1>6. ASSUME Matches(a, ClassName)
      PROVE  a \in 1..Len(Memory) /\ Memory[a] = x
  <2>1. a + 2 <= Len(Memory) /\ part = ClassName
    BY <1>4, <1>6
  <2>2. part[1] = Memory[a]
    BY <1>5, <2>1
  <2>3. part[1] = x
    BY <1>3, <2>1
  <2> QED
    BY <1>1, <2>1, <2>2, <2>3
<1>7. ASSUME a + 2 <= Len(Memory), Memory[a] = x, Memory[a + 1] = y, Memory[a + 2] = z
      PROVE  Matches(a, ClassName)
  <2>1. part = ClassName
    BY <1>2, <1>5, <1>7
  <2> QED
    BY <1>4, <1>7, <2>1
<1> QED
  BY <1>6, <1>7 DEF x, y, z

\* The scan for a word faults at the word behind the last.
LEMMA FaultsBehind ==
    ASSUME image \in Images, NEW section, NEW word, cursor \in Nat, Size(section) \in Nat
    PROVE  Faults(section, <<word>>) => Len(Memory) + 1 \in Window(section)
<1>1. Len(<<word>>) = 1
  OBVIOUS
<1>2. \A k \in 0..(1 - 1) : k = 0
  OBVIOUS
<1>3. Len(Memory) \in Nat
  BY MemoryType
<1> SUFFICES ASSUME NEW a \in Window(section), a + 0 = Len(Memory) + 1
             PROVE  Len(Memory) + 1 \in Window(section)
  BY <1>1, <1>2 DEF Faults
<1>4. a \in Int
  BY DEF Window
<1> QED
  BY <1>3, <1>4

-----------------------------------------------------------------------------
(* Type correctness *)

SearchTypes ==
    /\ image \in Images
    /\ phase \in {"name", "type", "relro", "local", "done", "faulted"}
    /\ cursor \in 1..(Len(Memory) + 1)
    /\ target \in 0..Len(Memory)
    /\ found \in 0..(Len(Memory) + 1)

LEMMA StartTypes == SearchInit => SearchTypes
<1> SUFFICES ASSUME SearchInit
             PROVE  SearchTypes
  OBVIOUS
<1>1. image \in Images /\ phase = "name" /\ cursor = 1 /\ target = 0 /\ found = 0
  BY DEF SearchInit, Null
<1>2. Len(Memory) \in Nat
  BY <1>1, MemoryType
<1> QED
  BY <1>1, <1>2 DEF SearchTypes

LEMMA StepTypes == SearchTypes /\ [SearchNext]_searchVars => SearchTypes'
<1> SUFFICES ASSUME SearchTypes, [SearchNext]_searchVars
             PROVE  SearchTypes'
  OBVIOUS
<1> DEFINE L == Len(Memory)
<1>1. /\ image \in Images /\ phase \in {"name", "type", "relro", "local", "done", "faulted"}
      /\ cursor \in 1..(L + 1) /\ target \in 0..L /\ found \in 0..(L + 1)
  BY DEF SearchTypes
<1>2. L \in Nat
  BY <1>1, MemoryType
<1>3. \A s \in Sections : Base(s) \in 1..(L + 1) /\ Size(s) \in Nat
  BY <1>1, SectionTypes
<1>4. /\ "rodata" \in Sections /\ "relro" \in Sections /\ "local" \in Sections
  BY DEF Sections
<1>5. ASSUME image' = image
      PROVE  Len(Memory)' = L
  BY <1>5 DEF Memory, MemoryOf
<1> HIDE DEF L
<1>6. cursor \in Nat /\ cursor # 0
  BY <1>1, <1>2
<1>7. ASSUME NEW s \in Sections, NEW w, FindNext(s, <<w>>) # Null
      PROVE  FindNext(s, <<w>>) \in 1..L
  <2> DEFINE a == FindNext(s, <<w>>)
  <2>1. a \in Window(s) /\ Matches(a, <<w>>)
    BY <1>3, <1>6, <1>7, FirstMatch
  <2> HIDE DEF a
  <2>2. a \in Nat /\ a # 0
    BY <1>3, <1>6, <2>1 DEF Window
  <2> QED
    BY <1>1, <2>1, <2>2, MatchesWord DEF L, a
<1>8. ASSUME FindNext("rodata", ClassName) # Null
      PROVE  FindNext("rodata", ClassName) \in 1..L
  <2> DEFINE a == FindNext("rodata", ClassName)
  <2>1. a \in Window("rodata") /\ Matches(a, ClassName)
    BY <1>3, <1>4, <1>6, <1>8, FirstMatch
  <2> HIDE DEF a
  <2>2. a \in Nat /\ a # 0
    BY <1>3, <1>4, <1>6, <2>1 DEF Window
  <2> QED
    BY <1>1, <2>1, <2>2, MatchesName DEF L, a
<1>9. ASSUME image' = image, phase' \in {"name", "type", "relro", "local", "done", "faulted"},
             cursor' \in 1..(L + 1), target' \in 0..L, found' \in 0..(L + 1)
      PROVE  SearchTypes'
  BY <1>1, <1>5, <1>9 DEF SearchTypes
<1>10. CASE FindName
  <2>1. CASE FindNext("rodata", ClassName) = Null
    BY <1>1, <1>9, <1>10, <2>1 DEF FindName, Misses
  <2>2. CASE FindNext("rodata", ClassName) # Null
    <3>1. /\ phase' = "type" /\ cursor' = Base("relro") /\ target' = FindNext("rodata", ClassName)
          /\ image' = image /\ found' = found
      BY <1>10, <2>2 DEF FindName
    <3>2. target' \in 0..L
      BY <1>2, <1>8, <2>2, <3>1
    <3> QED
      BY <1>1, <1>3, <1>4, <1>9, <3>1, <3>2
  <2> QED
    BY <2>1, <2>2
<1>11. CASE FindType
  <2> DEFINE a == FindNext("relro", <<Pointer(target)>>)
  <2>1. CASE a = Null
    BY <1>1, <1>9, <1>11, <2>1 DEF FindType, Misses
  <2>2. CASE a # Null
    <3>1. /\ phase' = "relro" /\ cursor' = Base("relro") /\ target' = a - 1
          /\ image' = image /\ found' = found
      BY <1>11, <2>2 DEF FindType
    <3>2. a \in 1..L
      BY <1>4, <1>7, <2>2
    <3> HIDE DEF a
    <3>3. target' \in 0..L
      BY <1>2, <3>1, <3>2
    <3> QED
      BY <1>1, <1>3, <1>4, <1>9, <3>1, <3>3
  <2> QED
    BY <2>1, <2>2
<1>12. CASE FindTable
  <2> DEFINE a == FindNext(phase, <<Pointer(target)>>)
  <2>1. phase \in Sections /\ image' = image /\ target' = target
    BY <1>12 DEF FindTable, Sections
  <2>2. a # Null => a \in 1..L
    BY <1>7, <2>1
  <2>3. \/ a # Null /\ found' = a + 1 /\ phase' = "done" /\ cursor' = cursor
        \/ a # Null /\ cursor' = a + 1 /\ phase' = phase /\ found' = found
        \/ a = Null /\ phase' = "local" /\ cursor' = Base("local") /\ found' = found
        \/ a = Null /\ phase' \in {"done", "faulted"} /\ cursor' = cursor /\ found' = found
    BY <1>12 DEF FindTable, NextSection, Misses
  <2> HIDE DEF a
  <2>4. a # Null => a + 1 \in 1..(L + 1) /\ a + 1 \in 0..(L + 1)
    BY <1>2, <2>2
  <2> QED
    BY <1>1, <1>3, <1>4, <1>9, <2>1, <2>3, <2>4
<1>13. CASE UNCHANGED searchVars
  BY <1>1, <1>9, <1>13 DEF searchVars
<1> QED
  BY <1>10, <1>11, <1>12, <1>13 DEF SearchNext

LEMMA SearchIsTyped == SearchSpec => []SearchTypes
<1> QED
  BY StartTypes, StepTypes, PTL DEF SearchSpec

\* The search holds one of the images, and addresses of that image or of the word
\* behind it, whatever the pieces are and in whatever order (FindVirtualTable).
THEOREM SearchTypeCorrect == SearchSpec => []SearchTypeOK
<1>1. SearchTypes => SearchTypeOK
  <2> SUFFICES ASSUME SearchTypes
               PROVE  SearchTypeOK
    OBVIOUS
  <2>1. /\ image \in Images /\ phase \in {"name", "type", "relro", "local", "done", "faulted"}
        /\ cursor \in 1..(Len(Memory) + 1) /\ target \in 0..Len(Memory)
        /\ found \in 0..(Len(Memory) + 1)
    BY DEF SearchTypes
  <2>2. Len(Memory) \in Nat
    BY <2>1, MemoryType
  <2>3. image \in ImageTypes
    BY <2>1, ImageFacts
  <2>4. {cursor, target, found} \subseteq 0..(Len(Memory) + 1)
    BY <2>1, <2>2
  <2> QED
    BY <2>1, <2>3, <2>4 DEF SearchTypeOK
<1> QED
  BY <1>1, SearchIsTyped, PTL

-----------------------------------------------------------------------------
(* The search finds the table of the class *)

\* What is found when the search ends.
Table(img) ==
    IF "type" \in Range(img["relro"]) /\ "table" \in Range(AllPieces(img))
    THEN AddressOf(img, "table") + 2
    ELSE Null

\* What the search has found so far, and that the table is still ahead of it.
OnTheWay ==
    ClassFirst(image) =>
        /\ phase = "name" => cursor = 1
        /\ phase = "type" => /\ "name" \in Range(AllPieces(image))
                             /\ target = AddressOf(image, "name")
                             /\ cursor = Base("relro")
        /\ phase \in {"relro", "local"} =>
              /\ "type" \in Range(image["relro"])
              /\ target = AddressOf(image, "type")
              /\ "table" \in Range(AllPieces(image)) => cursor <= At(image, "table", 2)
        /\ phase = "relro" => Base("relro") <= cursor
        /\ phase = "local" => Base("local") <= cursor /\ "table" \notin Range(image["relro"])
        /\ phase # "done" => found = Null
        /\ phase = "done" => found = Table(image)
        /\ phase = "faulted" => "table" \notin Range(AllPieces(image))

LEMMA StillOnTheWay ==
    ASSUME image' = image,
           ClassFirst(image) =>
               /\ phase' # "name"
               /\ phase' = "type" => /\ "name" \in Range(AllPieces(image))
                                     /\ target' = AddressOf(image, "name")
                                     /\ cursor' = Base("relro")
               /\ phase' \in {"relro", "local"} =>
                     /\ "type" \in Range(image["relro"])
                     /\ target' = AddressOf(image, "type")
                     /\ "table" \in Range(AllPieces(image)) => cursor' <= At(image, "table", 2)
               /\ phase' = "relro" => Base("relro") <= cursor'
               /\ phase' = "local" => Base("local") <= cursor' /\ "table" \notin Range(image["relro"])
               /\ phase' # "done" => found' = Null
               /\ phase' = "done" => found' = Table(image)
               /\ phase' = "faulted" => "table" \notin Range(AllPieces(image))
    PROVE  OnTheWay'
<1>1. Base("relro")' = Base("relro") /\ Base("local")' = Base("local")
  BY DEF Base, PiecesBefore
<1> QED
  BY <1>1 DEF OnTheWay

\* The first string that ends like the name of the class is the name.
LEMMA FindsName ==
    ASSUME SearchTypes, OnTheWay, FindName
    PROVE  OnTheWay'
<1> DEFINE all == AllPieces(image)
           M == Memory
           L == Len(Memory)
           a == FindNext("rodata", ClassName)
<1>1. /\ image \in Images /\ cursor \in 1..(L + 1) /\ phase = "name" /\ L \in Nat
      /\ "rodata" \in Sections
  BY MemoryType DEF SearchTypes, FindName, Sections
<1>2. image' = image
  BY DEF FindName, Misses
<1> SUFFICES ASSUME ClassFirst(image)
             PROVE  /\ phase' # "name"
                    /\ phase' = "type" => /\ "name" \in Range(all)
                                          /\ target' = AddressOf(image, "name")
                                          /\ cursor' = Base("relro")
                    /\ phase' \notin {"relro", "local"}
                    /\ phase' # "done" => found' = Null
                    /\ phase' = "done" => found' = Table(image)
                    /\ phase' = "faulted" => "table" \notin Range(all)
  BY <1>2, StillOnTheWay
<1>3. cursor = 1 /\ found = Null
  BY <1>1 DEF OnTheWay
<1>4. Base("rodata") = 1 /\ Size("rodata") \in Nat
  BY <1>1, SectionTypes
<1>5. Window("rodata") = 1..Size("rodata")
  <2>1. Window("rodata") = 1..(1 + Size("rodata") - 1)
    BY <1>3 DEF Window
  <2>2. 1 + Size("rodata") - 1 = Size("rodata")
    BY <1>4
  <2> QED
    BY <2>1, <2>2
<1>6. M = MemoryOf(image)
  BY DEF Memory
<1> HIDE DEF all, L, M
<1>7. ASSUME "name" \in Range(all)
      PROVE  /\ AddressOf(image, "name") \in Window("rodata")
             /\ AddressOf(image, "name") = At(image, "name", 1)
             /\ Matches(AddressOf(image, "name"), ClassName)
  <2> DEFINE b == AddressOf(image, "name")
  <2>1. /\ At(image, "name", 1) = b
        /\ \A k \in 1..3 : At(image, "name", k) \in 1..L
        /\ M[At(image, "name", 1)] = Word("length")
        /\ M[At(image, "name", 2)] = Word("class")
        /\ M[At(image, "name", 3)] = Word("nul")
    BY <1>1, <1>6, <1>7, ClassWords DEF all, L, M
  <2>2. b \in Nat /\ b # 0
    BY <1>1, <1>7, AddressTypes DEF all
  <2>3. At(image, "name", 2) = b + 1 /\ At(image, "name", 3) = b + 2
    <3> HIDE DEF b
    <3>1. At(image, "name", 2) = b + (2 - 1) /\ At(image, "name", 3) = b + (3 - 1)
      BY DEF At, b
    <3>2. 2 - 1 = 1 /\ 3 - 1 = 2
      OBVIOUS
    <3> QED
      BY <3>1, <3>2
  <2>4. 3 \in 1..3
    OBVIOUS
  <2>5. b + 2 \in 1..L
    BY <2>1, <2>3, <2>4
  <2>6. b + 2 <= L
    BY <1>1, <2>5
  <2>7. Matches(b, ClassName)
    <3> HIDE DEF b
    <3>1. Memory[b] = Word("length") /\ Memory[b + 1] = Word("class") /\ Memory[b + 2] = Word("nul")
      BY <2>1, <2>3 DEF M
    <3> QED
      BY <1>1, <2>2, <2>6, <3>1, MatchesName DEF L
  <2>8. At(image, "name", 1) \in Base("rodata")..(Base("rodata") + Size("rodata") - 1)
    <3>1. "name" \in Range(image["rodata"])
      BY <1>1, <1>7, SectionsOfPieces DEF all
    <3>2. 1 \in 1..SizeOf["name"]
      BY DEF SizeOf
    <3> QED
      BY <1>1, <1>7, <3>1, <3>2, SectionWords DEF all
  <2>9. b \in 1..Size("rodata")
    <3> HIDE DEF b
    <3> QED
      BY <1>4, <2>1, <2>8
  <2> QED
    BY <1>5, <2>1, <2>7, <2>9
<1>8. \/ a = Null /\ \A n \in Window("rodata") : ~Matches(n, ClassName)
      \/ /\ a # Null /\ a \in Window("rodata") /\ Matches(a, ClassName)
         /\ \A n \in Window("rodata") : Matches(n, ClassName) => a <= n
  BY <1>1, <1>3, <1>4, FirstMatch
<1>9. CASE a = Null
  <2>1. phase' \in {"done", "faulted"} /\ found' = found
    BY <1>9 DEF FindName, Misses
  <2>2. "name" \notin Range(all)
    BY <1>7, <1>8, <1>9
  <2>3. "type" \notin Range(image["relro"]) /\ "table" \notin Range(all)
    <3>1. Range(image["relro"]) \subseteq Range(all)
      BY <1>1, SectionsOfPieces DEF all, Sections
    <3>2. "type" \in Range(all) => "name" \in Range(all)
      BY <1>1, ClassWords DEF all
    <3>3. "table" \in Range(all) => "type" \in Range(all)
      <4>1. "type" \in PointsTo["table"]
        BY DEF PointsTo
      <4> QED
        BY <1>1, <4>1, ImageFacts DEF all
    <3> QED
      BY <2>2, <3>1, <3>2, <3>3
  <2> QED
    BY <1>3, <2>1, <2>3 DEF Table
<1>10. CASE a # Null
  <2>1. phase' = "type" /\ cursor' = Base("relro") /\ target' = a /\ found' = found
    BY <1>10 DEF FindName
  <2>2. a \in Window("rodata") /\ Matches(a, ClassName)
    BY <1>8, <1>10
  <2> HIDE DEF a
  <2>3. a \in Nat /\ a # 0
    BY <1>4, <1>5, <2>2
  <2>4. a \in 1..Len(MemoryOf(image)) /\ MemoryOf(image)[a] = Word("length")
    BY <1>1, <1>6, <2>2, <2>3, MatchesName DEF M
  <2>5. \/ "name" \in Range(all) /\ a = At(image, "name", 1)
        \/ "pointerName" \in Range(all) /\ a = At(image, "pointerName", 2)
    BY <1>1, <2>4, NamePlaces DEF all
  <2>6. "name" \in Range(all) /\ a = AddressOf(image, "name")
    <3>1. CASE "name" \in Range(all) /\ a = At(image, "name", 1)
      BY <1>7, <3>1
    <3>2. CASE "pointerName" \in Range(all) /\ a = At(image, "pointerName", 2)
      <4>1. 1 \in 1..SizeOf["name"] /\ 2 \in 1..SizeOf["pointerName"] /\ "name" # "pointerName"
        BY DEF SizeOf
      <4>2. NotBefore(AllPieces(image), "pointerName", "name")
        BY DEF ClassFirst
      <4>3. "name" \in Range(all) /\ At(image, "name", 1) < At(image, "pointerName", 2)
        BY <1>1, <3>2, <4>1, <4>2, Later DEF all
      <4>4. AddressOf(image, "name") < a
        BY <1>7, <3>2, <4>3
      <4>5. a <= AddressOf(image, "name")
        BY <1>7, <1>8, <1>10, <4>3 DEF a
      <4>6. AddressOf(image, "name") \in Nat
        BY <1>1, <4>3, AddressTypes DEF all
      <4> QED
        BY <2>3, <4>4, <4>5, <4>6
    <3> QED
      BY <2>5, <3>1, <3>2
  <2> QED
    BY <1>3, <2>1, <2>6
<1> QED
  BY <1>9, <1>10

\* The first pointer to the name is in the type_info of the class.
LEMMA FindsType ==
    ASSUME SearchTypes, OnTheWay, FindType
    PROVE  OnTheWay'
<1> DEFINE all == AllPieces(image)
           L == Len(Memory)
           a == FindNext("relro", <<Pointer(target)>>)
           t == At(image, "type", 2)
<1>1. /\ image \in Images /\ cursor \in 1..(L + 1) /\ phase = "type" /\ L \in Nat
      /\ "relro" \in Sections /\ "local" \in Sections
  BY MemoryType DEF SearchTypes, FindType, Sections
<1>2. image' = image
  BY DEF FindType, Misses
<1> SUFFICES ASSUME ClassFirst(image)
             PROVE  /\ phase' \notin {"name", "type", "local"}
                    /\ phase' = "relro" =>
                          /\ "type" \in Range(image["relro"])
                          /\ target' = AddressOf(image, "type")
                          /\ "table" \in Range(all) => cursor' <= At(image, "table", 2)
                          /\ Base("relro") <= cursor'
                    /\ phase' # "done" => found' = Null
                    /\ phase' = "done" => found' = Table(image)
                    /\ phase' = "faulted" => "table" \notin Range(all)
  BY <1>2, StillOnTheWay
<1>3. /\ "name" \in Range(all) /\ target = AddressOf(image, "name")
      /\ cursor = Base("relro") /\ found = Null
  BY <1>1 DEF OnTheWay
<1>4. /\ Base("relro") \in 1..(L + 1) /\ Size("relro") \in Nat
      /\ Base("local") \in 1..(L + 1) /\ Base("relro") + Size("relro") <= L + 1
  BY <1>1, SectionTypes
<1>5. Window("relro") = Base("relro")..(Base("relro") + Size("relro") - 1)
  BY <1>3 DEF Window
<1>6. Memory = MemoryOf(image)
  BY DEF Memory
<1>7. Range(image["relro"]) \subseteq Range(all)
  BY <1>1, SectionsOfPieces
<1> HIDE DEF all, L, t
<1>8. \/ a = Null /\ \A n \in Window("relro") : ~Matches(n, <<Pointer(target)>>)
      \/ /\ a # Null /\ a \in Window("relro") /\ Matches(a, <<Pointer(target)>>)
         /\ \A n \in Window("relro") : Matches(n, <<Pointer(target)>>) => a <= n
  <2>1. cursor \in Nat /\ cursor # 0
    BY <1>1
  <2> QED
    BY <1>4, <2>1, FirstMatch
<1>9. ASSUME "type" \in Range(all)
      PROVE  t \in Window("relro") <=> "type" \in Range(image["relro"])
  <2>1. 2 \in 1..SizeOf["type"]
    BY DEF SizeOf
  <2> QED
    BY <1>1, <1>5, <1>9, <2>1, SectionWords DEF all, t
<1>10. CASE a = Null
  <2>1. phase' = "done" /\ found' = found
    <3>1. ~Faults("relro", <<Pointer(target)>>)
      <4>1. \A n \in Window("relro") : n <= L
        BY <1>1, <1>4, <1>5
      <4>2. cursor \in Nat /\ ~(L + 1 <= L)
        BY <1>1
      <4> QED
        BY <1>1, <1>4, <4>1, <4>2, FaultsBehind DEF L
    <3> QED
      BY <1>10, <3>1 DEF FindType, Misses
  <2>2. "type" \notin Range(image["relro"])
    <3> SUFFICES ASSUME "type" \in Range(image["relro"])
                 PROVE  FALSE
      OBVIOUS
    <3>1. "type" \in Range(all) /\ t \in Window("relro")
      BY <1>7, <1>9
    <3>2. t \in 1..Len(Memory) /\ Memory[t] = Pointer(target)
      BY <1>1, <1>3, <1>6, <3>1, ClassWords DEF all, t
    <3>3. t \in Nat /\ t # 0
      BY <1>1, <3>2
    <3>4. Matches(t, <<Pointer(target)>>)
      BY <1>1, <3>2, <3>3, MatchesWord
    <3> QED
      BY <1>8, <1>10, <3>1, <3>4
  <2> QED
    BY <1>3, <2>1, <2>2 DEF Table
<1>11. CASE a # Null
  <2>1. phase' = "relro" /\ cursor' = Base("relro") /\ target' = a - 1 /\ found' = found
    BY <1>11 DEF FindType
  <2>2. a \in Window("relro") /\ Matches(a, <<Pointer(target)>>)
    BY <1>8, <1>11
  <2> HIDE DEF a
  <2>3. a \in Nat /\ a # 0
    BY <1>4, <1>5, <2>2
  <2>4. a \in 1..Len(MemoryOf(image)) /\ MemoryOf(image)[a] = Pointer(AddressOf(image, "name"))
    BY <1>1, <1>3, <1>6, <2>2, <2>3, MatchesWord
  <2>5. "type" \in Range(all) /\ a = t
    BY <1>1, <1>3, <2>4, TypePlaces DEF all, t
  <2>6. "type" \in Range(image["relro"])
    BY <1>9, <2>2, <2>5
  <2>7. t - 1 = AddressOf(image, "type")
    BY <1>1, <2>5, ClassWords DEF all, t
  <2>8. ASSUME "table" \in Range(all)
        PROVE  Base("relro") <= At(image, "table", 2)
    <3> DEFINE b == At(image, "table", 2)
    <3>1. 2 \in 1..SizeOf["table"] /\ "table" \in Data
      BY DEF SizeOf, Data
    <3>2. "table" \in Range(image["relro"]) \/ "table" \in Range(image["local"])
      BY <1>1, <2>8, <3>1, SectionsOfPieces DEF all
    <3>3. \A s \in Sections : b \in Base(s)..(Base(s) + Size(s) - 1) <=> "table" \in Range(image[s])
      BY <1>1, <2>8, <3>1, SectionWords DEF all
    <3>4. Base("relro") <= Base("local")
      BY <1>1, SectionOrder
    <3> HIDE DEF b
    <3>5. Base("relro") <= b \/ Base("local") <= b
      <4>1. \A x, y : b \in x..y => x <= b
        OBVIOUS
      <4> QED
        BY <1>1, <3>2, <3>3
    <3>6. b \in Nat
      BY <1>1, <2>8, ClassWords DEF all, b
    <3> QED
      BY <1>4, <3>4, <3>5, <3>6 DEF b
  <2>9. Base("relro") <= Base("relro")
    BY <1>4
  <2> QED
    BY <1>3, <2>1, <2>5, <2>6, <2>7, <2>8, <2>9
<1> QED
  BY <1>10, <1>11

\* The first pointer to the type_info that looks like a table is in the table.
LEMMA FindsTable ==
    ASSUME SearchTypes, OnTheWay, FindTable
    PROVE  OnTheWay'
<1> DEFINE all == AllPieces(image)
           L == Len(Memory)
           a == FindNext(phase, <<Pointer(target)>>)
           t == At(image, "table", 2)
<1>1. /\ image \in Images /\ cursor \in 1..(L + 1) /\ phase \in {"relro", "local"} /\ L \in Nat
      /\ phase \in Sections /\ "relro" \in Sections /\ "local" \in Sections
  BY MemoryType DEF SearchTypes, FindTable, Sections
<1>2. image' = image /\ target' = target
  BY DEF FindTable
<1> SUFFICES ASSUME ClassFirst(image)
             PROVE  /\ phase' \notin {"name", "type"}
                    /\ phase' \in {"relro", "local"} =>
                          /\ "type" \in Range(image["relro"])
                          /\ target' = AddressOf(image, "type")
                          /\ "table" \in Range(all) => cursor' <= t
                    /\ phase' = "relro" => Base("relro") <= cursor'
                    /\ phase' = "local" => /\ Base("local") <= cursor'
                                           /\ "table" \notin Range(image["relro"])
                    /\ phase' # "done" => found' = Null
                    /\ phase' = "done" => found' = Table(image)
                    /\ phase' = "faulted" => "table" \notin Range(all)
  BY <1>2, StillOnTheWay
<1>3. /\ "type" \in Range(image["relro"]) /\ target = AddressOf(image, "type")
      /\ "table" \in Range(all) => cursor <= t
      /\ Base(phase) <= cursor
      /\ phase = "local" => "table" \notin Range(image["relro"])
      /\ found = Null
  <2>1. ClassFirst(image) /\ phase # "done" /\ (phase = "relro" \/ phase = "local")
    BY <1>1
  <2> QED
    BY <1>1, <2>1 DEF OnTheWay
<1>4. /\ Base(phase) \in 1..(L + 1) /\ Size(phase) \in Nat
      /\ Base("local") \in 1..(L + 1)
  BY <1>1, SectionTypes
<1>5. Memory = MemoryOf(image)
  BY DEF Memory
<1>6. /\ "type" \in Range(all)
      /\ \A s \in Sections : Range(image[s]) \subseteq Range(all)
      /\ "table" \in Range(all) =>
            "table" \in Range(image["relro"]) \/ "table" \in Range(image["local"])
  <2>1. "table" \in Data
    BY DEF Data
  <2> QED
    BY <1>1, <1>3, <2>1, SectionsOfPieces
<1> HIDE DEF all, L, t
<1>7. \/ a = Null /\ \A n \in Window(phase) : ~Matches(n, <<Pointer(target)>>)
      \/ /\ a # Null /\ a \in Window(phase) /\ Matches(a, <<Pointer(target)>>)
         /\ \A n \in Window(phase) : Matches(n, <<Pointer(target)>>) => a <= n
  <2>1. cursor \in Nat /\ cursor # 0
    BY <1>1
  <2> QED
    BY <1>4, <2>1, FirstMatch
<1>8. ASSUME "table" \in Range(all)
      PROVE  /\ t \in 1..L /\ t \in Nat /\ t # 0 /\ cursor <= t
             /\ Matches(t, <<Pointer(target)>>)
             /\ Memory[t - 1] = Word("zero")
             /\ t + 1 = AddressOf(image, "table") + 2
  <2>1. /\ t \in 1..L /\ t + 1 = AddressOf(image, "table") + 2
        /\ Memory[t] = Pointer(AddressOf(image, "type")) /\ Memory[t - 1] = Word("zero")
    BY <1>1, <1>5, <1>8, ClassWords DEF all, t, L
  <2>2. t \in Nat /\ t # 0
    BY <1>1, <2>1
  <2>3. Matches(t, <<Pointer(target)>>)
    BY <1>1, <1>3, <2>1, <2>2, MatchesWord DEF L
  <2> QED
    BY <1>3, <1>8, <2>1, <2>2, <2>3
<1>9. ASSUME NEW s \in Sections, s = phase, "table" \in Range(image[s])
      PROVE  t \in Window(phase)
  <2>1. 2 \in 1..SizeOf["table"] /\ "table" \in Range(all)
    BY <1>6, <1>9 DEF SizeOf
  <2>2. t \in Base(phase)..(Base(phase) + Size(phase) - 1)
    BY <1>1, <1>9, <2>1, SectionWords DEF all, t
  <2>3. cursor <= t /\ t \in Nat /\ cursor \in Nat /\ Base(phase) <= cursor
    BY <1>1, <1>3, <1>8, <2>1
  <2> QED
    BY <1>4, <2>2, <2>3 DEF Window
<1>12. ASSUME a = Null, Faults(phase, <<Pointer(target)>>)
       PROVE  "table" \notin Range(all)
  <2> SUFFICES ASSUME "table" \in Range(all)
               PROVE  FALSE
    OBVIOUS
  <2>1. L + 1 \in Window(phase)
    <3>1. cursor \in Nat
      BY <1>1
    <3> QED
      BY <1>1, <1>4, <1>12, <3>1, FaultsBehind DEF L
  <2>2. t \in 1..L /\ cursor <= t /\ Matches(t, <<Pointer(target)>>)
    BY <1>8
  <2>3. t \in Window(phase)
    <3> HIDE DEF a
    <3> QED
      BY <1>1, <1>4, <2>1, <2>2 DEF Window
  <2> QED
    BY <1>7, <1>12, <2>2, <2>3
<1>13. CASE a = Null /\ Faults(phase, <<Pointer(target)>>)
  <2>1. phase' = "faulted" /\ found' = found
    BY <1>1, <1>13 DEF FindTable, Misses
  <2> QED
    BY <1>3, <1>12, <1>13, <2>1
<1>10. CASE a = Null /\ ~Faults(phase, <<Pointer(target)>>)
  <2>1. "table" \notin Range(image[phase])
    <3> SUFFICES ASSUME "table" \in Range(image[phase])
                 PROVE  FALSE
      OBVIOUS
    <3>1. t \in Window(phase) /\ "table" \in Range(all)
      BY <1>1, <1>6, <1>9
    <3> QED
      BY <1>7, <1>8, <1>10, <3>1
  <2>2. CASE phase = "relro"
    <3>1. phase' = "local" /\ cursor' = Base("local") /\ found' = found
      BY <1>10, <2>2 DEF FindTable, NextSection
    <3>2. "table" \notin Range(image["relro"])
      BY <2>1, <2>2
    <3>3. ASSUME "table" \in Range(all)
          PROVE  Base("local") <= t
      <4>1. 2 \in 1..SizeOf["table"] /\ "table" \in Range(image["local"])
        BY <1>6, <3>2, <3>3 DEF SizeOf
      <4>2. t \in Base("local")..(Base("local") + Size("local") - 1)
        BY <1>1, <3>3, <4>1, SectionWords DEF all, t
      <4> QED
        BY <4>2
    <3>4. Base("local") <= Base("local")
      BY <1>4
    <3> QED
      BY <1>2, <1>3, <3>1, <3>2, <3>3, <3>4
  <2>3. CASE phase = "local"
    <3>1. phase' = "done" /\ found' = found
      BY <1>10, <2>3 DEF FindTable, NextSection, Misses
    <3>2. "table" \notin Range(all)
      BY <1>3, <1>6, <2>1, <2>3
    <3> QED
      BY <1>3, <3>1, <3>2 DEF Table, all
  <2> QED
    BY <1>1, <2>2, <2>3
<1>11. CASE a # Null
  <2>1. a \in Window(phase) /\ Matches(a, <<Pointer(target)>>)
        /\ \A n \in Window(phase) : Matches(n, <<Pointer(target)>>) => a <= n
    BY <1>7, <1>11
  <2>2. a \in Nat /\ a # 0 /\ cursor <= a /\ a <= cursor + Size(phase) - 1
    <3> HIDE DEF a
    <3> QED
      BY <1>1, <1>4, <2>1 DEF Window
  <2>3. "table" \in Range(all) => a <= t
    <3> SUFFICES ASSUME "table" \in Range(all), ~(a <= t)
                 PROVE  FALSE
      OBVIOUS
    <3>1. t \in Nat /\ cursor <= t /\ Matches(t, <<Pointer(target)>>)
      BY <1>8
    <3>2. t \in Window(phase)
      <4> HIDE DEF a
      <4> QED
        BY <1>1, <1>4, <2>2, <3>1 DEF Window
    <3> QED
      BY <2>1, <3>1, <3>2
  <2>4. CASE IsPrimaryTable(a)
    <3>1. phase' = "done" /\ found' = a + 1
      BY <1>11, <2>4 DEF FindTable
    <3>2. Memory[a - 1] = Word("zero")
      BY <2>4 DEF IsPrimaryTable
    <3> HIDE DEF a
    <3>3. /\ a \in 1..Len(MemoryOf(image)) /\ MemoryOf(image)[a] = Pointer(AddressOf(image, "type"))
          /\ MemoryOf(image)[a - 1] = Word("zero")
      BY <1>1, <1>3, <1>5, <2>1, <2>2, <3>2, MatchesWord
    <3>4. \/ "table" \in Range(all) /\ a = t
          \/ "pointerType" \in Range(all) /\ a = At(image, "pointerType", 4)
          \/ "reference" \in Range(all) /\ a = At(image, "reference", 2)
      BY <1>1, <1>6, <3>3, TablePlaces DEF all, t
    <3>5. "table" \in Range(all) /\ a = t
      <4>1. CASE "pointerType" \in Range(all) /\ a = At(image, "pointerType", 4)
        <5>1. 2 \in 1..SizeOf["table"] /\ 4 \in 1..SizeOf["pointerType"] /\ "table" # "pointerType"
          BY DEF SizeOf
        <5>2. NotBefore(AllPieces(image), "pointerType", "table")
          BY DEF ClassFirst
        <5>3. "table" \in Range(all) /\ t < a
          BY <1>1, <4>1, <5>1, <5>2, Later DEF all, t
        <5> QED
          BY <1>8, <2>2, <2>3, <5>3
      <4>2. CASE "reference" \in Range(all) /\ a = At(image, "reference", 2)
        <5>1. 2 \in 1..SizeOf["table"] /\ 2 \in 1..SizeOf["reference"] /\ "table" # "reference"
          BY DEF SizeOf
        <5>2. NotBefore(AllPieces(image), "reference", "table")
          BY DEF ClassFirst
        <5>3. "table" \in Range(all) /\ t < a
          BY <1>1, <4>2, <5>1, <5>2, Later DEF all, t
        <5> QED
          BY <1>8, <2>2, <2>3, <5>3
      <4> QED
        BY <3>4, <4>1, <4>2
    <3>6. found' = AddressOf(image, "table") + 2
      BY <1>8, <3>1, <3>5
    <3> QED
      BY <1>3, <3>1, <3>5, <3>6 DEF Table, all
  <2>5. CASE ~IsPrimaryTable(a)
    <3>1. cursor' = a + 1 /\ phase' = phase /\ found' = found
      BY <1>11, <2>5 DEF FindTable
    <3>2. Memory[a - 1] # Word("zero")
      BY <2>5 DEF IsPrimaryTable
    <3> HIDE DEF a
    <3>3. "table" \in Range(all) => a + 1 <= t
      <4> SUFFICES ASSUME "table" \in Range(all)
                   PROVE  a + 1 <= t
        OBVIOUS
      <4>1. a # t /\ a <= t /\ t \in Nat
        BY <1>8, <2>3, <3>2
      <4> QED
        BY <2>2, <4>1
    <3>4. Base(phase) <= a + 1
      BY <1>1, <1>3, <1>4, <2>2
    <3> QED
      BY <1>1, <1>2, <1>3, <3>1, <3>3, <3>4
  <2> QED
    BY <2>4, <2>5
<1> QED
  BY <1>10, <1>11, <1>13

\* The search always is on the way to the table, or there.
LEMMA StaysOnTheWay == SearchTypes /\ OnTheWay /\ [SearchNext]_searchVars => OnTheWay'
<1> SUFFICES ASSUME SearchTypes, OnTheWay, [SearchNext]_searchVars
             PROVE  OnTheWay'
  OBVIOUS
<1>1. CASE FindName
  BY <1>1, FindsName
<1>2. CASE FindType
  BY <1>2, FindsType
<1>3. CASE FindTable
  BY <1>3, FindsTable
<1>4. CASE UNCHANGED searchVars
  <2>1. /\ image' = image /\ phase' = phase /\ cursor' = cursor /\ target' = target
        /\ found' = found
    BY <1>4 DEF searchVars
  <2>2. Base("relro")' = Base("relro") /\ Base("local")' = Base("local")
    BY <2>1 DEF Base, PiecesBefore
  <2> QED
    BY <2>1, <2>2 DEF OnTheWay
<1> QED
  BY <1>1, <1>2, <1>3, <1>4 DEF SearchNext

LEMMA AlwaysOnTheWay == SearchSpec => []OnTheWay
<1>1. SearchInit => OnTheWay
  BY DEF SearchInit, OnTheWay
<1> QED
  BY <1>1, SearchIsTyped, StaysOnTheWay, PTL DEF SearchSpec

\* When the search ends it has found the primary table of the class, or nothing
\* if there is none, in every image that holds what belongs to a pointer to the
\* class behind what belongs to the class (FindVirtualTable).
THEOREM FindsTheTable == SearchSpec => []TableIsTheClass
<1>1. OnTheWay => TableIsTheClass
  <2>1. image["relro"] = image.relro
    OBVIOUS
  <2> QED
    BY <2>1 DEF OnTheWay, Table, TableIsTheClass
<1> QED
  BY <1>1, AlwaysOnTheWay, PTL

\* A library that has the table of the class is searched without reading what is
\* not mapped, wherever the mapping ends, although each scan goes on as far as the
\* section is long from behind the last match (SignatureIterator::FindNext).
THEOREM ScansStopAtTheTable == SearchSpec => []TableStopsTheScan
<1>1. OnTheWay => TableStopsTheScan
  BY DEF OnTheWay, TableStopsTheScan
<1> QED
  BY <1>1, AlwaysOnTheWay, PTL
=============================================================================
