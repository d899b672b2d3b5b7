----------------------------- MODULE MCReaders -----------------------------
(* Bounded instances of RssDocuments and SignatureScan for TLC: one of the *)
(* two runs, the other is idle.                                            *)
EXTENDS RssDocuments, SignatureScan

Ids6 == {<<7>>, <<0, 7>>, <<8>>, <<0>>, <<2, 5, 6>>, <<7, Other>>}
ShortLines == UNION {[1..n -> {0, 2, 5, 6}] : n \in 0..3} \cup {<<Other>>, <<0, 2, 5, 5>>}
Singles == {{}} \cup {{v} : v \in 1..255} \cup {{9, 10}, {7, 99, 255}}

\* The pieces of a class and its type in every order, split anywhere between the
\* two sections of data, with nothing or something mapped behind them; and a
\* library without the class.
Split(names, data, n, rest) ==
    [rodata |-> names, relro |-> SubSeq(data, 1, n), local |-> SubSeq(data, n + 1, Len(data)),
     rest |-> rest]
Optional == {"table", "secondTable", "derivedType", "pointerType"}
Rests == {<<>>, <<"filler">>, <<"filler", "reference">>}
Layouts ==
    {Split(<<"derivedName">>, <<>>, 0, <<>>)} \cup
    UNION {LET all == {"type"} \cup D
               names == {"name", "derivedName"} \cup
                        (IF "pointerType" \in D THEN {"pointerName"} ELSE {})
           IN  {Split(ns, ds, n, rest) : ns \in SetToSeqs(names), ds \in SetToSeqs(all),
                                         n \in 0..Cardinality(all), rest \in Rests} :
           D \in {S \in SUBSET Optional : Cardinality(S) <= 3}}

ReadersInit ==
    \/ DocInit /\ phase = "idle" /\ image = Split(<<>>, <<>>, 0, <<>>)
           /\ cursor = 0 /\ target = Null /\ found = Null
    \/ SearchInit /\ ScanInit /\ reader = "none" /\ at = "start"
           /\ written = NotWritten /\ ahead = <<>>

ReadersNext ==
    \/ DocNext /\ UNCHANGED searchVars
    \/ SearchNext /\ UNCHANGED docVars

ReadersSpec == ReadersInit /\ [][ReadersNext]_<<docVars, searchVars>>
=============================================================================
