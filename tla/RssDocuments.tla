---------------------------- MODULE RssDocuments ----------------------------
(***************************************************************************)
(* The two readers and the writer of rss_asset_preferences.h: the JSONC    *)
(* document ParseRssAssetPreferences accepts, the text that                *)
(* BuildRssAssetPreferencesJson writes, the legacy list that               *)
(* CollectLegacyOptOutIds collects, and the decimal conversion they share. *)
(*                                                                         *)
(* A document is a sequence of units: a punctuation mark, a quoted text, a *)
(* word, or a gap of white space and comments; "bad" is whatever no branch *)
(* of the parser takes, the NUL and an unterminated comment included.  An  *)
(* operator's document is chosen unit by unit while it is read, so that    *)
(* all of them are read, up to the length at which the instance stops.     *)
(***************************************************************************)
EXTENDS Naturals, Sequences, FiniteSets, SequencesExt

CONSTANTS
    MaxId,      \* the largest ID, 2^64 - 1 in the code
    MaxDigits,  \* its number of digits, 20 in the code
    Other,      \* a character that is not a digit
    IdTexts,    \* the quoted texts an operator writes where an ID belongs
    Lines,      \* the lines of a legacy list, without their line ends
    WrittenSets,\* the sets of IDs the plugin itself writes
    MaxUnits,   \* bound: the units of an operator's document
    MaxGaps,    \* bound: the gaps of an operator's document
    MaxLines    \* bound: the lines of a legacy list

ASSUME NumbersAssumption ==
    /\ {MaxId, MaxDigits, MaxUnits, MaxGaps, MaxLines} \subseteq Nat
    /\ WrittenSets \subseteq SUBSET (1..MaxId)
    /\ Other \notin 0..9
    /\ IdTexts \cup Lines \subseteq Seq(0..9 \cup {Other})

VARIABLES
    reader,     \* which reader runs
    written,    \* the set the plugin wrote the document for, or NotWritten
    ahead,      \* what is left to read of a document the plugin wrote
    doc,        \* what has been read
    at,         \* what the parser looks for next, or its verdict
    key,        \* the key whose value is read
    keys,       \* bSeenVersion, bSeenOptOut
    id,         \* the ID whose value is read
    seenIds,    \* the IDs met so far, the false ones included
    parsed,     \* those of them that are true
    out         \* the caller's set

scanVars == <<key, keys, id, seenIds, parsed>>
docVars == <<reader, written, ahead, doc, at, scanVars, out>>

\* What the caller's set holds before the call (0 is never an ID).
Before == {0}

\* An operator's document.
NotWritten == {0}

-----------------------------------------------------------------------------
(* Decimal numbers.  A number that is refused is 0, which is never an ID.    *)

Overflow == MaxId + 1

\* Mutant: the digit is left out of the overflow check.
AccumulateCoarse(value, digit) ==
    IF value > MaxId \div 10 THEN Overflow ELSE (value * 10 + digit) % (MaxId + 1)

\* One round of ParseDecimalUll's loop, in the width of the ID.
Accumulate(value, digit) ==
    IF value > (MaxId - digit) \div 10 THEN Overflow
    ELSE (value * 10 + digit) % (MaxId + 1)

ParseDecimalUll(text) ==
    IF text = <<>> \/ Len(text) > MaxDigits \/ Other \in Range(text) THEN 0
    ELSE LET value[n \in 0..Len(text)] ==
                 IF n = 0 THEN 0 ELSE Accumulate(value[n - 1], text[n])
         IN  IF value[Len(text)] = Overflow THEN 0 ELSE value[Len(text)]

\* The writer's digits: the remainders of its quotients, the last one first.
DigitsOf(v) ==
    LET quotient[n \in 0..(v + 1)] == IF n = 0 THEN v ELSE quotient[n - 1] \div 10
        length == CHOOSE n \in 1..(v + 1) : quotient[n] = 0 /\ (n = 1 \/ quotient[n - 1] # 0)
    IN  [i \in 1..length |-> quotient[length - i] % 10]

ASSUME WidthAssumption == MaxDigits = Len(DigitsOf(MaxId))

-----------------------------------------------------------------------------
(* Units *)

Unit(kind)   == [kind |-> kind, text |-> <<>>]
Quoted(text) == [kind |-> "quoted", text |-> text]

Marks == {"{", "}", ":", ",", "gap", "version", "opt_out_steam_ids",
          "1", "true", "false", "bad"}

Units == {Unit(m) : m \in Marks} \cup {Quoted(t) : t \in IdTexts}

\* Mutant: the writer puts no comma between entries.
SeparatorMissing(isLast) == <<Unit("gap")>>

Separator(isLast) == IF isLast THEN <<Unit("gap")>> ELSE <<Unit(","), Unit("gap")>>

Opening == <<Unit("{"), Unit("gap"), Unit("version"), Unit(":"), Unit("gap"), Unit("1"),
             Unit(","), Unit("gap"), Unit("opt_out_steam_ids"), Unit(":"), Unit("gap"),
             Unit("{"), Unit("gap")>>

Entry(v, isLast) ==
    <<Quoted(DigitsOf(v)), Unit(":"), Unit("gap"), Unit("true")>> \o Separator(isLast)

Closing == <<Unit("}"), Unit("gap"), Unit("}"), Unit("gap")>>

\* The IDs in ascending order, all of them true: what comes behind those up to v.
Behind(ids) ==
    LET rest[v \in 0..MaxId] ==
            LET later == {w \in ids : w > v}
                next  == Min(later)
            IN  IF later = {} THEN Closing
                ELSE Entry(next, later = {next}) \o rest[next]
    IN  rest

\* BuildRssAssetPreferencesJson
Written(ids) == Opening \o Behind(ids)[0]

-----------------------------------------------------------------------------
(* ParseRssAssetPreferences *)

\* What the parser takes at each place; a gap it skips everywhere.
Takes ==
    [start       |-> {"{"},
     key         |-> {"}", "version", "opt_out_steam_ids"},
     colon       |-> {":"},
     value       |-> IF key = "version" THEN {"1"} ELSE {"{"},
     pairEnd     |-> {",", "}"},
     entry       |-> {"}", "quoted"},
     entryColon  |-> {":"},
     entryValue  |-> {"true", "false"},
     entryEnd    |-> {",", "}"},
     tail        |-> {}]

\* Mutant: a key may come twice.
KeyIsAny == TRUE

KeyIsNew == key \notin keys

\* Mutants: only true entries occupy an ID; zero is an ID.
IdFreeOfTrue(text) == ParseDecimalUll(text) \notin parsed \cup {0}
IdAnyNumber(text) == ParseDecimalUll(text) \notin seenIds

\* The text is an ID that has not been met, whatever its value was.
IdIsNew(text) == ParseDecimalUll(text) \notin seenIds \cup {0}

\* The unit does not end the parse.
Accepts(u) ==
    /\ u.kind \in Takes[at]
    /\ at = "value" => KeyIsNew
    /\ u.kind = "quoted" => IdIsNew(u.text)

\* Where the parser goes: a comma leads back to a key or an entry, which a
\* closing brace may replace.
Goes(u) ==
    CASE at = "start"                    -> "key"
      [] at = "key" /\ u.kind # "}"      -> "colon"
      [] at = "colon"                    -> "value"
      [] at = "value" /\ u.kind = "1"    -> "pairEnd"
      [] at = "value" /\ u.kind = "{"    -> "entry"
      [] at = "pairEnd" /\ u.kind = ","  -> "key"
      [] at = "entry" /\ u.kind # "}"    -> "entryColon"
      [] at = "entryColon"               -> "entryValue"
      [] at = "entryValue"               -> "entryEnd"
      [] at = "entryEnd" /\ u.kind = "," -> "entry"
      [] at \in {"entry", "entryEnd"} /\ u.kind = "}" -> "pairEnd"
      [] at \in {"key", "pairEnd"} /\ u.kind = "}"    -> "tail"

Notes(u) ==
    /\ key' = IF at = "key" /\ u.kind # "}" THEN u.kind ELSE key
    /\ keys' = IF at = "value" THEN keys \cup {key} ELSE keys
    /\ id' = IF u.kind = "quoted" THEN ParseDecimalUll(u.text) ELSE id
    /\ seenIds' = IF u.kind = "quoted" THEN seenIds \cup {id'} ELSE seenIds
    /\ parsed' = IF u.kind = "true" THEN parsed \cup {id} ELSE parsed

Verdicts == {"accepted", "rejected", "incomplete"}

Reading == reader = "jsonc" /\ at \notin Verdicts

\* The next unit: of the document the plugin wrote, or of an operator's.
Comes(u) ==
    IF ahead # <<>> THEN u = Head(ahead) /\ ahead' = Tail(ahead)
    ELSE /\ written = NotWritten
         /\ Len(doc) < MaxUnits
         /\ u.kind = "gap" =>
                Cardinality({i \in DOMAIN doc : doc[i].kind = "gap"}) < MaxGaps
         /\ UNCHANGED ahead

Read(u) ==
    /\ Reading
    /\ Comes(u)
    /\ doc' = Append(doc, u)
    /\ \/ /\ u.kind = "gap"
          /\ UNCHANGED <<at, scanVars>>
       \/ /\ u.kind # "gap" /\ Accepts(u)
          /\ at' = Goes(u)
          /\ Notes(u)
       \/ /\ u.kind # "gap" /\ ~Accepts(u)
          /\ at' = "rejected"
          /\ UNCHANGED scanVars
    /\ UNCHANGED <<reader, written, out>>

\* Mutant: a document without a version is let through.
WholeWithoutVersion == at = "tail" /\ "opt_out_steam_ids" \in keys

Whole == at = "tail" /\ keys = {"version", "opt_out_steam_ids"}

\* The document ends; only a whole one is published, all at once.
EndOfDocument ==
    /\ Reading
    /\ ahead = <<>>
    /\ at' = IF Whole THEN "accepted" ELSE "incomplete"
    /\ out' = IF Whole THEN parsed ELSE out
    /\ UNCHANGED <<reader, written, ahead, doc, scanVars>>

-----------------------------------------------------------------------------
(* CollectLegacyOptOutIds *)

\* Mutant: a line that occurs twice is taken once.
LineIsNumber(text) == ParseDecimalUll(text) # 0

LineIsNew(text) == ParseDecimalUll(text) \notin parsed \cup {0}

ReadLine(text) ==
    /\ reader = "legacy"
    /\ at = "line"
    /\ Len(doc) < MaxLines
    /\ doc' = Append(doc, Quoted(text))
    /\ IF LineIsNew(text)
       THEN parsed' = parsed \cup {ParseDecimalUll(text)} /\ UNCHANGED at
       ELSE at' = "rejected" /\ UNCHANGED parsed
    /\ UNCHANGED <<reader, written, ahead, key, keys, id, seenIds, out>>

\* A list that could not be read to its end is refused.
EndOfLines(readOk) ==
    /\ reader = "legacy"
    /\ at = "line"
    /\ at' = IF readOk THEN "accepted" ELSE "incomplete"
    /\ out' = IF readOk THEN parsed ELSE out
    /\ UNCHANGED <<reader, written, ahead, doc, scanVars>>

-----------------------------------------------------------------------------
ScanInit ==
    /\ key = "" /\ keys = {} /\ id = 0
    /\ seenIds = {} /\ parsed = {} /\ out = Before /\ doc = <<>>

\* An operator's document, one the plugin wrote, or a legacy list.
DocInit ==
    /\ ScanInit
    /\ \/ /\ reader = "jsonc" /\ at = "start"
          /\ \/ written = NotWritten /\ ahead = <<>>
             \/ written \in WrittenSets /\ ahead = Written(written)
       \/ /\ reader = "legacy" /\ at = "line"
          /\ written = NotWritten /\ ahead = <<>>

DocNext ==
    \/ \E u \in Units \cup Range(ahead) : Read(u)
    \/ EndOfDocument
    \/ \E text \in Lines : ReadLine(text)
    \/ \E readOk \in BOOLEAN : EndOfLines(readOk)

DocSpec == DocInit /\ [][DocNext]_docVars

-----------------------------------------------------------------------------
(* The language, stated apart from the parser                                *)

\* The number a text denotes, in unbounded arithmetic; 0 if it denotes no ID.
IdOf(text) ==
    LET number[n \in 0..Len(text)] ==
            IF n = 0 THEN 0 ELSE number[n - 1] * 10 + text[n]
    IN  IF /\ Len(text) \in 1..MaxDigits
           /\ Other \notin Range(text)
           /\ number[Len(text)] <= MaxId
        THEN number[Len(text)] ELSE 0

\* Entries with IDs that are numerically distinct.
EntryLists ==
    LET Good == {t \in IdTexts : IdOf(t) # 0}
    IN  {es \in SeqOf([text : Good, value : {"true", "false"}],
                      Cardinality({IdOf(t) : t \in Good})) :
            \A i, j \in DOMAIN es : i # j => IdOf(es[i].text) # IdOf(es[j].text)}

\* Four units for each entry, a comma behind the last one being optional.
Body(es, length) ==
    [i \in 1..length |-> LET e == es[(i + 3) \div 4]
                         IN  CASE i % 4 = 1 -> Quoted(e.text)
                               [] i % 4 = 2 -> Unit(":")
                               [] i % 4 = 3 -> Unit(e.value)
                               [] i % 4 = 0 -> Unit(",")]

Bodies ==
    UNION {{Body(es, n) : n \in {k \in 0..(4 * Len(es)) : 4 * Len(es) <= k + 1}} :
           es \in EntryLists}

\* A version and an object of opted-out IDs, in either order: what stands before
\* the entries, and behind them up to the comma that may follow the second value.
Heading(first) ==
    IF first = "version"
    THEN <<Unit("{"), Unit("version"), Unit(":"), Unit("1"), Unit(","),
           Unit("opt_out_steam_ids"), Unit(":"), Unit("{")>>
    ELSE <<Unit("{"), Unit("opt_out_steam_ids"), Unit(":"), Unit("{")>>

Rest(first) ==
    IF first = "version" THEN <<Unit("}")>>
    ELSE <<Unit("}"), Unit(","), Unit("version"), Unit(":"), Unit("1")>>

Ending(commas) == IF commas = 1 THEN <<Unit(","), Unit("}")>> ELSE <<Unit("}")>>

Sentence(first, b, commas) == Heading(first) \o b \o Rest(first) \o Ending(commas)

Sentences ==
    {Sentence(first, b, commas) :
        first \in {"version", "opt_out_steam_ids"}, b \in Bodies, commas \in 0..1}

ViablePrefixes == UNION {Prefixes(s) : s \in Sentences}

Stripped(s) ==
    LET kept[n \in 0..Len(s)] ==
            IF n = 0 THEN <<>>
            ELSE IF s[n].kind = "gap" THEN kept[n - 1] ELSE Append(kept[n - 1], s[n])
    IN  kept[Len(s)]

TrueIds(s) == {IdOf(s[i].text) : i \in {j \in DOMAIN s :
                  s[j].kind = "quoted" /\ s[j + 2].kind = "true"}}

-----------------------------------------------------------------------------
(* Properties *)

DocTypeOK ==
    /\ reader \in {"jsonc", "legacy", "none"}
    /\ written \in {NotWritten} \cup SUBSET (1..MaxId)
    /\ Range(ahead) \cup Range(doc) \subseteq
           [kind : Marks \cup {"quoted"}, text : Seq(0..9 \cup {Other})]
    /\ at \in DOMAIN Takes \cup Verdicts \cup {"line"}
    /\ key \in {"", "version", "opt_out_steam_ids"}
    /\ keys \subseteq {"version", "opt_out_steam_ids"}
    /\ id \in 0..MaxId
    /\ seenIds \subseteq 1..MaxId
    /\ parsed \subseteq 1..MaxId
    /\ out \subseteq 0..MaxId

\* The parser accepts the sentences of the language and nothing else, and then
\* publishes the IDs that are true; it refuses half way only what no sentence
\* begins like; and unless it accepts, the caller's set is left alone (README
\* "Numeric duplicate IDs are rejected even when their first value is false,
\* before publishing output").
ParserReadsTheLanguage ==
    reader = "jsonc" /\ written = NotWritten =>
        LET units == Stripped(doc)
        IN  CASE at = "accepted"   -> units \in Sentences /\ out = TrueIds(units)
              [] at = "rejected"   -> units \notin ViablePrefixes /\ out = Before
              [] at = "incomplete" -> units \notin Sentences /\ out = Before
              [] OTHER             -> out = Before

\* What the plugin writes it reads back, every ID of the width included: a
\* save never turns into a document that the next start refuses.
WrittenIsReadBack ==
    written # NotWritten =>
        /\ at \notin {"rejected", "incomplete"}
        /\ at = "accepted" => out = written

\* A legacy list is migrated as a whole or not at all: it is collected when all
\* its lines are distinct IDs, and else the caller's set is left alone.
LegacyListIsWhole ==
    reader = "legacy" =>
        LET ids == {IdOf(doc[i].text) : i \in DOMAIN doc}
            allIds == 0 \notin ids /\ Cardinality(ids) = Len(doc)
        IN  CASE at = "accepted" -> allIds /\ out = ids
              [] at = "rejected" -> ~allIds /\ out = Before
              [] OTHER           -> allIds /\ out = Before
=============================================================================
