--------------------------- MODULE SignatureScan ---------------------------
(***************************************************************************)
(* How the plugin finds a class's virtual table in a loaded library:       *)
(* SignatureIterator of utils/module.h, and CModule::FindVirtualTable of   *)
(* utils/plat_unix.cpp, which runs it three times: for the class's name,   *)
(* for the type_info that points to the name, and for the table that       *)
(* points to the type_info.                                                *)
(*                                                                         *)
(* The memory is one sequence of words, the sections one after the other   *)
(* and then whatever else is mapped behind them; an address is an index,   *)
(* and nothing is mapped behind the last.  What the compiler puts there is *)
(* external: the pieces below, in any order.  The code compares byte by    *)
(* byte; a match that is not aligned to a word is left out.                *)
(***************************************************************************)
EXTENDS Naturals, Sequences, FiniteSets, SequencesExt

CONSTANT Images     \* the images to search

\* The pieces of an image.  The name of a pointer to the class ends in the name
\* of the class; a secondary table belongs to a second base of the class; behind
\* the sections a reference to the type may stand after a zero, as in a table of
\* offsets.
Names  == {"name", "derivedName", "pointerName"}
Data   == {"type", "table", "secondTable", "derivedType", "pointerType"}
Further == {"reference", "filler"}
Pieces == Names \cup Data \cup Further

AllPieces(img) == img.rodata \o img.relro \o img.local \o img.rest

ImageTypes == [rodata : Seq(Names), relro : Seq(Data), local : Seq(Data), rest : Seq(Further)]

\* What a piece points to.
PointsTo == [name |-> {}, derivedName |-> {}, pointerName |-> {}, type |-> {"name"},
             table |-> {"type"}, secondTable |-> {"type"},
             derivedType |-> {"derivedName", "type"}, pointerType |-> {"pointerName", "type"},
             reference |-> {"type"}, filler |-> {}]

\* A library the linker has put together: names are read-only, the other pieces
\* hold addresses to relocate, and what they point to is there, once.
ASSUME ImagesAssumption == \A img \in Images :
    /\ img \in ImageTypes
    /\ IsInjective(AllPieces(img))
    /\ \A p \in Range(AllPieces(img)) : PointsTo[p] \subseteq Range(AllPieces(img))

VARIABLES
    image,      \* the image that is searched
    phase,      \* what is searched for, or the section in which the table is
    cursor,     \* m_pCurrent of the iterator that runs
    target,     \* the address whose occurrences are searched for
    found       \* the result

searchVars == <<image, phase, cursor, target, found>>

Null == 0

Word(kind)  == [kind |-> kind, to |-> Null]
Pointer(to) == [kind |-> "pointer", to |-> to]

ClassName == <<Word("length"), Word("class"), Word("nul")>>

SizeOf == [name |-> 3, derivedName |-> 2, pointerName |-> 4, type |-> 2, table |-> 3,
           secondTable |-> 3, derivedType |-> 3, pointerType |-> 4, reference |-> 2,
           filler |-> 2]

\* The words of the first pieces of a list.
Words(pieces) ==
    LET words[n \in 0..Len(pieces)] == IF n = 0 THEN 0 ELSE words[n - 1] + SizeOf[pieces[n]]
    IN  words

AddressOf(img, piece) ==
    LET all == AllPieces(img)
        i   == CHOOSE k \in DOMAIN all : all[k] = piece
    IN  1 + Words(all)[i - 1]

Content(img, piece) ==
    LET To(p) == Pointer(AddressOf(img, p))
    IN  CASE piece = "name"        -> ClassName
          [] piece = "derivedName" -> <<Word("other"), Word("nul")>>
          [] piece = "pointerName" -> <<Word("P")>> \o ClassName
          [] piece = "type"        -> <<Word("other"), To("name")>>
          [] piece = "table"       -> <<Word("zero"), To("type"), Word("other")>>
          [] piece = "secondTable" -> <<Word("offset"), To("type"), Word("other")>>
          [] piece = "derivedType" -> <<Word("other"), To("derivedName"), To("type")>>
          [] piece = "pointerType" ->
                <<Word("other"), To("pointerName"), Word("zero"), To("type")>>
          [] piece = "reference"   -> <<Word("zero"), To("type")>>
          [] piece = "filler"      -> <<Word("other"), Word("other")>>

MemoryOf(img) ==
    LET all == AllPieces(img)
        text[n \in 0..Len(all)] ==
            IF n = 0 THEN <<>> ELSE text[n - 1] \o Content(img, all[n])
    IN  text[Len(all)]

Memory == MemoryOf(image)

\* The pieces before a section.
PiecesBefore(section) ==
    CASE section = "rodata" -> 0
      [] section = "relro"  -> Len(image.rodata)
      [] section = "local"  -> Len(image.rodata) + Len(image.relro)

Base(section) == 1 + Words(AllPieces(image))[PiecesBefore(section)]

Size(section) ==
    Words(AllPieces(image))[PiecesBefore(section) + Len(image[section])]
        - Words(AllPieces(image))[PiecesBefore(section)]

-----------------------------------------------------------------------------
(* SignatureIterator *)

\* Where FindNext looks: the whole size again, from wherever the last match left
\* the cursor.
Window(section) == cursor..(cursor + Size(section) - 1)

Matches(a, signature) ==
    /\ a + Len(signature) - 1 <= Len(Memory)
    /\ SubSeq(Memory, a, a + Len(signature) - 1) = signature

\* FindNext: the first match, or Null.
FindNext(section, signature) ==
    LET hits == {a \in Window(section) : Matches(a, signature)}
    IN  IF hits = {} THEN Null ELSE CHOOSE a \in hits : \A b \in hits : a <= b

\* Without a match FindNext compares word after word to the end of its window: it
\* faults if it gets to the first word that is not mapped, be it after a match of
\* the words before.
Faults(section, signature) ==
    \E a \in Window(section), k \in 0..(Len(signature) - 1) :
        /\ a + k = Len(Memory) + 1
        /\ SubSeq(Memory, a, Len(Memory)) = SubSeq(signature, 1, k)

-----------------------------------------------------------------------------
(* FindVirtualTable *)

SearchInit ==
    /\ image \in Images
    /\ phase = "name"
    /\ cursor = 1
    /\ target = Null
    /\ found = Null

\* Nothing matches: nothing is returned, if the scan gets that far.
Misses(section, signature) ==
    /\ phase' = IF Faults(section, signature) THEN "faulted" ELSE "done"
    /\ UNCHANGED <<image, cursor, target, found>>

\* The class's name, wherever a string that ends like it occurs first.
FindName ==
    /\ phase = "name"
    /\ LET a == FindNext("rodata", ClassName)
       IN  IF a = Null THEN Misses("rodata", ClassName)
           ELSE /\ phase' = "type"
                /\ cursor' = Base("relro")
                /\ target' = a
                /\ UNCHANGED <<image, found>>

\* The first pointer to the name: the type_info begins a word before it.
FindType ==
    /\ phase = "type"
    /\ LET a == FindNext("relro", <<Pointer(target)>>)
       IN  IF a = Null THEN Misses("relro", <<Pointer(target)>>)
           ELSE /\ phase' = "relro"
                /\ cursor' = Base("relro")
                /\ target' = a - 1
                /\ UNCHANGED <<image, found>>

\* Mutant: any pointer to the type_info will do.
AnyTable(a) == TRUE

\* Mutant: the test of the offset the wrong way round.
IsOtherTable(a) == Memory[a - 1] # Word("zero")

\* The offset to the top of the object, before the type_info, is zero.
IsPrimaryTable(a) == Memory[a - 1] = Word("zero")

\* Mutant: the names are searched for a table as well.
NextSectionRodata == "rodata"

\* A table is in .data.rel.ro or else in .data.rel.ro.local.
NextSection == "local"

\* The pointers to the type_info in turn, then those of the other section.
FindTable ==
    /\ phase \in {"relro", "local"}
    /\ UNCHANGED <<image, target>>
    /\ LET a == FindNext(phase, <<Pointer(target)>>)
       IN  \/ /\ a # Null /\ IsPrimaryTable(a)
              /\ found' = a + 1
              /\ phase' = "done"
              /\ UNCHANGED cursor
           \/ /\ a # Null /\ ~IsPrimaryTable(a)
              /\ cursor' = a + 1
              /\ UNCHANGED <<phase, found>>
           \/ /\ a = Null /\ phase = "relro"
              /\ ~Faults(phase, <<Pointer(target)>>)
              /\ phase' = NextSection
              /\ cursor' = Base(NextSection)
              /\ UNCHANGED found
           \/ /\ a = Null
              /\ phase = "local" \/ Faults(phase, <<Pointer(target)>>)
              /\ Misses(phase, <<Pointer(target)>>)

SearchNext == FindName \/ FindType \/ FindTable

SearchSpec == SearchInit /\ [][SearchNext]_searchVars

-----------------------------------------------------------------------------
(* Properties *)

SearchTypeOK ==
    /\ image \in ImageTypes
    /\ phase \in {"name", "type", "relro", "local", "done", "faulted", "idle"}
    /\ {cursor, target, found} \subseteq 0..(Len(Memory) + 1)

\* In s, q does not come before p.
NotBefore(s, q, p) ==
    q \in Range(s) => \E i \in DOMAIN s : s[i] = p /\ q \notin Range(SubSeq(s, 1, i))

\* What belongs to a pointer to the class, whose name ends in the name of the
\* class and whose type_info looks like a table, comes after what belongs to the
\* class; so does a reference that looks like a table.
ClassFirst(img) ==
    /\ NotBefore(AllPieces(img), "pointerName", "name")
    /\ NotBefore(AllPieces(img), "pointerType", "table")
    /\ NotBefore(AllPieces(img), "reference", "table")

\* The vector the plugin hooks is the class's primary table, whatever else
\* points to the type_info and in whichever section the table is, and nothing if
\* there is none, in a library that holds the class's own pieces first.
TableIsTheClass ==
    phase = "done" /\ ClassFirst(image) =>
        found = IF "type" \in Range(image.relro) /\ "table" \in Range(AllPieces(image))
                THEN AddressOf(image, "table") + 2
                ELSE Null

\* FindNext scans the whole size again from behind each match, past the end of
\* its section and, with enough matches, past all that is mapped.  A library that
\* has the table is searched without that, however many pointers to the type_info
\* come before the table and wherever the mapping ends: the table stops the scan.
TableStopsTheScan ==
    ClassFirst(image) /\ "table" \in Range(AllPieces(image)) => phase # "faulted"
=============================================================================
