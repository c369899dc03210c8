---------------------------- MODULE MessageTable ----------------------------
(***************************************************************************)
(* The message table a client imports when it connects (table.rs and          *)
(* Client::connect): a count and, for each message, its id, the length of its   *)
(* name and the name.  Integers take one, two, four or nine bytes; the low      *)
(* bits of the first tell which.                                             *)
(*                                                                         *)
(* The table does not say how long it is: the client is given everything from   *)
(* the table's address to the end of the region.                              *)
(***************************************************************************)
EXTENDS Bytes

LOCAL INSTANCE SequencesExt

CONSTANTS
    Tables,     \* what daemons publish: sequences of entries, an id and a name each
    Rests       \* what may lie behind a table in the region

VARIABLES
    tphase,
    input,          \* the bytes not taken yet
    count,          \* entries still to be read
    entries,        \* those read
    table, cut      \* history: the daemon's table, and whether its end is missing

tableVars == <<tphase, input, count, entries, table, cut>>

Entry(i, n) == [id |-> i, name |-> n]

ASSUME TablesAssumption ==
    /\ Rests \subseteq Seq(Byte)
    /\ Tables \subseteq Seq([id : 0 .. Power[8] - 1, name : Seq(Byte)])
    /\ \A t \in Tables :
        Len(t) < Power[4] /\ \A k \in DOMAIN t : Len(t[k].name) < Power[8]

-----------------------------------------------------------------------------
(* Integers.  128 is half of what a byte holds, 16384 a quarter of what two do. *)

TwoFrom == Radix \div 2
FourFrom == TwoFrom + Power[2] \div 4
NineFrom == FourFrom + Power[4] \div 8

\* The daemon may use any form that holds the integer.
Forms(n) ==
    UNION {IF n < TwoFrom THEN {ToLe(2 * n + 1, 1)} ELSE {},
           IF n >= TwoFrom /\ n < FourFrom THEN {ToLe(4 * (n - TwoFrom) + 2, 2)} ELSE {},
           IF n >= FourFrom /\ n < NineFrom THEN {ToLe(8 * (n - FourFrom) + 4, 4)} ELSE {},
           {<<0>> \o ToLe(n, 8)}}

\* Bytes of the integer whose first byte is b.
Width(b) ==
    CASE b % 2 = 1 -> 1
      [] b % 4 = 2 -> 2
      [] b % 8 = 4 -> 4
      [] OTHER -> 9

\* Mutant of IntegerOf: four bytes continue where one byte ends.
IntegerOfUnshifted(s) ==
    CASE Len(s) = 1 -> s[1] \div 2
      [] Len(s) = 2 -> TwoFrom + FromLe(s) \div 4
      [] Len(s) = 4 -> TwoFrom + FromLe(s) \div 8
      [] Len(s) = 9 -> FromLe(Tail(s))

\* read_integer of the bytes it takes.
IntegerOf(s) ==
    CASE Len(s) = 1 -> s[1] \div 2
      [] Len(s) = 2 -> TwoFrom + FromLe(s) \div 4
      [] Len(s) = 4 -> FourFrom + FromLe(s) \div 8
      [] Len(s) = 9 -> FromLe(Tail(s))

\* take: n bytes of s if it has them, and what is behind them.
Has(s, n) == Len(s) >= n
Behind(s, n) == SubSeq(s, n + 1, Len(s))

IntegerFits(s) == Has(s, 1) /\ Has(s, Width(s[1]))
FirstInteger(s) == IntegerOf(SubSeq(s, 1, Width(s[1])))
AfterInteger(s) == Behind(s, Width(s[1]))

-----------------------------------------------------------------------------
(* Decoding *)

TableIdle ==
    /\ tphase = "idle" /\ input = <<>> /\ count = 0 /\ entries = <<>>
    /\ table = <<>> /\ cut = FALSE

\* The daemon's encodings of a name, an entry and a table.
NameForms(name) == {l \o name : l \in Forms(Len(name))}
EntryForms(e) == {i \o n : i \in Forms(e.id), n \in NameForms(e.name)}
Encodings(t) ==
    LET more[k \in 0 .. Len(t)] ==
          IF k = 0 THEN {ToBe(Len(t), 4)}
          ELSE {s \o e : s \in more[k - 1], e \in EntryForms(t[k])}
    IN  more[Len(t)]

\* Client::connect: the region from the table's address on is decoded.  The
\* region goes on behind the table, or ends within it.
Import(t) ==
    /\ tphase = "idle"
    /\ table' = t
    /\ \E s \in Encodings(t) :
        \/ input' \in {s \o r : r \in Rests} /\ cut' = FALSE
        \/ input' \in {SubSeq(s, 1, n) : n \in 0 .. Len(s) - 1} /\ cut' = TRUE
    /\ tphase' = "count"
    /\ UNCHANGED <<count, entries>>

Refuse == tphase' = "error" /\ UNCHANGED <<input, count, entries, table, cut>>

ReadCount ==
    /\ tphase = "count"
    /\ IF Has(input, 4)
       THEN /\ count' = FromBe(SubSeq(input, 1, 4)) /\ input' = Behind(input, 4)
            /\ tphase' = "entries" /\ UNCHANGED <<entries, table, cut>>
       ELSE Refuse

\* Mutant of ReadEntry: the id may be any integer.
ReadEntryAnyId ==
    /\ tphase = "entries" /\ count > 0
    /\ LET named == AfterInteger(input)
           n == FirstInteger(named)
           text == AfterInteger(named)
       IN  IF IntegerFits(input) /\ IntegerFits(named) /\ Has(text, n) /\ Utf8(SubSeq(text, 1, n))
           THEN /\ entries' = Append(entries, Entry(FirstInteger(input), SubSeq(text, 1, n)))
                /\ input' = Behind(text, n) /\ count' = count - 1
                /\ UNCHANGED <<tphase, table, cut>>
           ELSE Refuse

\* An entry: the id has to fit a u16, the name to be there and to be UTF-8.
ReadEntry ==
    /\ tphase = "entries" /\ count > 0
    /\ LET named == AfterInteger(input)
           n == FirstInteger(named)
           text == AfterInteger(named)
       IN  IF /\ IntegerFits(input) /\ FirstInteger(input) < Power[2]
              /\ IntegerFits(named) /\ Has(text, n) /\ Utf8(SubSeq(text, 1, n))
           THEN /\ entries' = Append(entries, Entry(FirstInteger(input), SubSeq(text, 1, n)))
                /\ input' = Behind(text, n) /\ count' = count - 1
                /\ UNCHANGED <<tphase, table, cut>>
           ELSE Refuse

TableEnds ==
    /\ tphase = "entries" /\ count = 0
    /\ tphase' = "ok"
    /\ UNCHANGED <<input, count, entries, table, cut>>

ImportStep == ReadCount \/ ReadEntry \/ TableEnds

\* collect() into a HashMap: of two entries with one name the later counts.
message_id(name) ==
    LET k == SelectLastInSeq(entries, LAMBDA e : e.name = name)
    IN  IF k = 0 THEN <<>> ELSE <<entries[k].id>>

-----------------------------------------------------------------------------
(* Properties *)

TableTypeOK ==
    /\ tphase \in {"idle", "count", "entries", "ok", "error"}
    /\ count \in Nat /\ cut \in BOOLEAN /\ input \in Seq(Byte)
    /\ entries \in Seq([id : 0 .. Power[2] - 1, name : Seq(Byte)])

Importable(t) == \A k \in DOMAIN t : t[k].id < Power[2] /\ Utf8(t[k].name)

\* deserialize_message_table: a table that is all there is imported, whatever
\* form its integers have and whatever lies behind it; it is refused only for
\* an id that is no u16 or a name that is no text.  Where the region ends
\* within the table the import fails: no entry is made up and none left out.
\* A message's id is the one its last entry gives.
TablesAreImported ==
    /\ tphase = "ok" => ~cut /\ Importable(table) /\ entries = table
    /\ tphase = "error" => cut \/ ~Importable(table)
    /\ tphase = "ok" =>
        \A k \in DOMAIN table :
            (\A j \in DOMAIN table : j > k => table[j].name # table[k].name) =>
                message_id(table[k].name) = <<table[k].id>>
=============================================================================
