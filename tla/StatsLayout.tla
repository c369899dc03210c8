----------------------------- MODULE StatsLayout -----------------------------
(***************************************************************************)
(* How the stats reader finds a counter or name vector in its mapping of the   *)
(* segment (PublishedVector in protocol.rs; vector_of, inner_vector and         *)
(* name_vector in client.rs).  The daemon publishes addresses of its own;       *)
(* taking away the base it publishes makes them offsets.  A vector has a        *)
(* header in front of its data: the length and the alignment.                 *)
(*                                                                         *)
(* A cell of the mapping is an address, a counter, half of a vector header or   *)
(* a character.  Its content is chosen when it is first read: the segment may   *)
(* hold anything, as it does when a publication is torn.                      *)
(***************************************************************************)
EXTENDS Bytes, FiniteSets

CONSTANTS
    Cells,          \* cells mapped
    Words,          \* contents a cell may have
    Bases           \* bases a daemon may publish

VARIABLES
    lphase,
    kind,           \* "simple", "combined" or "names"
    published,      \* the entry's data pointer
    base,
    checks,         \* the build has overflow checks
    memory,         \* the cells read so far
    outer,          \* the entry's vector: where its data are, and its length
    pointer, inner, \* the pointer of a row or name, and the row's vector
    rows, row       \* rows or names decoded, and the row under way

entryVars == <<kind, published, base, checks>>
layoutVars == <<lphase, entryVars, memory, outer, pointer, inner, rows, row>>

\* Addresses are as wide as a cell.
Address == Byte

\* What is mapped is smaller than the address space.
ASSUME LayoutAssumption == Words \subseteq Byte /\ Bases \subseteq Byte /\ Cells \in 0 .. Radix - 1

HeaderCells == 2        \* VECTOR_HEADER_BYTES
Kinds == {"simple", "combined", "names"}

\* The element_size of a row's vector: size_of u64, and of Counter.
ElementCells == IF kind = "combined" THEN 2 ELSE 1

NoVector == [data |-> 0, length |-> 0]

LayoutIdle ==
    /\ lphase = "idle" /\ kind = "simple" /\ published = 0 /\ base = 0 /\ checks = FALSE
    /\ memory = [c \in {} |-> 0] /\ outer = NoVector
    /\ pointer = 0 /\ inner = NoVector /\ rows = <<>> /\ row = <<>>

-----------------------------------------------------------------------------
(* PublishedVector *)

\* The mapping's contents from a on, n cells: those read before are known.
Loads(a, n) ==
    {m \in [a .. a + n - 1 -> Words] :
        \A c \in (a .. a + n - 1) \cap DOMAIN memory : m[c] = memory[c]}

\* memory with the cells just read.
Known(m) ==
    [c \in DOMAIN m \cup DOMAIN memory |-> IF c \in DOMAIN m THEN m[c] ELSE memory[c]]

\* resolve: does the header of the vector at p lie inside the mapping?
HeaderMapped(p) == p >= base /\ p - base >= HeaderCells /\ p - base <= Cells

\* 1 << (header[5] & 0x7f) exceeds the word from half of the values on.
ShiftOverflows(v) == v % (Radix \div 2) >= Radix \div 4

\* Mutant of ElementMapped: the end of the element is not looked at.
ElementMappedAtStart(v, i, size) ==
    /\ i < v.length
    /\ i * size < Radix /\ v.data + i * size < Cells

\* element: is element i inside the mapping?  The arithmetic is checked.
ElementMapped(v, i, size) ==
    /\ i < v.length
    /\ i * size < Radix /\ v.data + i * size < Radix /\ v.data + i * size + size < Radix
    /\ v.data + i * size + size <= Cells

Ends(how) ==
    lphase' = how /\ UNCHANGED <<entryVars, outer, pointer, inner, rows, row>>

\* resolve of the vector at p, which becomes the outer or the inner one.
Resolve(p, which) ==
    IF ~HeaderMapped(p) THEN Ends("error") /\ UNCHANGED memory
    ELSE \E m \in Loads(p - base - HeaderCells, HeaderCells) :
          LET v == [data |-> p - base, length |-> m[p - base - HeaderCells]] IN
            /\ memory' = Known(m)
            /\ IF checks /\ ShiftOverflows(m[p - base - 1]) THEN Ends("panic")
               ELSE /\ lphase' = which /\ row' = <<>>
                    /\ outer' = (IF which = "outer" THEN v ELSE outer)
                    /\ inner' = (IF which = "inner" THEN v ELSE inner)
                    /\ UNCHANGED <<entryVars, pointer, rows>>

-----------------------------------------------------------------------------
(* decode_entry of a vector *)

Locate(k, p, b) ==
    /\ lphase = "idle"
    /\ kind' = k /\ published' = p /\ base' = b /\ checks' \in BOOLEAN
    /\ lphase' = "entry"
    /\ UNCHANGED <<memory, outer, pointer, inner, rows, row>>

\* vector_of, and the beginning of name_vector.
VectorOf == lphase = "entry" /\ Resolve(published, "outer")

\* The next pointer of the outer vector.  A null pointer is an empty row.
NextPointer ==
    /\ lphase = "outer" /\ Len(rows) < outer.length
    /\ IF ~ElementMapped(outer, Len(rows), 1) THEN Ends("error") /\ UNCHANGED memory
       ELSE \E m \in Loads(outer.data + Len(rows), 1) :
             LET p == m[outer.data + Len(rows)] IN
             /\ memory' = Known(m)
             /\ IF p = 0 /\ kind # "names"
                THEN rows' = Append(rows, <<>>) /\ UNCHANGED <<lphase, pointer>>
                ELSE /\ pointer' = p /\ UNCHANGED rows
                     /\ lphase' = (IF kind = "names" THEN "name" ELSE "pointer")
             /\ UNCHANGED <<entryVars, outer, inner, row>>

InnerVector == lphase = "pointer" /\ Resolve(pointer, "inner")

\* A counter of the row, or a pair of packets and bytes.
NextColumn ==
    /\ lphase = "inner" /\ Len(row) < inner.length
    /\ IF ~ElementMapped(inner, Len(row), ElementCells) THEN Ends("error") /\ UNCHANGED memory
       ELSE LET a == inner.data + Len(row) * ElementCells IN
            \E m \in Loads(a, ElementCells) :
             /\ memory' = Known(m)
             /\ row' = Append(row, [c \in 1 .. ElementCells |-> m[a + c - 1]])
             /\ UNCHANGED <<lphase, entryVars, outer, pointer, inner, rows>>

RowEnds ==
    /\ lphase = "inner" /\ Len(row) >= inner.length
    /\ rows' = Append(rows, row) /\ lphase' = "outer"
    /\ UNCHANGED <<entryVars, memory, outer, pointer, inner, row>>

\* The n cells at a, with a terminator behind them unless the mapping ends there.
NameLoads(a, n) ==
    {m \in Loads(a, IF a + n < Cells THEN n + 1 ELSE n) :
        /\ \A c \in a .. a + n - 1 : m[c] # 0
        /\ a + n < Cells => m[a + n] = 0}

\* Mutant of Name: an address before the base is not told from one inside.
NameAnywhere ==
    /\ lphase = "name"
    /\ LET a == (pointer + Radix - base) % Radix IN
       IF a > Cells THEN Ends("panic") /\ UNCHANGED memory
       ELSE \E n \in 0 .. Cells - a : \E m \in NameLoads(a, n) :
             LET text == [i \in 1 .. n |-> m[a + i - 1]] IN
             /\ memory' = Known(m)
             /\ IF a + n = Cells \/ ~Utf8(text) THEN Ends("error")
                ELSE /\ rows' = Append(rows, text) /\ lphase' = "outer"
                     /\ UNCHANGED <<entryVars, outer, pointer, inner, row>>

\* name_vector: the bytes up to the terminator.  The slice of the mapping is
\* taken without looking whether it begins inside.
Name ==
    /\ lphase = "name"
    /\ LET a == pointer - base IN
       IF a < 0 THEN Ends("error") /\ UNCHANGED memory
       ELSE IF a > Cells THEN Ends("panic") /\ UNCHANGED memory
       ELSE \E n \in 0 .. Cells - a : \E m \in NameLoads(a, n) :
             LET text == [i \in 1 .. n |-> m[a + i - 1]] IN
             /\ memory' = Known(m)
             /\ IF a + n = Cells \/ ~Utf8(text) THEN Ends("error")
                ELSE /\ rows' = Append(rows, text) /\ lphase' = "outer"
                     /\ UNCHANGED <<entryVars, outer, pointer, inner, row>>

RowsEnd == lphase = "outer" /\ Len(rows) >= outer.length /\ Ends("ok") /\ UNCHANGED memory

LocateStep == VectorOf \/ NextPointer \/ InnerVector \/ NextColumn \/ RowEnds \/ Name \/ RowsEnd

-----------------------------------------------------------------------------
(* Properties *)

LayoutTypeOK ==
    /\ lphase \in {"idle", "entry", "outer", "pointer", "inner", "name", "ok", "error", "panic"}
    /\ kind \in Kinds /\ {published, base, pointer, outer.length, inner.length} \subseteq Byte
    /\ Len(rows) <= outer.length /\ Len(row) <= inner.length

\* What the segment says, in integers without end.  A cell nobody read is null.
At(c) == IF c \in DOMAIN memory THEN memory[c] ELSE 0
Inside(a, n) == a >= 0 /\ a + n <= Cells
VectorInside(p, size) ==
    /\ Inside(p - base - HeaderCells, HeaderCells)
    /\ Inside(p - base, size * At(p - base - HeaderCells))
Pointers == [r \in 1 .. At(published - base - HeaderCells) |-> At(published - base + r - 1)]
Counters(p) ==
    [c \in 1 .. At(p - base - HeaderCells) |->
        [i \in 1 .. ElementCells |-> At(p - base + (c - 1) * ElementCells + i - 1)]]
NamesText(p, text) ==
    /\ Inside(p - base, Len(text) + 1) /\ At(p - base + Len(text)) = 0 /\ Utf8(text)
    /\ \A i \in DOMAIN text : text[i] = At(p - base + i - 1) /\ text[i] # 0

\* decode_entry of a vector: what is returned lies inside the mapping as a
\* whole, and is what lies there; an error is returned only if a vector, a row,
\* a name or its terminator does not lie inside, or a name is no text.
VectorsAreRead ==
    /\ lphase = "ok" =>
        /\ VectorInside(published, 1)
        /\ Len(rows) = Len(Pointers)
        /\ \A r \in DOMAIN rows :
            IF kind = "names" THEN NamesText(Pointers[r], rows[r])
            ELSE IF Pointers[r] = 0 THEN rows[r] = <<>>
            ELSE VectorInside(Pointers[r], ElementCells) /\ rows[r] = Counters(Pointers[r])
    /\ lphase = "error" =>
        \/ ~VectorInside(published, 1)
        \/ \E r \in DOMAIN Pointers :
            IF kind = "names" THEN \A n \in 0 .. Cells :
                    ~NamesText(Pointers[r], [i \in 1 .. n |-> At(Pointers[r] - base + i - 1)])
            ELSE Pointers[r] # 0 /\ ~VectorInside(Pointers[r], ElementCells)

\* A segment that is not what the reader expects makes it panic in two cases
\* only: a name's pointer leads beyond the mapping, or the alignment in a
\* vector's header is too large a shift and the build checks for that.
PanicsAreKnown ==
    lphase = "panic" =>
        \/ kind = "names" /\ pointer - base > Cells
        \/ checks /\ \E v \in {published, pointer} : ShiftOverflows(At(v - base - 1))
=============================================================================
