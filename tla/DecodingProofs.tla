--------------------------- MODULE DecodingProofs ---------------------------
(***************************************************************************)
(* Proofs about Decoding: what comes from the daemon is followed only inside    *)
(* the region, a vector of the stats segment is read for what it is, and a      *)
(* message and a message table, by the lemmas of CodecProofs, for what was      *)
(* written.                                                                   *)
(***************************************************************************)
EXTENDS Decoding, CodecProofs, SequenceTheorems, Induction, TLAPS

-----------------------------------------------------------------------------
(* Addresses in the API region *)

\* Which addresses n bytes at a take: an inclusion of intervals is an inclusion
\* of their ends.
LEMMA IntervalInside ==
    ASSUME NEW a \in Int, NEW n \in Nat, n > 0, NEW b \in Int, NEW e \in Int
    PROVE  (a .. a + n - 1) \subseteq (b .. e - 1) <=> b <= a /\ a + n <= e
<1>1. ASSUME (a .. a + n - 1) \subseteq (b .. e - 1) PROVE b <= a /\ a + n <= e
  <2>1. a \in a .. a + n - 1 /\ a + n - 1 \in a .. a + n - 1
    OBVIOUS
  <2>2. a \in b .. e - 1 /\ a + n - 1 \in b .. e - 1
    BY <1>1, <2>1
  <2> QED
    BY <2>2
<1>2. ASSUME b <= a, a + n <= e PROVE (a .. a + n - 1) \subseteq (b .. e - 1)
  BY <1>2
<1> QED
  BY <1>1, <1>2

\* MsgBuf::from_address accepts the payloads that lie in the region with the
\* prefix in front of them.
LEMMA MessageFollowed ==
    ASSUME NEW region \in Regions, NEW a \in Addresses, NEW length \in Halves,
           FollowMessage(region, a, length)
    PROVE  OnlyTheRegionIsFollowed'
<1>1. /\ region.base \in Nat \ {0} /\ region.size \in Nat /\ region.base + region.size < AddressSpace
      /\ a \in Nat /\ length \in Nat /\ PrefixSize \in Nat /\ PrefixSize > 0 /\ AddressSpace \in Nat
  BY RegionsAssumption, SizesAssumption DEF Addresses
<1>2. /\ request'.what = "message" /\ request'.region = region /\ request'.at = a
      /\ request'.length = length /\ verdict' = from_address(region, a, length)
  BY DEF FollowMessage
<1>3. (Owned(a - PrefixSize, PrefixSize + length))'
      <=> region.base <= a - PrefixSize /\ a + length <= region.base + region.size
  <2>1. /\ a - PrefixSize \in Int /\ PrefixSize + length \in Nat /\ PrefixSize + length > 0
        /\ region.base \in Int /\ region.base + region.size \in Int
    BY <1>1
  <2>2. (a - PrefixSize) + (PrefixSize + length) = a + length
    BY <1>1
  <2> QED
    BY <1>2, <2>1, <2>2, IntervalInside DEF Owned, End
<1>4. verdict'.tag = "ok"
      <=> /\ region.base <= a - PrefixSize /\ a + length <= region.base + region.size
          /\ IsMultipleOf(a - PrefixSize, PrefixAlign)
  <2> HIDE DEF IsMultipleOf
  <2> QED
    BY <1>1, <1>2 DEF from_address, contains_range, End, Verdict
<1> QED
  BY <1>2, <1>3, <1>4 DEF OnlyTheRegionIsFollowed

\* SvmRegion::remaining_from gives all of the region that is left, and no more.
LEMMA TableFollowed ==
    ASSUME NEW region \in Regions, NEW a \in Addresses, FollowTable(region, a)
    PROVE  OnlyTheRegionIsFollowed'
<1>1. /\ region.base \in Nat /\ region.size \in Nat /\ region.base + region.size < AddressSpace
      /\ a \in Nat /\ AddressSpace \in Nat
  BY RegionsAssumption DEF Addresses
<1>2. /\ request'.what = "table" /\ request'.region = region /\ request'.at = a
      /\ verdict' = remaining_from(region, a)
  BY DEF FollowTable
<1>3. verdict'.tag = "ok" <=> a \in region.base .. End(region)
  BY <1>1, <1>2 DEF remaining_from, End, Verdict
<1>4. ASSUME verdict'.tag = "ok"
      PROVE  (Owned(a, verdict.bytes))' /\ ~(Owned(a, verdict.bytes + 1))'
  <2>1. verdict'.bytes = End(region) - a /\ region.base <= a /\ a <= End(region)
        /\ End(region) \in Nat
    BY <1>1, <1>2, <1>4 DEF remaining_from, End, Verdict
  <2>2. (Owned(a, verdict.bytes))'
    BY <1>1, <1>2, <2>1 DEF Owned
  <2>3. (a .. a + (verdict'.bytes + 1) - 1) \subseteq (region.base .. End(region) - 1)
        <=> region.base <= a /\ a + (verdict'.bytes + 1) <= End(region)
    BY <1>1, <2>1, IntervalInside
  <2> QED
    BY <1>1, <1>2, <2>1, <2>2, <2>3 DEF Owned
<1> QED
  BY <1>2, <1>3, <1>4 DEF OnlyTheRegionIsFollowed

\* ShmemHeader::validate accepts a header and a queue of pointers that lie in the
\* region with the queue's whole ring.
LEMMA HeaderFollowed ==
    ASSUME NEW region \in Regions, NEW a \in Addresses, NEW s \in BOOLEAN, NEW q \in Queues,
           FollowHeader(region, a, s, q)
    PROVE  OnlyTheRegionIsFollowed'
<1> DEFINE ring == q.maxsize * q.elsize
<1>1. /\ region.base \in Nat \ {0} /\ region.size \in Nat /\ region.base + region.size < AddressSpace
      /\ a \in Nat /\ AddressSpace \in Nat
  BY RegionsAssumption DEF Addresses
<1>2. /\ q.at \in Nat /\ q.maxsize \in Nat /\ q.elsize \in Nat
      /\ q.head \in Nat /\ q.tail \in Nat /\ q.cursize \in Nat
  <2>1. q \in [at : Addresses \ {0}, maxsize : Halves, elsize : Halves,
                head : Halves, tail : Halves, cursize : Halves]
    BY Zenon DEF Queues
  <2>2. /\ q.at \in Addresses /\ q.maxsize \in Halves /\ q.elsize \in Halves
        /\ q.head \in Halves /\ q.tail \in Halves /\ q.cursize \in Halves
    BY <2>1
  <2>3. Halves \subseteq Nat /\ Addresses \subseteq Nat
    BY RegionsAssumption DEF Addresses
  <2> QED
    BY <2>2, <2>3
<1>3. ring \in Nat
  BY <1>2
<1>4. HeaderSize \in Nat \ {0} /\ QueueSize \in Nat \ {0} /\ PointerSize \in Nat \ {0}
  BY SizesAssumption
<1>5. /\ request'.what = "header" /\ request'.region = region /\ request'.at = a
      /\ request'.supported = s /\ request'.queue = q /\ verdict' = validate(region, a, s, q)
  BY DEF FollowHeader
<1>6. (Owned(a, HeaderSize))' <=> contains_range(region, a, HeaderSize)
  <2>1. (a .. a + HeaderSize - 1) \subseteq (region.base .. End(region) - 1)
        <=> region.base <= a /\ a + HeaderSize <= End(region)
    BY <1>1, <1>4, IntervalInside DEF End
  <2> QED
    BY <1>1, <1>4, <1>5, <2>1 DEF Owned, contains_range, End
<1>7. (Owned(q.at, QueueSize + ring))' <=> region.base <= q.at /\ q.at + (QueueSize + ring) <= End(region)
  <2>1. QueueSize + ring \in Nat /\ QueueSize + ring > 0 /\ End(region) \in Int
    BY <1>1, <1>3, <1>4 DEF End
  <2> HIDE DEF ring
  <2>2. (q.at .. q.at + (QueueSize + ring) - 1) \subseteq (region.base .. End(region) - 1)
        <=> region.base <= q.at /\ q.at + (QueueSize + ring) <= End(region)
    BY <1>1, <1>2, <2>1, IntervalInside
  <2> QED
    BY <1>5, <2>2 DEF Owned
<1> DEFINE sound == /\ q.maxsize # 0 /\ q.elsize # 0
                    /\ q.head < q.maxsize /\ q.tail < q.maxsize /\ q.cursize <= q.maxsize
<1>8. contains_range(region, q.at, QueueSize) =>
        (attach(q, End(region) - q.at).tag = "ok"
         <=> IsMultipleOf(q.at, CacheLine) /\ sound /\ q.at + (QueueSize + ring) <= End(region))
  <2> HIDE DEF IsMultipleOf
  <2>1. attach(q, End(region) - q.at).tag = "ok"
        <=> /\ IsMultipleOf(q.at, CacheLine) /\ sound
            /\ End(region) - q.at >= QueueSize
            /\ QueueSize + ring < AddressSpace /\ QueueSize + ring <= End(region) - q.at
    BY DEF attach, Verdict
  <2> HIDE DEF ring, sound
  <2> QED
    BY <1>1, <1>2, <1>3, <1>4, <2>1 DEF contains_range, End
<1>9. verdict'.tag = "ok"
      <=> /\ IsMultipleOf(a, HeaderAlign) /\ contains_range(region, a, HeaderSize) /\ s
          /\ contains_range(region, q.at, QueueSize)
          /\ attach(q, End(region) - q.at).tag = "ok" /\ q.elsize = PointerSize
  <2> HIDE DEF IsMultipleOf
  <2> QED
    BY <1>5 DEF validate, Verdict
<1>10. region.base <= q.at /\ q.at + (QueueSize + ring) <= End(region)
       => contains_range(region, q.at, QueueSize)
  <2> HIDE DEF ring
  <2> QED
    BY <1>1, <1>2, <1>3, <1>4 DEF contains_range, End
<1>11. contains_range(region, q.at, QueueSize) => region.base <= q.at
  BY <1>1, <1>2 DEF contains_range
<1>12. /\ q.maxsize > 0 <=> q.maxsize # 0
       /\ {q.head, q.tail} \subseteq 0 .. q.maxsize - 1 <=> q.head < q.maxsize /\ q.tail < q.maxsize
       /\ q.elsize = PointerSize => q.elsize # 0
  <2>1. q.head \in 0 .. q.maxsize - 1 <=> q.head < q.maxsize
    BY <1>2
  <2>2. q.tail \in 0 .. q.maxsize - 1 <=> q.tail < q.maxsize
    BY <1>2
  <2> QED
    BY <1>2, <1>4, <2>1, <2>2
<1>13. verdict'.tag = "ok"
       <=> /\ (Owned(a, HeaderSize))' /\ IsMultipleOf(a, HeaderAlign)
           /\ s /\ IsMultipleOf(q.at, CacheLine)
           /\ (Owned(q.at, QueueSize + ring))'
           /\ q.elsize = PointerSize /\ q.maxsize > 0
           /\ {q.head, q.tail} \subseteq 0 .. q.maxsize - 1
           /\ q.cursize <= q.maxsize
  <2> HIDE DEF ring
  <2> QED
    BY <1>6, <1>7, <1>8, <1>9, <1>10, <1>11, <1>12
<1> QED
  BY <1>5, <1>13 DEF OnlyTheRegionIsFollowed, Owned

\* One address is followed at most, by one of the three.
LEMMA RangeStepFollows ==
    ASSUME RangeStep
    PROVE  OnlyTheRegionIsFollowed'
BY MessageFollowed, TableFollowed, HeaderFollowed DEF RangeStep

\* What is followed belongs to the region, and nothing that does is refused.
THEOREM RegionIsFollowed == DecodingSpec => []OnlyTheRegionIsFollowed
<1>1. DecodingInit => OnlyTheRegionIsFollowed
  BY DEF DecodingInit, RangeIdle, OnlyTheRegionIsFollowed
<1>2. OnlyTheRegionIsFollowed /\ [DecodingNext]_decodingVars => OnlyTheRegionIsFollowed'
  <2> SUFFICES ASSUME OnlyTheRegionIsFollowed, [DecodingNext]_decodingVars
               PROVE  OnlyTheRegionIsFollowed'
    OBVIOUS
  <2>1. CASE RangeStep
    BY <2>1, RangeStepFollows
  <2>2. CASE UNCHANGED rangeVars
    BY <2>2 DEF rangeVars, OnlyTheRegionIsFollowed, Owned
  <2> QED
    BY <2>1, <2>2 DEF DecodingNext, AMessage, ATable, AVector, AnAddress, decodingVars
<1> QED
  BY <1>1, <1>2, PTL DEF DecodingSpec

-----------------------------------------------------------------------------
(* Vectors of the stats segment *)

\* What the reader keeps of a vector, and of its rows and names.
Vectors == [data : Nat, length : Byte]
Items == Seq(Words) \cup Seq(Seq(Words))

LayoutTypes ==
    /\ lphase \in {"idle", "entry", "outer", "pointer", "inner", "name", "ok", "error", "panic"}
    /\ kind \in Kinds /\ checks \in BOOLEAN
    /\ published \in Byte /\ base \in Byte /\ pointer \in Byte
    /\ memory \in [DOMAIN memory -> Words]
    /\ outer \in Vectors /\ inner \in Vectors
    /\ rows \in Seq(Items) /\ row \in Seq(Seq(Words))
    /\ Len(rows) <= outer.length /\ Len(row) <= inner.length

\* The reader has not looked at the vector yet.
UnreadInv == lphase \in {"idle", "entry"} => rows = <<>>

\* In the mapping mem, x is the text at the address p of the base b,
NameIs(mem, b, p, x) ==
    /\ p >= b /\ x \in Seq(Words) /\ p - b + Len(x) < Cells
    /\ p - b + Len(x) \in DOMAIN mem /\ mem[p - b + Len(x)] = 0
    /\ Utf8(x)
    /\ \A i \in 1 .. Len(x) :
        p - b + i - 1 \in DOMAIN mem /\ x[i] = mem[p - b + i - 1] /\ x[i] # 0

\* v is the counter of size cells in column c of the row at p,
ColumnIs(mem, b, size, p, c, v) ==
    /\ p - b + (c - 1) * size + size <= Cells
    /\ v = [i \in 1 .. size |-> mem[p - b + (c - 1) * size + i - 1]]
    /\ \A i \in 1 .. size : p - b + (c - 1) * size + i - 1 \in DOMAIN mem

\* v is the vector at p,
VectorIs(mem, b, p, v) ==
    /\ p - b >= HeaderCells /\ p - b <= Cells /\ v.data = p - b
    /\ p - b - HeaderCells \in DOMAIN mem /\ v.length = mem[p - b - HeaderCells]

\* x is the row of counters at p,
RowIs(mem, b, size, p, x) ==
    /\ VectorIs(mem, b, p, [data |-> p - b, length |-> Len(x)])
    /\ x \in Seq(Seq(Words))
    /\ \A c \in 1 .. Len(x) : ColumnIs(mem, b, size, p, c, x[c])

CellsOf(k) == IF k = "combined" THEN 2 ELSE 1

\* x is the row or the name that the pointer p leads to.
ItemIs(mem, k, b, p, x) ==
    IF k = "names" THEN NameIs(mem, b, p, x)
    ELSE IF p = 0 THEN x = <<>>
    ELSE RowIs(mem, b, CellsOf(k), p, x)

\* What has been read of the entry's vector is what lies there;
OuterInv ==
    lphase \in {"outer", "pointer", "inner", "name"} =>
        /\ VectorIs(memory, base, published, outer)
        /\ \A r \in 1 .. Len(rows) :
            /\ outer.data + r <= Cells /\ outer.data + r - 1 \in DOMAIN memory
            /\ ItemIs(memory, kind, base, memory[outer.data + r - 1], rows[r])

\* the pointer is the one whose turn it is;
PointerInv ==
    lphase \in {"pointer", "inner", "name"} =>
        /\ lphase = "name" <=> kind = "names"
        /\ Len(rows) < outer.length /\ outer.data + Len(rows) < Cells
        /\ outer.data + Len(rows) \in DOMAIN memory /\ memory[outer.data + Len(rows)] = pointer
        /\ kind # "names" => pointer # 0

\* and so is what has been read of its row.
InnerInv ==
    lphase = "inner" =>
        /\ VectorIs(memory, base, pointer, inner)
        /\ \A c \in 1 .. Len(row) : ColumnIs(memory, base, CellsOf(kind), pointer, c, row[c])

LayoutInv ==
    /\ LayoutTypes /\ UnreadInv /\ OuterInv /\ PointerInv /\ InnerInv
    /\ VectorsAreRead /\ PanicsAreKnown

\* The cells read before stay known as they were.
Kept(mem, more) == \A c \in DOMAIN mem : c \in DOMAIN more /\ more[c] = mem[c]

\* Bytes, words and the size of the mapping are natural numbers.
LEMMA Numbers ==
    /\ Radix \in Nat /\ Cells \in Nat /\ Cells < Radix /\ 0 \in Byte
    /\ Byte \subseteq Nat /\ Words \subseteq Nat /\ Words \subseteq Byte
BY RadixAssumption, LayoutAssumption DEF Byte

\* Reading n cells from a on.
LEMMA Loaded ==
    ASSUME NEW a \in Int, NEW n \in Nat, NEW m \in Loads(a, n),
           memory \in [DOMAIN memory -> Words]
    PROVE  /\ Kept(memory, Known(m))
           /\ Known(m) \in [DOMAIN Known(m) -> Words]
           /\ \A c \in a .. a + n - 1 :
                c \in DOMAIN Known(m) /\ Known(m)[c] = m[c] /\ m[c] \in Words
<1>1. /\ m \in [a .. a + n - 1 -> Words]
      /\ \A c \in (a .. a + n - 1) \cap DOMAIN memory : m[c] = memory[c]
  BY DEF Loads
<1> QED
  BY <1>1 DEF Known, Kept

\* What has been read stays what it is when more is read.
LEMMA VectorKept ==
    ASSUME NEW mem, NEW more, Kept(mem, more), NEW b, NEW p, NEW v, VectorIs(mem, b, p, v)
    PROVE  VectorIs(more, b, p, v)
BY DEF VectorIs, Kept

\* The same of a counter,
LEMMA ColumnKept ==
    ASSUME NEW mem, NEW more, Kept(mem, more), NEW b, NEW p, NEW size, NEW c, NEW v,
           ColumnIs(mem, b, size, p, c, v)
    PROVE  ColumnIs(more, b, size, p, c, v)
BY DEF ColumnIs, Kept

\* and of a row or a name.
LEMMA ItemKept ==
    ASSUME NEW mem, NEW more, Kept(mem, more), NEW k, NEW b, NEW p, NEW x, ItemIs(mem, k, b, p, x),
           b \in Nat, p \in Nat
    PROVE  ItemIs(more, k, b, p, x)
<1>1. CASE k = "names"
  BY <1>1 DEF ItemIs, NameIs, Kept
<1>2. CASE k # "names" /\ p # 0
  <2>1. RowIs(mem, b, CellsOf(k), p, x)
    BY <1>2 DEF ItemIs
  <2>2. VectorIs(more, b, p, [data |-> p - b, length |-> Len(x)])
    BY <2>1, VectorKept DEF RowIs
  <2>3. \A c \in 1 .. Len(x) : ColumnIs(more, b, CellsOf(k), p, c, x[c])
    BY <2>1, ColumnKept DEF RowIs
  <2> QED
    BY <1>2, <2>1, <2>2, <2>3 DEF ItemIs, RowIs
<1> QED
  BY <1>1, <1>2 DEF ItemIs

\* PublishedVector::element refuses what lies outside, and nothing else.
LEMMA ElementOutside ==
    ASSUME NEW v \in Vectors, NEW i \in Nat, i < v.length, NEW size \in {1, 2}
    PROVE  /\ ElementMapped(v, i, size) => v.data + i * size + size <= Cells
           /\ ~ElementMapped(v, i, size) => v.data + size * v.length > Cells
<1>1. v.data \in Nat /\ v.length \in Nat
  BY Numbers DEF Vectors
<1>2. CASE size = 1
  BY <1>1, <1>2, Numbers DEF ElementMapped
<1>3. CASE size = 2
  BY <1>1, <1>3, Numbers DEF ElementMapped
<1> QED
  BY <1>2, <1>3

\* Where the reader stops, nothing is under way any more.
LEMMA Stops ==
    ASSUME LayoutInv, memory' \in [DOMAIN memory' -> Words],
           \E how \in {"ok", "error", "panic"} : Ends(how)
    PROVE  LayoutTypes' /\ UnreadInv' /\ OuterInv' /\ PointerInv' /\ InnerInv'
<1>1. lphase' \in {"ok", "error", "panic"} /\ UNCHANGED <<entryVars, outer, pointer, inner, rows, row>>
  BY DEF Ends
<1> QED
  BY <1>1 DEF LayoutInv, LayoutTypes, UnreadInv, OuterInv, PointerInv, InnerInv, entryVars

\* While it goes on, there is nothing to say yet about the outcome.
LEMMA GoesOn ==
    ASSUME lphase' \notin {"ok", "error", "panic"}
    PROVE  VectorsAreRead' /\ PanicsAreKnown'
BY DEF VectorsAreRead, PanicsAreKnown

\* decode_entry starts.
LEMMA LocateHolds ==
    ASSUME LayoutInv, NEW k \in Kinds, NEW p \in Address, NEW b \in Bases, Locate(k, p, b)
    PROVE  LayoutInv'
<1>1. lphase = "idle" /\ lphase' = "entry" /\ rows = <<>>
  BY DEF Locate, LayoutInv, UnreadInv
<1>2. b \in Byte /\ p \in Byte
  BY LayoutAssumption DEF Address
<1>3. LayoutTypes'
  BY <1>1, <1>2 DEF LayoutInv, LayoutTypes, Locate
<1>4. VectorsAreRead' /\ PanicsAreKnown'
  BY <1>1, GoesOn
<1> QED
  BY <1>1, <1>3, <1>4 DEF LayoutInv, UnreadInv, OuterInv, PointerInv, InnerInv, Locate

\* The header of the vector at p, when it is mapped.
LEMMA HeaderLoaded ==
    ASSUME LayoutTypes, NEW p \in Byte, HeaderMapped(p),
           NEW m \in Loads(p - base - HeaderCells, HeaderCells)
    PROVE  /\ Kept(memory, Known(m)) /\ Known(m) \in [DOMAIN Known(m) -> Words]
           /\ p - base - HeaderCells \in DOMAIN Known(m) /\ p - base - 1 \in DOMAIN Known(m)
           /\ Known(m)[p - base - HeaderCells] = m[p - base - HeaderCells]
           /\ Known(m)[p - base - 1] = m[p - base - 1]
           /\ m[p - base - HeaderCells] \in Byte /\ p - base \in Nat
<1>1. p \in Nat /\ base \in Nat /\ p >= base /\ p - base >= 2 /\ p - base \in Nat
  BY Numbers DEF LayoutTypes, HeaderMapped, HeaderCells
<1> DEFINE a == p - base - HeaderCells
<1>2. a \in Int /\ HeaderCells \in Nat
  BY <1>1 DEF HeaderCells
<1>3. a \in a .. a + HeaderCells - 1 /\ p - base - 1 \in a .. a + HeaderCells - 1
  BY <1>1 DEF HeaderCells
<1>4. /\ Kept(memory, Known(m)) /\ Known(m) \in [DOMAIN Known(m) -> Words]
      /\ \A c \in a .. a + HeaderCells - 1 :
                c \in DOMAIN Known(m) /\ Known(m)[c] = m[c] /\ m[c] \in Words
  <2> HIDE DEF a
  <2> QED
    BY <1>2, Loaded DEF LayoutTypes, a
<1> QED
  BY <1>1, <1>3, <1>4, Numbers

\* An unmapped header means that the vector is not inside,
LEMMA HeaderOutside ==
    ASSUME NEW p \in Nat, base \in Nat, NEW size, ~HeaderMapped(p)
    PROVE  ~VectorInside(p, size)
BY Numbers DEF HeaderMapped, VectorInside, Inside, HeaderCells

\* vector_of reads the header of the entry's vector.
LEMMA VectorOfHolds ==
    ASSUME LayoutInv, VectorOf
    PROVE  LayoutInv'
<1>1. lphase = "entry" /\ rows = <<>> /\ Resolve(published, "outer") /\ published \in Byte
  BY DEF VectorOf, LayoutInv, UnreadInv, LayoutTypes
<1>2. CASE ~HeaderMapped(published)
  <2>1. Ends("error") /\ memory' = memory
    BY <1>1, <1>2 DEF Resolve
  <2>2. LayoutTypes' /\ UnreadInv' /\ OuterInv' /\ PointerInv' /\ InnerInv'
    BY <2>1, Stops DEF LayoutInv, LayoutTypes
  <2>3. ~VectorInside(published, 1)
    BY <1>1, <1>2, HeaderOutside, Numbers DEF LayoutInv, LayoutTypes
  <2>4. lphase' = "error" /\ (~VectorInside(published, 1))'
    BY <2>1, <2>3 DEF Ends, entryVars, VectorInside, Inside, At
  <2>5. VectorsAreRead' /\ PanicsAreKnown'
    BY <2>4 DEF VectorsAreRead, PanicsAreKnown
  <2> QED
    BY <2>2, <2>5 DEF LayoutInv
<1>3. CASE HeaderMapped(published)
  <2> DEFINE a == published - base
  <2>1. PICK m \in Loads(a - HeaderCells, HeaderCells) :
            /\ memory' = Known(m)
            /\ IF checks /\ ShiftOverflows(m[a - 1]) THEN Ends("panic")
               ELSE /\ lphase' = "outer" /\ row' = <<>>
                    /\ outer' = [data |-> a, length |-> m[a - HeaderCells]]
                    /\ inner' = inner
                    /\ UNCHANGED <<entryVars, pointer, rows>>
    BY <1>1, <1>3 DEF Resolve
  <2>2. /\ memory' \in [DOMAIN memory' -> Words]
        /\ a - HeaderCells \in DOMAIN memory' /\ a - 1 \in DOMAIN memory'
        /\ memory'[a - HeaderCells] = m[a - HeaderCells]
        /\ memory'[a - 1] = m[a - 1]
        /\ m[a - HeaderCells] \in Byte /\ a \in Nat
    BY <1>1, <1>3, <2>1, HeaderLoaded DEF LayoutInv
  <2>3. CASE checks /\ ShiftOverflows(m[a - 1])
    <3>1. Ends("panic")
      BY <2>1, <2>3
    <3>2. LayoutTypes' /\ UnreadInv' /\ OuterInv' /\ PointerInv' /\ InnerInv'
      BY <2>2, <3>1, Stops
    <3>3. lphase' = "panic" /\ checks' /\ published' = published /\ base' = base
      BY <2>3, <3>1 DEF Ends, entryVars
    <3>4. (ShiftOverflows(At(published - base - 1)))'
      BY <2>2, <2>3, <3>3 DEF At, ShiftOverflows
    <3>5. VectorsAreRead' /\ PanicsAreKnown'
      BY <3>3, <3>4 DEF VectorsAreRead, PanicsAreKnown
    <3> QED
      BY <3>2, <3>5 DEF LayoutInv
  <2>4. CASE ~(checks /\ ShiftOverflows(m[a - 1]))
    <3>1. /\ lphase' = "outer" /\ row' = <<>> /\ rows' = <<>>
          /\ outer' = [data |-> a, length |-> m[a - HeaderCells]]
          /\ inner' = inner /\ pointer' = pointer
          /\ UNCHANGED entryVars
      BY <1>1, <2>1, <2>4
    <3>2. LayoutTypes'
      <4>1. outer' \in Vectors /\ outer'.length \in Nat /\ inner.length \in Nat
        BY <2>2, <3>1, Numbers DEF Vectors, LayoutInv, LayoutTypes
      <4> QED
        BY <2>2, <3>1, <4>1 DEF LayoutInv, LayoutTypes, entryVars
    <3>3. OuterInv'
      <4>1. VectorIs(memory', base', published', outer')
        BY <1>3, <2>2, <3>1 DEF VectorIs, HeaderMapped, entryVars
      <4>2. 1 .. Len(rows') = {}
        BY <3>1
      <4> QED
        BY <4>1, <4>2 DEF OuterInv
    <3>4. VectorsAreRead' /\ PanicsAreKnown'
      BY <3>1, GoesOn
    <3> QED
      BY <3>1, <3>2, <3>3, <3>4 DEF LayoutInv, UnreadInv, PointerInv, InnerInv
  <2> QED
    BY <2>3, <2>4
<1> QED
  BY <1>2, <1>3

\* What a step keeps of the entry's vector when it reads more cells.
LEMMA OuterKept ==
    ASSUME LayoutInv, lphase \in {"outer", "pointer", "inner", "name"}, Kept(memory, memory'),
           UNCHANGED <<entryVars, outer>>
    PROVE  /\ VectorIs(memory', base', published', outer')
           /\ \A r \in 1 .. Len(rows) :
                /\ outer'.data + r <= Cells /\ outer'.data + r - 1 \in DOMAIN memory'
                /\ ItemIs(memory', kind', base', memory'[outer'.data + r - 1], rows[r])
<1>1. UNCHANGED <<kind, base, published, outer>>
  BY DEF entryVars
<1>2. VectorIs(memory, base, published, outer)
  BY DEF LayoutInv, OuterInv
<1>3. VectorIs(memory', base', published', outer')
  BY <1>1, <1>2, VectorKept
<1>4. ASSUME NEW r \in 1 .. Len(rows)
      PROVE  /\ outer'.data + r <= Cells /\ outer'.data + r - 1 \in DOMAIN memory'
             /\ ItemIs(memory', kind', base', memory'[outer'.data + r - 1], rows[r])
  <2> DEFINE p == memory[outer.data + r - 1]
  <2>1. /\ outer.data + r <= Cells /\ outer.data + r - 1 \in DOMAIN memory
        /\ ItemIs(memory, kind, base, p, rows[r])
    BY DEF LayoutInv, OuterInv
  <2>2. p \in Nat /\ base \in Nat
    BY <2>1, Numbers DEF LayoutInv, LayoutTypes
  <2>3. memory'[outer'.data + r - 1] = p /\ outer'.data + r - 1 \in DOMAIN memory'
    BY <1>1, <2>1 DEF Kept
  <2> HIDE DEF p
  <2>4. ItemIs(memory', kind, base, p, rows[r])
    BY <2>1, <2>2, ItemKept
  <2> QED
    BY <1>1, <2>1, <2>3, <2>4
<1> QED
  BY <1>3, <1>4

\* An element of the vector at p that lies outside.
LEMMA VectorOutside ==
    ASSUME NEW p \in Nat, base \in Nat, NEW v \in Vectors, VectorIs(memory, base, p, v),
           NEW i \in Nat, i < v.length, NEW size \in {1, 2}, ~ElementMapped(v, i, size)
    PROVE  ~VectorInside(p, size)
<1>1. v.data + size * v.length > Cells
  BY ElementOutside
<1>2. v.data = p - base /\ At(p - base - HeaderCells) = v.length
  BY DEF VectorIs, At
<1>3. ~Inside(p - base, size * v.length)
  <2> DEFINE n == size * v.length
  <2>1. v.data \in Nat /\ v.length \in Nat
    BY Numbers DEF Vectors
  <2>2. n \in Nat
    BY <2>1
  <2> HIDE DEF n
  <2> QED
    BY <1>1, <1>2, <2>1, <2>2, Numbers DEF Inside, n
<1> QED
  BY <1>2, <1>3 DEF VectorInside

\* The next pointer of the entry's vector.
LEMMA NextPointerHolds ==
    ASSUME LayoutInv, NextPointer
    PROVE  LayoutInv'
<1> DEFINE n == Len(rows)
           a == outer.data + n
<1>1. /\ lphase = "outer" /\ n < outer.length /\ n \in Nat
      /\ outer \in Vectors /\ outer.data \in Nat /\ outer.length \in Nat
      /\ base \in Nat /\ published \in Nat /\ VectorIs(memory, base, published, outer)
  BY Numbers DEF NextPointer, LayoutInv, LayoutTypes, OuterInv, Vectors
<1>2. CASE ~ElementMapped(outer, n, 1)
  <2>1. Ends("error") /\ memory' = memory
    BY <1>2 DEF NextPointer
  <2>2. LayoutTypes' /\ UnreadInv' /\ OuterInv' /\ PointerInv' /\ InnerInv'
    BY <2>1, Stops DEF LayoutInv, LayoutTypes
  <2>3. ~VectorInside(published, 1)
    <3> HIDE DEF n
    <3> QED
      BY <1>1, <1>2, VectorOutside
  <2>4. lphase' = "error" /\ (~VectorInside(published, 1))'
    BY <2>1, <2>3 DEF Ends, entryVars, VectorInside, Inside, At
  <2>5. VectorsAreRead' /\ PanicsAreKnown'
    BY <2>4 DEF VectorsAreRead, PanicsAreKnown
  <2> QED
    BY <2>2, <2>5 DEF LayoutInv
<1>3. CASE ElementMapped(outer, n, 1)
  <2>1. PICK m \in Loads(a, 1) :
            /\ memory' = Known(m)
            /\ IF m[a] = 0 /\ kind # "names"
               THEN rows' = Append(rows, <<>>) /\ UNCHANGED <<lphase, pointer>>
               ELSE /\ pointer' = m[a] /\ rows' = rows
                    /\ lphase' = (IF kind = "names" THEN "name" ELSE "pointer")
            /\ UNCHANGED <<entryVars, outer, inner, row>>
    BY <1>3 DEF NextPointer
  <2>2. a \in Int /\ a + 1 <= Cells /\ a \in a .. a + 1 - 1
    <3>1. outer.data + n * 1 + 1 <= Cells
      <4> HIDE DEF n
      <4> QED
        BY <1>1, <1>3, ElementOutside
    <3> QED
      BY <1>1, <3>1
  <2>3. /\ Kept(memory, memory') /\ memory' \in [DOMAIN memory' -> Words]
        /\ a \in DOMAIN memory' /\ memory'[a] = m[a] /\ m[a] \in Words
    <3>1. /\ Kept(memory, Known(m)) /\ Known(m) \in [DOMAIN Known(m) -> Words]
          /\ \A c \in a .. a + 1 - 1 :
                c \in DOMAIN Known(m) /\ Known(m)[c] = m[c] /\ m[c] \in Words
      <4> HIDE DEF a
      <4> QED
        BY <2>2, Loaded DEF LayoutInv, LayoutTypes
    <3> QED
      BY <2>1, <2>2, <3>1
  <2>4. UNCHANGED <<entryVars, outer, inner, row, kind, base, published, checks>>
    BY <2>1 DEF entryVars
  <2>5. /\ VectorIs(memory', base', published', outer')
        /\ \A r \in 1 .. n :
                /\ outer'.data + r <= Cells /\ outer'.data + r - 1 \in DOMAIN memory'
                /\ ItemIs(memory', kind', base', memory'[outer'.data + r - 1], rows[r])
    BY <1>1, <2>3, <2>4, OuterKept
  <2>6. CASE m[a] = 0 /\ kind # "names"
    <3>1. rows' = Append(rows, <<>>) /\ UNCHANGED <<lphase, pointer>>
      BY <2>1, <2>6
    <3>2. <<>> \in Items /\ rows \in Seq(Items)
      BY DEF Items, LayoutInv, LayoutTypes
    <3>3. /\ rows' \in Seq(Items) /\ Len(rows') = n + 1 /\ rows'[n + 1] = <<>>
          /\ \A r \in 1 .. n : rows'[r] = rows[r]
      BY <3>1, <3>2
    <3>4. LayoutTypes'
      BY <1>1, <2>3, <2>4, <3>1, <3>3 DEF LayoutInv, LayoutTypes
    <3>5. OuterInv'
      <4>1. ASSUME NEW r \in 1 .. Len(rows')
            PROVE  /\ outer'.data + r <= Cells /\ outer'.data + r - 1 \in DOMAIN memory'
                   /\ ItemIs(memory', kind', base', memory'[outer'.data + r - 1], rows'[r])
        <5>1. CASE r = n + 1
          <6>1. outer'.data + r - 1 = a /\ outer'.data + r <= Cells
            BY <1>1, <2>2, <2>4, <5>1
          <6> QED
            BY <2>3, <2>4, <2>6, <3>3, <5>1, <6>1 DEF ItemIs
        <5>2. CASE r \in 1 .. n
          BY <2>5, <3>3, <5>2
        <5> QED
          BY <1>1, <3>3, <5>1, <5>2
      <4> QED
        BY <2>5, <4>1 DEF OuterInv
    <3>6. lphase' = "outer"
      BY <1>1, <3>1
    <3>7. VectorsAreRead' /\ PanicsAreKnown'
      BY <3>6, GoesOn
    <3> QED
      BY <3>4, <3>5, <3>6, <3>7 DEF LayoutInv, UnreadInv, PointerInv, InnerInv
  <2>7. CASE ~(m[a] = 0 /\ kind # "names")
    <3>1. /\ pointer' = m[a] /\ rows' = rows
          /\ lphase' = (IF kind = "names" THEN "name" ELSE "pointer")
      BY <2>1, <2>7
    <3>2. LayoutTypes'
      BY <1>1, <2>3, <2>4, <3>1, Numbers DEF LayoutInv, LayoutTypes
    <3>3. OuterInv'
      BY <2>5, <3>1 DEF OuterInv
    <3>4. PointerInv'
      <4>1. a < Cells
        BY <1>1, <2>2, Numbers
      <4> QED
        BY <1>1, <2>3, <2>4, <2>7, <3>1, <4>1 DEF PointerInv
    <3>5. VectorsAreRead' /\ PanicsAreKnown'
      BY <3>1, GoesOn
    <3> QED
      BY <3>1, <3>2, <3>3, <3>4, <3>5 DEF LayoutInv, UnreadInv, InnerInv
  <2> QED
    BY <2>6, <2>7
<1> QED
  BY <1>2, <1>3

\* The pointer whose turn it is, whatever becomes of it.
Turn ==
    /\ VectorIs(memory, base, published, outer) /\ outer \in Vectors
    /\ Len(rows) \in Nat /\ Len(rows) < outer.length
    /\ outer.data + Len(rows) \in DOMAIN memory /\ memory[outer.data + Len(rows)] = pointer

\* It is one of the pointers the segment has for the entry.
LEMMA TurnIsPointer ==
    Turn => Len(rows) + 1 \in DOMAIN Pointers /\ Pointers[Len(rows) + 1] = pointer
<1> SUFFICES ASSUME Turn PROVE Len(rows) + 1 \in DOMAIN Pointers /\ Pointers[Len(rows) + 1] = pointer
  OBVIOUS
<1> DEFINE n == Len(rows)
<1>1. n \in Nat /\ outer.length \in Nat /\ n < outer.length /\ outer.data \in Nat
  BY Numbers DEF Turn, Vectors
<1>2. At(published - base - HeaderCells) = outer.length /\ outer.data = published - base
  BY DEF Turn, VectorIs, At
<1>3. n + 1 \in 1 .. outer.length /\ outer.data + (n + 1) - 1 = outer.data + n
  BY <1>1
<1>4. DOMAIN Pointers = 1 .. outer.length /\ Pointers[n + 1] = At(outer.data + (n + 1) - 1)
  BY <1>2, <1>3 DEF Pointers
<1> QED
  BY <1>3, <1>4 DEF At, Turn

\* A row or a name is only read when an earlier vector said that it is there.
LEMMA TurnComes ==
    ASSUME LayoutInv, lphase \in {"pointer", "inner", "name"}
    PROVE  Turn
BY DEF LayoutInv, LayoutTypes, OuterInv, PointerInv, Turn

\* It keeps its turn while its row or name is read.
LEMMA TurnKept ==
    ASSUME Turn, Kept(memory, memory'), UNCHANGED <<entryVars, outer, pointer, rows>>
    PROVE  Turn'
<1>1. VectorIs(memory', base', published', outer')
  BY VectorKept DEF Turn, entryVars
<1> QED
  BY <1>1 DEF Turn, Kept

\* Where the row it leads to is not inside, so is the vector.
LEMMA RowOutside ==
    ASSUME lphase' = "error", Turn', (pointer # 0 /\ kind # "names" /\ ~VectorInside(pointer, ElementCells))'
    PROVE  VectorsAreRead' /\ PanicsAreKnown'
<1>1. (Len(rows) + 1 \in DOMAIN Pointers /\ Pointers[Len(rows) + 1] = pointer)'
  BY TurnIsPointer, PTL
<1> HIDE DEF Pointers, VectorInside, ElementCells
<1>2. (\E r \in DOMAIN Pointers : Pointers[r] # 0 /\ ~VectorInside(Pointers[r], ElementCells))'
  BY <1>1
<1>3. (\E r \in DOMAIN Pointers :
            IF kind = "names" THEN \A n \in 0 .. Cells :
                    ~NamesText(Pointers[r], [i \in 1 .. n |-> At(Pointers[r] - base + i - 1)])
            ELSE Pointers[r] # 0 /\ ~VectorInside(Pointers[r], ElementCells))'
  BY <1>2
<1> QED
  BY <1>3 DEF VectorsAreRead, PanicsAreKnown

\* inner_vector reads the header of a row.
LEMMA InnerVectorHolds ==
    ASSUME LayoutInv, InnerVector
    PROVE  LayoutInv'
<1>1. /\ lphase = "pointer" /\ Resolve(pointer, "inner") /\ pointer \in Byte /\ kind # "names"
      /\ pointer # 0 /\ Turn
  BY TurnComes DEF InnerVector, LayoutInv, LayoutTypes, PointerInv
<1>2. CASE ~HeaderMapped(pointer)
  <2>1. Ends("error") /\ memory' = memory
    BY <1>1, <1>2 DEF Resolve
  <2>2. LayoutTypes' /\ UnreadInv' /\ OuterInv' /\ PointerInv' /\ InnerInv'
    BY <2>1, Stops DEF LayoutInv, LayoutTypes
  <2>3. ~VectorInside(pointer, ElementCells)
    BY <1>1, <1>2, HeaderOutside, Numbers DEF LayoutInv, LayoutTypes
  <2>4. lphase' = "error" /\ UNCHANGED <<entryVars, memory, outer, pointer, inner, rows, row>>
    BY <2>1 DEF Ends
  <2>5. Turn'
    BY <1>1, <2>4, TurnKept DEF Kept
  <2>6. (pointer # 0 /\ kind # "names" /\ ~VectorInside(pointer, ElementCells))'
    BY <1>1, <2>3, <2>4 DEF entryVars, VectorInside, Inside, At, ElementCells
  <2>7. VectorsAreRead' /\ PanicsAreKnown'
    BY <2>4, <2>5, <2>6, RowOutside
  <2> QED
    BY <2>2, <2>7 DEF LayoutInv
<1>3. CASE HeaderMapped(pointer)
  <2> DEFINE a == pointer - base
  <2>1. PICK m \in Loads(a - HeaderCells, HeaderCells) :
            /\ memory' = Known(m)
            /\ IF checks /\ ShiftOverflows(m[a - 1]) THEN Ends("panic")
               ELSE /\ lphase' = "inner" /\ row' = <<>>
                    /\ outer' = outer
                    /\ inner' = [data |-> a, length |-> m[a - HeaderCells]]
                    /\ UNCHANGED <<entryVars, pointer, rows>>
    BY <1>1, <1>3 DEF Resolve
  <2>2. /\ Kept(memory, memory') /\ memory' \in [DOMAIN memory' -> Words]
        /\ a - HeaderCells \in DOMAIN memory' /\ a - 1 \in DOMAIN memory'
        /\ memory'[a - HeaderCells] = m[a - HeaderCells]
        /\ memory'[a - 1] = m[a - 1]
        /\ m[a - HeaderCells] \in Byte /\ a \in Nat
    BY <1>1, <1>3, <2>1, HeaderLoaded DEF LayoutInv
  <2>3. CASE checks /\ ShiftOverflows(m[a - 1])
    <3>1. Ends("panic")
      BY <2>1, <2>3
    <3>2. LayoutTypes' /\ UnreadInv' /\ OuterInv' /\ PointerInv' /\ InnerInv'
      BY <2>2, <3>1, Stops
    <3>3. lphase' = "panic" /\ checks' /\ pointer' = pointer /\ base' = base
      BY <2>3, <3>1 DEF Ends, entryVars
    <3>4. (ShiftOverflows(At(pointer - base - 1)))'
      BY <2>2, <2>3, <3>3 DEF At, ShiftOverflows
    <3>5. VectorsAreRead' /\ PanicsAreKnown'
      BY <3>3, <3>4 DEF VectorsAreRead, PanicsAreKnown
    <3> QED
      BY <3>2, <3>5 DEF LayoutInv
  <2>4. CASE ~(checks /\ ShiftOverflows(m[a - 1]))
    <3>1. /\ lphase' = "inner" /\ row' = <<>> /\ rows' = rows
          /\ inner' = [data |-> a, length |-> m[a - HeaderCells]]
          /\ outer' = outer /\ pointer' = pointer
          /\ UNCHANGED <<entryVars, kind, base, published, checks>>
      BY <1>1, <2>1, <2>4 DEF entryVars
    <3>2. LayoutTypes'
      <4>1. inner' \in Vectors /\ inner'.length \in Nat
        BY <2>2, <3>1, Numbers DEF Vectors, LayoutInv, LayoutTypes
      <4> QED
        BY <2>2, <3>1, <4>1 DEF LayoutInv, LayoutTypes
    <3>3. OuterInv'
      BY <1>1, <2>2, <3>1, OuterKept DEF OuterInv
    <3>4. PointerInv'
      BY <1>1, <2>2, <3>1 DEF LayoutInv, PointerInv, Kept
    <3>5. InnerInv'
      <4>1. VectorIs(memory', base', pointer', inner')
        BY <1>3, <2>2, <3>1 DEF VectorIs, HeaderMapped
      <4>2. 1 .. Len(row') = {}
        BY <3>1
      <4> QED
        BY <4>1, <4>2 DEF InnerInv
    <3>6. VectorsAreRead' /\ PanicsAreKnown'
      BY <3>1, GoesOn
    <3> QED
      BY <3>1, <3>2, <3>3, <3>4, <3>5, <3>6 DEF LayoutInv, UnreadInv
  <2> QED
    BY <2>3, <2>4
<1> QED
  BY <1>2, <1>3

\* The next counter of a row.
LEMMA NextColumnHolds ==
    ASSUME LayoutInv, NextColumn
    PROVE  LayoutInv'
<1> DEFINE n == Len(row)
           size == ElementCells
           a == inner.data + n * size
<1>1. /\ lphase = "inner" /\ n < inner.length /\ n \in Nat /\ size \in {1, 2} /\ size = CellsOf(kind)
      /\ inner \in Vectors /\ inner.data \in Nat /\ inner.length \in Nat
      /\ base \in Nat /\ pointer \in Nat /\ VectorIs(memory, base, pointer, inner)
      /\ kind # "names" /\ pointer # 0 /\ Turn
  BY Numbers, TurnComes
     DEF NextColumn, LayoutInv, LayoutTypes, PointerInv, InnerInv, Vectors, ElementCells, CellsOf
<1>2. CASE ~ElementMapped(inner, n, size)
  <2>1. Ends("error") /\ memory' = memory
    BY <1>2 DEF NextColumn
  <2>2. LayoutTypes' /\ UnreadInv' /\ OuterInv' /\ PointerInv' /\ InnerInv'
    BY <2>1, Stops DEF LayoutInv, LayoutTypes
  <2>3. ~VectorInside(pointer, size)
    <3> HIDE DEF n, size
    <3> QED
      BY <1>1, <1>2, VectorOutside
  <2>4. lphase' = "error" /\ UNCHANGED <<entryVars, memory, outer, pointer, inner, rows, row>>
    BY <2>1 DEF Ends
  <2>5. Turn'
    BY <1>1, <2>4, TurnKept DEF Kept
  <2>6. (pointer # 0 /\ kind # "names" /\ ~VectorInside(pointer, ElementCells))'
    BY <1>1, <2>3, <2>4 DEF entryVars, VectorInside, Inside, At, ElementCells
  <2>7. VectorsAreRead' /\ PanicsAreKnown'
    BY <2>4, <2>5, <2>6, RowOutside
  <2> QED
    BY <2>2, <2>7 DEF LayoutInv
<1>3. CASE ElementMapped(inner, n, size)
  <2>1. PICK m \in Loads(a, size) :
            /\ memory' = Known(m)
            /\ row' = Append(row, [c \in 1 .. size |-> m[a + c - 1]])
            /\ UNCHANGED <<lphase, entryVars, outer, pointer, inner, rows>>
    BY <1>3 DEF NextColumn
  <2>2. a \in Nat /\ a + size <= Cells
    <3>1. inner.data + n * size + size <= Cells
      <4> HIDE DEF n, size
      <4> QED
        BY <1>1, <1>3, ElementOutside
    <3>2. n * size \in Nat
      BY <1>1
    <3> HIDE DEF size
    <3> QED
      BY <1>1, <3>1, <3>2
  <2>3. /\ Kept(memory, memory') /\ memory' \in [DOMAIN memory' -> Words]
        /\ \A c \in a .. a + size - 1 :
                c \in DOMAIN memory' /\ memory'[c] = m[c] /\ m[c] \in Words
    <3> HIDE DEF a, size
    <3>1. memory \in [DOMAIN memory -> Words] /\ size \in Nat /\ a \in Int
      BY <1>1, <2>2 DEF LayoutInv, LayoutTypes
    <3> QED
      BY <2>1, <3>1, Loaded, SMTT(30)
  <2>4. UNCHANGED <<entryVars, outer, inner, rows, pointer, lphase, kind, base, published, checks>>
    BY <2>1 DEF entryVars
  <2> DEFINE v == [c \in 1 .. size |-> m[a + c - 1]]
  <2>5. ASSUME NEW c \in 1 .. size
        PROVE  a + c - 1 \in DOMAIN memory' /\ memory'[a + c - 1] = m[a + c - 1] /\ m[a + c - 1] \in Words
    <3>1. a + c - 1 \in a .. a + size - 1
      <4> HIDE DEF a, size
      <4> QED
        BY <1>1, <2>2
    <3> QED
      BY <2>3, <3>1
  <2>6. v \in Seq(Words)
    <3>1. size \in Nat
      BY <1>1
    <3> HIDE DEF a, size
    <3> QED
      BY <2>5, <3>1
  <2>7. /\ row' \in Seq(Seq(Words)) /\ Len(row') = n + 1 /\ row'[n + 1] = v
        /\ \A c \in 1 .. n : row'[c] = row[c]
    <3>1. row \in Seq(Seq(Words)) /\ row' = Append(row, v)
      BY <2>1 DEF LayoutInv, LayoutTypes
    <3> HIDE DEF v
    <3> QED
      BY <2>6, <3>1
  <2>8. LayoutTypes'
    <3> HIDE DEF v
    <3> QED
      BY <1>1, <2>3, <2>4, <2>7 DEF LayoutInv, LayoutTypes
  <2>9. OuterInv'
    BY <1>1, <2>3, <2>4, OuterKept DEF OuterInv
  <2>10. PointerInv'
    BY <1>1, <2>3, <2>4 DEF LayoutInv, PointerInv, Kept
  <2>11. InnerInv'
    <3>1. VectorIs(memory', base', pointer', inner')
      BY <1>1, <2>3, <2>4, VectorKept
    <3>2. ASSUME NEW c \in 1 .. n
          PROVE  ColumnIs(memory', base', CellsOf(kind'), pointer', c, row'[c])
      <4>1. ColumnIs(memory, base, CellsOf(kind), pointer, c, row[c])
        BY <1>1 DEF LayoutInv, InnerInv
      <4> QED
        BY <2>3, <2>4, <2>7, <4>1, ColumnKept
    <3>3. ColumnIs(memory', base', CellsOf(kind'), pointer', n + 1, v)
      <4>1. pointer - base + ((n + 1) - 1) * size = a
        <5>1. pointer - base = inner.data /\ (n + 1) - 1 = n
          BY <1>1 DEF VectorIs
        <5> QED
          BY <5>1
      <4>2. v = [i \in 1 .. size |-> memory'[a + i - 1]]
        BY <2>5
      <4> HIDE DEF a, v, size
      <4> QED
        BY <1>1, <2>2, <2>4, <2>5, <4>1, <4>2 DEF ColumnIs
    <3>4. 1 .. Len(row') = (1 .. n) \cup {n + 1}
      BY <1>1, <2>7
    <3> HIDE DEF v
    <3> QED
      BY <2>7, <3>1, <3>2, <3>3, <3>4 DEF InnerInv
  <2>12. VectorsAreRead' /\ PanicsAreKnown'
    BY <1>1, <2>4, GoesOn
  <2> QED
    BY <1>1, <2>4, <2>8, <2>9, <2>10, <2>11, <2>12 DEF LayoutInv, UnreadInv
<1> QED
  BY <1>2, <1>3

\* One more row or name of the entry's vector.
LEMMA ItemAdded ==
    ASSUME LayoutInv, lphase \in {"pointer", "inner", "name"}, Kept(memory, memory'),
           memory' \in [DOMAIN memory' -> Words], UNCHANGED <<entryVars, outer, pointer, inner, row>>,
           NEW x \in Items, ItemIs(memory', kind, base, pointer, x),
           rows' = Append(rows, x), lphase' = "outer"
    PROVE  LayoutInv'
<1> DEFINE n == Len(rows)
<1>1. /\ n \in Nat /\ n < outer.length /\ outer.data + n < Cells /\ outer.data \in Nat
      /\ outer.data + n \in DOMAIN memory /\ memory[outer.data + n] = pointer /\ outer.length \in Nat
  BY Numbers DEF LayoutInv, LayoutTypes, PointerInv, Vectors
<1>2. UNCHANGED <<entryVars, outer, inner, row, pointer, kind, base, published, checks>>
  BY DEF entryVars
<1>3. /\ rows' \in Seq(Items) /\ Len(rows') = n + 1 /\ rows'[n + 1] = x
      /\ \A r \in 1 .. n : rows'[r] = rows[r]
  BY DEF LayoutInv, LayoutTypes
<1>4. LayoutTypes'
  BY <1>1, <1>2, <1>3 DEF LayoutInv, LayoutTypes
<1>5. /\ VectorIs(memory', base', published', outer')
      /\ \A r \in 1 .. n :
            /\ outer'.data + r <= Cells /\ outer'.data + r - 1 \in DOMAIN memory'
            /\ ItemIs(memory', kind', base', memory'[outer'.data + r - 1], rows[r])
  BY <1>2, OuterKept
<1>6. ASSUME NEW r \in 1 .. Len(rows')
      PROVE  /\ outer'.data + r <= Cells /\ outer'.data + r - 1 \in DOMAIN memory'
             /\ ItemIs(memory', kind', base', memory'[outer'.data + r - 1], rows'[r])
  <2>1. CASE r = n + 1
    <3>1. outer'.data + r - 1 = outer.data + n /\ outer'.data + r <= Cells
      BY <1>1, <1>2, <2>1, Numbers
    <3>2. outer.data + n \in DOMAIN memory' /\ memory'[outer.data + n] = pointer
      BY <1>1 DEF Kept
    <3> QED
      BY <1>2, <1>3, <2>1, <3>1, <3>2
  <2>2. CASE r \in 1 .. n
    BY <1>3, <1>5, <2>2
  <2> QED
    BY <1>1, <1>3, <2>1, <2>2
<1>7. OuterInv'
  BY <1>5, <1>6 DEF OuterInv
<1>8. VectorsAreRead' /\ PanicsAreKnown'
  BY GoesOn
<1> QED
  BY <1>4, <1>7, <1>8 DEF LayoutInv, UnreadInv, PointerInv, InnerInv

\* A row that has been read is one.
LEMMA RowEndsHolds ==
    ASSUME LayoutInv, RowEnds
    PROVE  LayoutInv'
<1>1. /\ lphase = "inner" /\ lphase' = "outer" /\ rows' = Append(rows, row)
      /\ UNCHANGED <<entryVars, memory, outer, pointer, inner, row>>
  BY DEF RowEnds
<1>2. Len(row) = inner.length
  <2>1. Len(row) \in Nat /\ inner.length \in Nat /\ Len(row) <= inner.length /\ Len(row) >= inner.length
    BY Numbers DEF LayoutInv, LayoutTypes, Vectors, RowEnds
  <2> QED
    BY <2>1
<1>3. row \in Seq(Seq(Words)) /\ row \in Items /\ kind # "names" /\ pointer # 0
  BY <1>1 DEF LayoutInv, LayoutTypes, Items, PointerInv
<1>4. RowIs(memory, base, CellsOf(kind), pointer, row)
  <2>1. VectorIs(memory, base, pointer, [data |-> pointer - base, length |-> Len(row)])
    BY <1>1, <1>2 DEF LayoutInv, InnerInv, VectorIs
  <2> QED
    BY <1>1, <1>3, <2>1 DEF LayoutInv, InnerInv, RowIs
<1>5. ItemIs(memory', kind, base, pointer, row)
  BY <1>1, <1>3, <1>4 DEF ItemIs
<1>6. Kept(memory, memory') /\ memory' \in [DOMAIN memory' -> Words]
  BY <1>1 DEF Kept, LayoutInv, LayoutTypes
<1> QED
  BY <1>1, <1>3, <1>5, <1>6, ItemAdded

\* No name lies where the pointer leads.
Nameless ==
    \A n \in 0 .. Cells : ~NamesText(pointer, [i \in 1 .. n |-> At(pointer - base + i - 1)])

\* A directory with a name that cannot be read is refused, as it should be.
LEMMA NamelessRefused ==
    ASSUME lphase' = "error", Turn', (kind = "names" /\ Nameless)'
    PROVE  VectorsAreRead' /\ PanicsAreKnown'
<1>1. (Len(rows) + 1 \in DOMAIN Pointers /\ Pointers[Len(rows) + 1] = pointer)'
  BY TurnIsPointer, PTL
<1> HIDE DEF Pointers, NamesText, At
<1>2. (\E r \in DOMAIN Pointers :
            IF kind = "names" THEN \A n \in 0 .. Cells :
                    ~NamesText(Pointers[r], [i \in 1 .. n |-> At(Pointers[r] - base + i - 1)])
            ELSE Pointers[r] # 0 /\ ~VectorInside(Pointers[r], ElementCells))'
  BY <1>1 DEF Nameless
<1> QED
  BY <1>2 DEF VectorsAreRead, PanicsAreKnown

\* What the reader finds behind a name's pointer: n characters, and the
\* terminator unless the mapping ends there.
LEMMA NameLoaded ==
    ASSUME LayoutTypes, NEW a \in Nat, NEW n \in 0 .. Cells - a, NEW m \in NameLoads(a, n)
    PROVE  /\ Kept(memory, Known(m)) /\ Known(m) \in [DOMAIN Known(m) -> Words]
           /\ \A c \in a .. a + n - 1 :
                c \in DOMAIN Known(m) /\ Known(m)[c] = m[c] /\ m[c] \in Words /\ m[c] # 0
           /\ a + n < Cells => a + n \in DOMAIN Known(m) /\ Known(m)[a + n] = 0
<1> DEFINE k == IF a + n < Cells THEN n + 1 ELSE n
<1>1. /\ m \in Loads(a, k) /\ \A c \in a .. a + n - 1 : m[c] # 0
      /\ a + n < Cells => m[a + n] = 0
  BY DEF NameLoads
<1>2. n \in Nat /\ k \in Nat /\ n <= k /\ (a + n < Cells => k = n + 1)
  BY Numbers
<1> HIDE DEF k
<1>3. /\ Kept(memory, Known(m)) /\ Known(m) \in [DOMAIN Known(m) -> Words]
      /\ \A c \in a .. a + k - 1 :
            c \in DOMAIN Known(m) /\ Known(m)[c] = m[c] /\ m[c] \in Words
  BY <1>1, <1>2, Loaded DEF LayoutTypes
<1>4. \A c \in a .. a + n - 1 : c \in a .. a + k - 1
  BY <1>2
<1>5. a + n < Cells => a + n \in a .. a + k - 1
  BY <1>2
<1> QED
  BY <1>1, <1>3, <1>4, <1>5

\* Characters behind the pointer that go on to the end of the mapping, or are
\* no text,
Unnamed ==
    \E n \in 0 .. Cells :
        LET a == pointer - base IN
        /\ pointer \in Nat /\ base \in Nat /\ a >= 0 /\ a + n <= Cells
        /\ \A c \in a .. a + n - 1 : c \in DOMAIN memory /\ memory[c] # 0
        /\ a + n < Cells => a + n \in DOMAIN memory /\ memory[a + n] = 0
        /\ a + n = Cells \/ ~Utf8([i \in 1 .. n |-> memory[a + i - 1]])

\* are no name.
LEMMA NoSuchName == Unnamed => Nameless
<1> SUFFICES ASSUME Unnamed, NEW l \in 0 .. Cells,
                    NamesText(pointer, [i \in 1 .. l |-> At(pointer - base + i - 1)])
             PROVE  FALSE
  BY DEF Nameless
<1> DEFINE a == pointer - base
<1>0. PICK n \in 0 .. Cells :
        /\ pointer \in Nat /\ base \in Nat /\ a >= 0 /\ a + n <= Cells
        /\ \A c \in a .. a + n - 1 : c \in DOMAIN memory /\ memory[c] # 0
        /\ a + n < Cells => a + n \in DOMAIN memory /\ memory[a + n] = 0
        /\ a + n = Cells \/ ~Utf8([i \in 1 .. n |-> memory[a + i - 1]])
  BY DEF Unnamed
<1> DEFINE x == [i \in 1 .. l |-> At(a + i - 1)]
<1>1. l \in Nat /\ n \in Nat /\ a + n <= Cells /\ a \in Nat
  BY <1>0, Numbers
<1>2. Len(x) = l /\ DOMAIN x = 1 .. l
  BY <1>1
<1>3. /\ Inside(a, l + 1) /\ At(a + l) = 0 /\ Utf8(x)
      /\ \A i \in 1 .. l : x[i] # 0
  BY <1>2 DEF NamesText
<1>4. a + l < Cells
  BY <1>1, <1>3, Numbers DEF Inside
<1>5. ~(l < n)
  <2> SUFFICES ASSUME l < n PROVE FALSE
    OBVIOUS
  <2>1. a + l \in a .. a + n - 1
    BY <1>1
  <2> QED
    BY <1>0, <1>3, <2>1 DEF At
<1>6. ~(n < l)
  <2> SUFFICES ASSUME n < l PROVE FALSE
    OBVIOUS
  <2>1. a + n < Cells /\ n + 1 \in 1 .. l /\ a + (n + 1) - 1 = a + n
    BY <1>1, <1>4, Numbers
  <2>2. x[n + 1] = At(a + n)
    BY <2>1
  <2> QED
    BY <1>0, <1>3, <2>1, <2>2 DEF At
<1>7. l = n
  BY <1>1, <1>5, <1>6
<1>8. ASSUME NEW i \in 1 .. n PROVE At(a + i - 1) = memory[a + i - 1]
  <2>1. a + i - 1 \in a .. a + n - 1
    BY <1>1
  <2> QED
    BY <1>0, <2>1 DEF At
<1>9. x = [i \in 1 .. n |-> memory[a + i - 1]]
  BY <1>7, <1>8
<1> HIDE DEF x
<1> QED
  BY <1>0, <1>1, <1>3, <1>4, <1>7, <1>9, Numbers

\* name_vector reads a name.
LEMMA NameHolds ==
    ASSUME LayoutInv, Name
    PROVE  LayoutInv'
<1> DEFINE a == pointer - base
<1>1. /\ lphase = "name" /\ kind = "names" /\ pointer \in Nat /\ base \in Nat /\ a \in Int /\ Turn
      /\ LayoutTypes
  BY Numbers, TurnComes DEF Name, LayoutInv, LayoutTypes, PointerInv
<1>2. CASE a < 0
  <2>1. Ends("error") /\ memory' = memory
    BY <1>2 DEF Name
  <2>2. LayoutTypes' /\ UnreadInv' /\ OuterInv' /\ PointerInv' /\ InnerInv'
    BY <2>1, Stops DEF LayoutInv, LayoutTypes
  <2>3. lphase' = "error" /\ UNCHANGED <<entryVars, memory, outer, pointer, inner, rows, row>>
    BY <2>1 DEF Ends
  <2>4. Turn'
    BY <1>1, <2>3, TurnKept DEF Kept
  <2>5. (kind = "names" /\ Nameless)'
    BY <1>1, <1>2, <2>3 DEF entryVars, Nameless, NamesText, Inside
  <2>6. VectorsAreRead' /\ PanicsAreKnown'
    BY <2>3, <2>4, <2>5, NamelessRefused
  <2> QED
    BY <2>2, <2>6 DEF LayoutInv
<1>3. CASE a > Cells
  <2>1. Ends("panic") /\ memory' = memory
    BY <1>1, <1>3, Numbers DEF Name
  <2>2. LayoutTypes' /\ UnreadInv' /\ OuterInv' /\ PointerInv' /\ InnerInv'
    BY <2>1, Stops DEF LayoutInv, LayoutTypes
  <2>3. VectorsAreRead' /\ PanicsAreKnown'
    BY <1>1, <1>3, <2>1 DEF Ends, entryVars, VectorsAreRead, PanicsAreKnown
  <2> QED
    BY <2>2, <2>3 DEF LayoutInv
<1>4. CASE a >= 0 /\ a <= Cells
  <2>1. PICK n \in 0 .. Cells - a : \E m \in NameLoads(a, n) :
             /\ memory' = Known(m)
             /\ IF a + n = Cells \/ ~Utf8([i \in 1 .. n |-> m[a + i - 1]]) THEN Ends("error")
                ELSE /\ rows' = Append(rows, [i \in 1 .. n |-> m[a + i - 1]]) /\ lphase' = "outer"
                     /\ UNCHANGED <<entryVars, outer, pointer, inner, row>>
    <3>1. ~(a < 0) /\ ~(a > Cells)
      BY <1>1, <1>4, Numbers
    <3> QED
      BY <3>1 DEF Name
  <2>2. PICK m \in NameLoads(a, n) :
             /\ memory' = Known(m)
             /\ IF a + n = Cells \/ ~Utf8([i \in 1 .. n |-> m[a + i - 1]]) THEN Ends("error")
                ELSE /\ rows' = Append(rows, [i \in 1 .. n |-> m[a + i - 1]]) /\ lphase' = "outer"
                     /\ UNCHANGED <<entryVars, outer, pointer, inner, row>>
    BY <2>1
  <2>3. a \in Nat /\ n \in Nat /\ a + n <= Cells
    BY <1>1, <1>4, Numbers
  <2>4. /\ Kept(memory, memory') /\ memory' \in [DOMAIN memory' -> Words]
        /\ \A c \in a .. a + n - 1 :
                c \in DOMAIN memory' /\ memory'[c] = m[c] /\ m[c] \in Words /\ m[c] # 0
        /\ a + n < Cells => a + n \in DOMAIN memory' /\ memory'[a + n] = 0
    <3> HIDE DEF a
    <3> QED
      BY <1>1, <2>2, <2>3, NameLoaded
  <2> DEFINE x == [i \in 1 .. n |-> m[a + i - 1]]
  <2>5. ASSUME NEW i \in 1 .. n
        PROVE  /\ a + i - 1 \in DOMAIN memory' /\ memory'[a + i - 1] = m[a + i - 1]
               /\ m[a + i - 1] \in Words /\ m[a + i - 1] # 0
    <3>1. a + i - 1 \in a .. a + n - 1
      BY <2>3
    <3> QED
      BY <2>4, <3>1
  <2>6. x = [i \in 1 .. n |-> memory'[a + i - 1]]
    BY <2>5
  <2>7. CASE a + n = Cells \/ ~Utf8(x)
    <3>1. Ends("error")
      BY <2>2, <2>7
    <3>2. LayoutTypes' /\ UnreadInv' /\ OuterInv' /\ PointerInv' /\ InnerInv'
      BY <2>4, <3>1, Stops
    <3>3. lphase' = "error" /\ UNCHANGED <<entryVars, base, kind, outer, pointer, inner, rows, row>>
      BY <3>1 DEF Ends, entryVars
    <3>4. Turn'
      BY <1>1, <2>4, <3>3, TurnKept
    <3>5. a + n = Cells \/ ~Utf8([i \in 1 .. n |-> memory'[a + i - 1]])
      BY <2>6, <2>7
    <3>6. \A c \in a .. a + n - 1 : c \in DOMAIN memory' /\ memory'[c] # 0
      BY <2>4
    <3>7. Nameless'
      <4>1. n \in 0 .. Cells /\ a >= 0
        BY <2>3, Numbers
      <4>2. Unnamed'
        BY <1>1, <2>3, <2>4, <3>3, <3>5, <3>6, <4>1 DEF Unnamed
      <4> QED
        BY <4>2, NoSuchName, PTL
    <3>8. VectorsAreRead' /\ PanicsAreKnown'
      BY <1>1, <3>3, <3>4, <3>7, NamelessRefused
    <3> QED
      BY <3>2, <3>8 DEF LayoutInv
  <2>8. CASE ~(a + n = Cells \/ ~Utf8(x))
    <3>1. /\ rows' = Append(rows, x) /\ lphase' = "outer"
          /\ UNCHANGED <<entryVars, outer, pointer, inner, row>>
      BY <2>2, <2>8
    <3>2. x \in Seq(Words) /\ Len(x) = n
      <4> HIDE DEF a
      <4> QED
        BY <2>3, <2>5
    <3>3. a + n < Cells
      BY <2>3, <2>8, Numbers
    <3>4. NameIs(memory', base, pointer, x)
      <4>1. \A i \in 1 .. n : x[i] = m[a + i - 1]
        OBVIOUS
      <4>2. pointer >= base
        BY <1>1, <2>3
      <4> HIDE DEF x
      <4> QED
        BY <2>3, <2>4, <2>5, <2>8, <3>2, <3>3, <4>1, <4>2 DEF NameIs
    <3>5. x \in Items /\ ItemIs(memory', kind, base, pointer, x)
      BY <1>1, <3>2, <3>4 DEF Items, ItemIs
    <3> HIDE DEF x
    <3> QED
      BY <1>1, <2>4, <3>1, <3>5, ItemAdded
  <2> QED
    BY <2>7, <2>8
<1> QED
  BY <1>1, <1>2, <1>3, <1>4, Numbers

\* What a vector read to its end says of the entry.
LEMMA RowsReadToTheEnd ==
    LayoutTypes /\ Len(rows) = outer.length /\ VectorIs(memory, base, published, outer)
    /\ (\A r \in 1 .. Len(rows) :
            /\ outer.data + r <= Cells /\ outer.data + r - 1 \in DOMAIN memory
            /\ ItemIs(memory, kind, base, memory[outer.data + r - 1], rows[r]))
    /\ lphase = "ok"
    => VectorsAreRead
<1> SUFFICES ASSUME LayoutTypes, Len(rows) = outer.length, VectorIs(memory, base, published, outer),
                    \A r \in 1 .. Len(rows) :
                        /\ outer.data + r <= Cells /\ outer.data + r - 1 \in DOMAIN memory
                        /\ ItemIs(memory, kind, base, memory[outer.data + r - 1], rows[r]),
                    lphase = "ok"
             PROVE  VectorsAreRead
  OBVIOUS
<1> DEFINE n == Len(rows)
<1>1. /\ n \in Nat /\ outer.data = published - base /\ At(published - base - HeaderCells) = n
      /\ outer.data \in Nat /\ outer.data >= HeaderCells /\ outer.data <= Cells
      /\ published \in Nat /\ base \in Nat
  BY Numbers DEF LayoutTypes, VectorIs, At, Vectors
<1>2. VectorInside(published, 1)
  <2>1. outer.data + n <= Cells
    <3>1. CASE n = 0
      BY <1>1, <3>1
    <3>2. CASE n # 0
      <4>1. n \in 1 .. n
        BY <1>1, <3>2
      <4> QED
        BY <4>1
    <3> QED
      BY <3>1, <3>2
  <2> HIDE DEF n
  <2> QED
    BY <1>1, <2>1, Numbers DEF VectorInside, Inside, HeaderCells
<1>3. /\ DOMAIN Pointers = 1 .. n /\ Len(Pointers) = n
      /\ \A r \in 1 .. n : Pointers[r] = memory[outer.data + r - 1]
  <2>1. Pointers = [r \in 1 .. n |-> At(outer.data + r - 1)]
    BY <1>1 DEF Pointers
  <2> HIDE DEF n
  <2>2. DOMAIN Pointers = 1 .. n /\ Len(Pointers) = n
    BY <1>1, <2>1
  <2>3. \A r \in 1 .. n : Pointers[r] = memory[outer.data + r - 1]
    BY <2>1 DEF At, n
  <2> QED
    BY <2>2, <2>3
<1>4. ASSUME NEW r \in DOMAIN rows
      PROVE  IF kind = "names" THEN NamesText(Pointers[r], rows[r])
             ELSE IF Pointers[r] = 0 THEN rows[r] = <<>>
             ELSE VectorInside(Pointers[r], ElementCells) /\ rows[r] = Counters(Pointers[r])
  <2> DEFINE p == Pointers[r]
             x == rows[r]
  <2>1. r \in 1 .. n
    BY DEF LayoutTypes
  <2>2. p \in Nat /\ ItemIs(memory, kind, base, p, x)
    BY <1>3, <2>1, Numbers DEF LayoutTypes
  <2> HIDE DEF p, x
  <2>3. CASE kind = "names"
    <3>1. NameIs(memory, base, p, x)
      BY <2>2, <2>3 DEF ItemIs
    <3>2. Len(x) \in Nat /\ DOMAIN x = 1 .. Len(x)
      BY <3>1 DEF NameIs
    <3>3. Inside(p - base, Len(x) + 1)
      BY <1>1, <2>2, <3>1, <3>2, Numbers DEF NameIs, Inside
    <3>4. NamesText(p, x)
      BY <3>1, <3>2, <3>3 DEF NameIs, NamesText, At
    <3> QED
      BY <2>3, <3>4 DEF p, x
  <2>4. CASE kind # "names" /\ p = 0
    BY <2>2, <2>4 DEF ItemIs, p, x
  <2>5. CASE kind # "names" /\ p # 0
    <3> DEFINE size == ElementCells
               l == Len(x)
    <3>1. size = CellsOf(kind) /\ size \in {1, 2}
      BY DEF ElementCells, CellsOf
    <3> HIDE DEF size
    <3>2. RowIs(memory, base, size, p, x)
      BY <2>2, <2>5, <3>1 DEF ItemIs
    <3>3. /\ x \in Seq(Seq(Words)) /\ l \in Nat /\ p - base >= HeaderCells /\ p - base <= Cells
          /\ At(p - base - HeaderCells) = l
      BY <3>2 DEF RowIs, VectorIs, At
    <3>4. VectorInside(p, size)
      <4>1. p - base + size * l <= Cells
        <5>1. CASE l = 0
          BY <1>1, <2>2, <3>1, <3>3, <5>1
        <5>2. CASE l # 0
          <6>1. l \in 1 .. l
            BY <3>3, <5>2
          <6>2. p - base + (l - 1) * size + size <= Cells
            BY <3>2, <6>1 DEF RowIs, ColumnIs
          <6>3. (l - 1) * size + size = size * l
            <7> HIDE DEF l
            <7> QED
              BY <3>1, <3>3
          <6>4. (l - 1) * size \in Int /\ size * l \in Int
            <7> HIDE DEF l
            <7> QED
              BY <3>1, <3>3
          <6> HIDE DEF l
          <6> QED
            BY <1>1, <2>2, <3>1, <6>2, <6>3, <6>4
        <5> QED
          BY <5>1, <5>2
      <4> HIDE DEF l
      <4> QED
        BY <1>1, <2>2, <3>3, <4>1, Numbers DEF VectorInside, Inside, HeaderCells
    <3>5. x = Counters(p)
      <4>1. Counters(p) = [c \in 1 .. l |-> [i \in 1 .. size |-> At(p - base + (c - 1) * size + i - 1)]]
        BY <3>3 DEF Counters, size
      <4>2. ASSUME NEW c \in 1 .. l
            PROVE  x[c] = [i \in 1 .. size |-> At(p - base + (c - 1) * size + i - 1)]
        BY <3>2 DEF RowIs, ColumnIs, At
      <4>3. x = [c \in 1 .. l |-> x[c]]
        BY <3>3
      <4> QED
        BY <4>1, <4>2, <4>3
    <3> QED
      BY <2>5, <3>4, <3>5 DEF p, x, size
  <2> QED
    BY <2>3, <2>4, <2>5
<1> QED
  BY <1>2, <1>3, <1>4 DEF VectorsAreRead

\* The end of the entry's vector.
LEMMA RowsEndHolds ==
    ASSUME LayoutInv, RowsEnd
    PROVE  LayoutInv'
<1>1. lphase = "outer" /\ Ends("ok") /\ memory' = memory
  BY DEF RowsEnd
<1>2. LayoutTypes' /\ UnreadInv' /\ OuterInv' /\ PointerInv' /\ InnerInv'
  BY <1>1, Stops DEF LayoutInv, LayoutTypes
<1>3. Len(rows) = outer.length
  <2>1. Len(rows) \in Nat /\ outer.length \in Nat /\ Len(rows) <= outer.length /\ Len(rows) >= outer.length
    BY Numbers DEF LayoutInv, LayoutTypes, Vectors, RowsEnd
  <2> QED
    BY <2>1
<1>4. lphase' = "ok" /\ UNCHANGED <<kind, base, published, checks, memory, outer, rows>>
  BY <1>1 DEF Ends, entryVars
<1>5. /\ VectorIs(memory, base, published, outer)
      /\ \A r \in 1 .. Len(rows) :
            /\ outer.data + r <= Cells /\ outer.data + r - 1 \in DOMAIN memory
            /\ ItemIs(memory, kind, base, memory[outer.data + r - 1], rows[r])
  BY <1>1 DEF LayoutInv, OuterInv
<1>6. /\ (VectorIs(memory, base, published, outer))' /\ (Len(rows) = outer.length)'
      /\ (\A r \in 1 .. Len(rows) :
            /\ outer.data + r <= Cells /\ outer.data + r - 1 \in DOMAIN memory
            /\ ItemIs(memory, kind, base, memory[outer.data + r - 1], rows[r]))'
      /\ (lphase = "ok")'
  BY <1>3, <1>4, <1>5
<1>7. VectorsAreRead'
  BY <1>2, <1>6, RowsReadToTheEnd, PTL
<1>8. PanicsAreKnown'
  BY <1>4 DEF PanicsAreKnown
<1> QED
  BY <1>2, <1>7, <1>8 DEF LayoutInv

\* The invariant of the stats vectors holds of every step.
LEMMA LayoutStep ==
    ASSUME LayoutInv, [DecodingNext]_decodingVars
    PROVE  LayoutInv'
<1>1. CASE LocateStep
  BY <1>1, VectorOfHolds, NextPointerHolds, InnerVectorHolds, NextColumnHolds, RowEndsHolds,
     NameHolds,
     RowsEndHolds DEF LocateStep
<1>2. ASSUME NEW k \in Kinds, NEW p \in Address, NEW b \in Bases, Locate(k, p, b) PROVE LayoutInv'
  BY <1>2, LocateHolds
<1>3. CASE UNCHANGED layoutVars
  <2>1. UNCHANGED <<lphase, kind, published, base, checks, memory, outer, pointer, inner, rows, row>>
    BY <1>3 DEF layoutVars, entryVars
  <2>2. LayoutTypes' /\ UnreadInv' /\ PointerInv'
    BY <2>1 DEF LayoutInv, LayoutTypes, UnreadInv, PointerInv
  <2>3. OuterInv' /\ InnerInv'
    BY <2>1 DEF LayoutInv, OuterInv, InnerInv
  <2>4. /\ \A c : At(c)' = At(c)
        /\ ElementCells' = ElementCells
    BY <2>1 DEF At, ElementCells
  <2>5. PanicsAreKnown'
    BY <2>1 DEF LayoutInv, PanicsAreKnown, At, ShiftOverflows
  <2>6. VectorsAreRead'
    <3>1. VectorsAreRead
      BY DEF LayoutInv
    <3>2. Pointers' = Pointers /\ \A p : Counters(p)' = Counters(p)
      BY <2>1 DEF Pointers, Counters, At, ElementCells
    <3>3. \A p, size : VectorInside(p, size)' <=> VectorInside(p, size)
      BY <2>1 DEF VectorInside, Inside, At
    <3>4. \A p, x : NamesText(p, x)' <=> NamesText(p, x)
      BY <2>1 DEF NamesText, Inside, At
    <3>5. \A p, n : ([i \in 1 .. n |-> At(p - base + i - 1)])' = [i \in 1 .. n |-> At(p - base + i - 1)]
      BY <2>1 DEF At
    <3> HIDE DEF Pointers, Counters, VectorInside, NamesText, At, ElementCells
    <3>6. CASE lphase = "ok"
      BY <2>1, <2>4, <3>1, <3>2, <3>3, <3>4, <3>6 DEF VectorsAreRead
    <3>7. CASE lphase = "error"
      BY <2>1, <2>4, <3>1, <3>2, <3>3, <3>4, <3>5, <3>7 DEF VectorsAreRead
    <3> QED
      BY <2>1, <3>6, <3>7 DEF VectorsAreRead
  <2> QED
    BY <2>2, <2>3, <2>5, <2>6 DEF LayoutInv
<1> QED
  BY <1>1, <1>2, <1>3 DEF DecodingNext, AMessage, ATable, AVector, AnAddress, decodingVars

\* A reader that has read nothing satisfies the invariant.
LEMMA LayoutInitially == DecodingInit => LayoutInv
<1> SUFFICES ASSUME LayoutIdle PROVE LayoutInv
  BY DEF DecodingInit
<1>1. NoVector \in Vectors /\ NoVector.length = 0
  BY Numbers DEF NoVector, Vectors
<1>2. <<>> \in Seq(Items) /\ <<>> \in Seq(Seq(Words)) /\ Len(<<>>) = 0
  OBVIOUS
<1>3. memory \in [DOMAIN memory -> Words]
  BY DEF LayoutIdle
<1>4. LayoutTypes
  <2>1. checks \in BOOLEAN
    BY DEF LayoutIdle
  <2>2. rows \in Seq(Items) /\ row \in Seq(Seq(Words)) /\ Len(rows) = 0 /\ Len(row) = 0
    BY <1>2 DEF LayoutIdle
  <2> QED
    BY <1>1, <1>3, <2>1, <2>2, Numbers DEF LayoutIdle, LayoutTypes, Kinds
<1>5. lphase = "idle" /\ rows = <<>>
  BY DEF LayoutIdle
<1> QED
  BY <1>4, <1>5 DEF LayoutInv, UnreadInv, OuterInv, PointerInv, InnerInv, VectorsAreRead,
     PanicsAreKnown

\* decode_entry of a vector returns what the segment holds, and refuses only
\* what does not lie inside or is no text.
THEOREM VectorsRead == DecodingSpec => []VectorsAreRead
<1>1. LayoutInv /\ [DecodingNext]_decodingVars => LayoutInv'
  BY LayoutStep
<1>2. LayoutInv => VectorsAreRead
  BY DEF LayoutInv
<1> QED
  BY <1>1, <1>2, LayoutInitially, PTL DEF DecodingSpec

\* Only a name outside the mapping or an alignment that is too large makes the
\* reader panic.
THEOREM KnownPanics == DecodingSpec => []PanicsAreKnown
<1>1. LayoutInv /\ [DecodingNext]_decodingVars => LayoutInv'
  BY LayoutStep
<1>2. LayoutInv => PanicsAreKnown
  BY DEF LayoutInv
<1> QED
  BY <1>1, <1>2, LayoutInitially, PTL DEF DecodingSpec

-----------------------------------------------------------------------------
(* Message tables, messages and the types *)

\* Every step keeps what holds of a message table being imported.
LEMMA TableStep == TableInv /\ [DecodingNext]_decodingVars => TableInv'
<1> SUFFICES ASSUME TableInv, [DecodingNext]_decodingVars PROVE TableInv'
  OBVIOUS
<1>1. CASE ReadCount
  BY <1>1, ReadCountKeeps
<1>2. CASE ReadEntry
  BY <1>2, ReadEntryKeeps
<1>3. CASE TableEnds
  BY <1>3, TableEndsKeeps
<1>4. CASE \E t \in Tables : Import(t)
  BY <1>4, ImportKeeps
<1>5. CASE UNCHANGED tableVars
  BY <1>5, TableStutters
<1> QED
  BY <1>1, <1>2, <1>3, <1>4, <1>5
     DEF DecodingNext, AMessage, ATable, AVector, AnAddress, ImportStep, decodingVars

\* Every step keeps what holds of a message being decoded.
LEMMA WireStep == WireInv /\ [DecodingNext]_decodingVars => WireInv'
<1> SUFFICES ASSUME WireInv, [DecodingNext]_decodingVars PROVE WireInv'
  OBVIOUS
<1>1. CASE NextField
  BY <1>1, NextFieldKeeps
<1>2. CASE EnterArray
  BY <1>2, EnterArrayKeeps
<1>3. CASE NextElement
  BY <1>3, NextElementKeeps
<1>4. CASE LeaveArray
  BY <1>4, LeaveArrayKeeps
<1>5. CASE Finish
  BY <1>5, FinishKeeps
<1>6. CASE \E m \in Samples : Deserialize(m)
  BY <1>6, DeserializeKeeps
<1>7. CASE UNCHANGED wireVars
  BY <1>7, WireStutters
<1> QED
  BY <1>1, <1>2, <1>3, <1>4, <1>5, <1>6, <1>7
     DEF DecodingNext, AMessage, ATable, AVector, AnAddress, DecodeStep, decodingVars

\* Every message decoded from DecodingSpec is decoded with the invariant.
LEMMA WireInvariance == DecodingSpec => []WireInv
<1>1. DecodingInit => WireInv
  BY WireInvInit DEF DecodingInit
<1> QED
  BY <1>1, WireStep, PTL DEF DecodingSpec

\* And every table imported.
LEMMA TableInvariance == DecodingSpec => []TableInv
<1>1. DecodingInit => TableInv
  BY TableInvInit DEF DecodingInit
<1> QED
  BY <1>1, TableStep, PTL DEF DecodingSpec

\* deserialize_message_table: a table is imported whole, each name with the id its
\* last entry gives, in whatever form its integers are written and whatever lies
\* behind it; it is refused only where the region ends within it or an entry is
\* no u16 or no text.
THEOREM TablesImported == DecodingSpec => []TablesAreImported
<1>1. TableInv => TablesAreImported
  BY TableIsImported
<1> QED
  BY <1>1, TableInvariance, PTL

\* serialize, serialized_len and deserialize of codec.rs: a message that arrives
\* as it was written is decoded to the values that were sent, for every message
\* definition and whatever values its fields have.
THEOREM WholeMessagesDecoded == DecodingSpec => []WholeMessagesDecode
<1>1. WireInv => WholeMessagesDecode
  BY WholeIsDecoded
<1> QED
  BY <1>1, WireInvariance, PTL

\* MsgBuf::decode: whatever bytes came, a message is decoded from all of them and
\* is the one that has them as its encoding, up to the bytes that are true.
THEOREM WireDecoded == DecodingSpec => []DecodedIsTheWire
<1>1. WireInv => DecodedIsTheWire
  BY WireIsDecoded
<1> QED
  BY <1>1, WireInvariance, PTL

\* value.rs, FixedString: a name that was made from a text and arrives whole is
\* read back as that text, or as as much of it as the array holds.
THEOREM NamesArrived == DecodingSpec => []NamesArrive
<1>1. WireInv => NamesArrive
  BY NameArrives
<1> QED
  BY <1>1, WireInvariance, PTL

\* What comes of an address has a tag.
Tags == {"none", "ok", "error", "panic"}

\* Whatever address is followed, its verdict is one of the four.
LEMMA TagStep == verdict.tag \in Tags /\ [DecodingNext]_decodingVars => (verdict.tag \in Tags)'
<1> SUFFICES ASSUME verdict.tag \in Tags, [DecodingNext]_decodingVars PROVE (verdict.tag \in Tags)'
  OBVIOUS
<1>1. CASE RangeStep
  <2>1. PICK region \in Regions, a \in Addresses :
            \/ verdict' = remaining_from(region, a)
            \/ \E n \in Halves : verdict' = from_address(region, a, n)
            \/ \E s \in BOOLEAN, q \in Queues : verdict' = validate(region, a, s, q)
    BY <1>1 DEF RangeStep, FollowTable, FollowMessage, FollowHeader
  <2>2. remaining_from(region, a).tag \in Tags
    BY DEF remaining_from, Verdict, Tags
  <2>3. ASSUME NEW n \in Halves PROVE from_address(region, a, n).tag \in Tags
    BY DEF from_address, Verdict, Tags
  <2>4. ASSUME NEW s \in BOOLEAN, NEW q \in Queues PROVE validate(region, a, s, q).tag \in Tags
    <3>1. attach(q, End(region) - q.at).tag \in Tags
      BY DEF attach, Verdict, Tags
    <3> HIDE DEF Tags
    <3>2. Verdict("error").tag \in Tags
      BY DEF Verdict, Tags
    <3> QED
      BY <3>1, <3>2 DEF validate
  <2> QED
    BY <2>1, <2>2, <2>3, <2>4
<1>2. CASE UNCHANGED rangeVars
  BY <1>2 DEF rangeVars
<1> QED
  BY <1>1, <1>2 DEF DecodingNext, AMessage, ATable, AVector, AnAddress, decodingVars

\* The decoders' cursors, counters, ids and verdicts stay in their types: a cursor
\* never leaves its input, and a visitor's counter counts what is left.
THEOREM DecodingTyped == DecodingSpec => []DecodingTypeOK
<1> DEFINE Job == job \in {"none", "message", "table", "vector", "address"}
           Tag == verdict.tag \in Tags
<1>1. DecodingInit => Job /\ Tag /\ LayoutInv
  BY LayoutInitially DEF DecodingInit, RangeIdle, Verdict, Tags
<1>2. Job /\ [DecodingNext]_decodingVars => Job'
  BY DEF DecodingNext, AMessage, ATable, AVector, AnAddress, decodingVars
<1>3. Tag /\ [DecodingNext]_decodingVars => Tag'
  BY TagStep
<1>4. LayoutInv /\ [DecodingNext]_decodingVars => LayoutInv'
  BY LayoutStep
<1>5. LayoutInv => LayoutTypeOK
  BY DEF LayoutInv, LayoutTypes, LayoutTypeOK, Vectors
<1>6. WireInv => WireTypeOK
  BY WireIsTyped
<1>7. TableInv => TableTypeOK
  BY DEF TableInv
<1>8. Job /\ Tag /\ LayoutTypeOK /\ WireTypeOK /\ TableTypeOK => DecodingTypeOK
  BY DEF DecodingTypeOK, Tags
<1> HIDE DEF Job, Tag
<1> QED
  BY <1>1, <1>2, <1>3, <1>4, <1>5, <1>6, <1>7, <1>8, WireInvariance, TableInvariance, PTL
     DEF DecodingSpec
=============================================================================
