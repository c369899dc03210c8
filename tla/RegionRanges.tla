---------------------------- MODULE RegionRanges ----------------------------
(***************************************************************************)
(* Addresses a client takes from shared memory, and the checks before it        *)
(* follows them (region.rs, memory.rs and SvmQueue::attach): a message's         *)
(* address from the queue, the table's address from the reply, the header's      *)
(* from the region and the queue's from the header.                           *)
(***************************************************************************)
EXTENDS Integers, FiniteSets

CONSTANTS
    AddressSpace,       \* 2^64
    Regions,            \* where the region may be mapped: records of base and size
    Halves,             \* values of a 32-bit word
    PrefixSize,         \* layout(0).1: what is in front of a message's payload
    PrefixAlign,
    HeaderSize,         \* of ShmemHeader
    HeaderAlign,
    QueueSize,          \* of SvmQueue
    CacheLine,
    PointerSize

VARIABLES
    request,    \* the region, an address, and what the client finds there
    verdict     \* what came of it; for a table, the bytes the client may read

rangeVars == <<request, verdict>>

Addresses == 0 .. AddressSpace - 1

ASSUME RegionsAssumption ==
    /\ AddressSpace \in Nat /\ Halves \subseteq Nat
    /\ Regions \subseteq [base : Nat \ {0}, size : Nat]
    /\ \A r \in Regions : r.base + r.size < AddressSpace

ASSUME SizesAssumption ==
    {PrefixSize, PrefixAlign, HeaderSize, HeaderAlign, QueueSize, CacheLine, PointerSize}
        \subseteq Nat \ {0}

Verdict(tag) == [tag |-> tag, bytes |-> 0]
End(self) == self.base + self.size

RangeIdle == request = [what |-> "none"] /\ verdict = Verdict("none")

IsMultipleOf(a, n) == a % n = 0

-----------------------------------------------------------------------------
(* SvmRegion *)

\* Mutant of contains_range: only the start is compared.
contains_start(self, start, bytes) ==
    start >= self.base /\ start <= End(self)

\* contains_range: both sums are checked.
contains_range(self, start, bytes) ==
    /\ End(self) < AddressSpace
    /\ start >= self.base
    /\ start + bytes < AddressSpace /\ start + bytes <= End(self)

\* remaining_from: a slice to the end of the region, or None.
remaining_from(self, address) ==
    LET end == End(self) IN
    IF end >= AddressSpace \/ address < self.base \/ address > end
    THEN Verdict("error") ELSE [tag |-> "ok", bytes |-> end - address]

-----------------------------------------------------------------------------
(* MsgBuf and ShmemHeader *)

\* MsgBuf::from_address: length is the word the prefix holds.
from_address(region, address, length) ==
    LET prefix == address - PrefixSize IN
    IF /\ prefix > 0 /\ IsMultipleOf(prefix, PrefixAlign)
       /\ contains_range(region, prefix, PrefixSize) /\ contains_range(region, address, length)
    THEN [tag |-> "ok", bytes |-> length]
    ELSE Verdict("error")

\* SvmQueue::attach in the bytes from the queue to the end of the region.  The
\* alignment is asserted.
attach(q, bytes) ==
    IF ~IsMultipleOf(q.at, CacheLine) THEN Verdict("panic")
    ELSE IF /\ bytes >= QueueSize
            /\ q.maxsize # 0 /\ q.elsize # 0
            /\ q.head < q.maxsize /\ q.tail < q.maxsize /\ q.cursize <= q.maxsize
            /\ QueueSize + q.maxsize * q.elsize < AddressSpace
            /\ QueueSize + q.maxsize * q.elsize <= bytes
         THEN Verdict("ok") ELSE Verdict("error")

\* ShmemHeader::validate: version and queue are what the header says.
validate(region, address, supported, q) ==
    IF \/ ~IsMultipleOf(address, HeaderAlign) \/ ~contains_range(region, address, HeaderSize)
       \/ ~supported \/ ~contains_range(region, q.at, QueueSize)
    THEN Verdict("error")
    ELSE LET attached == attach(q, End(region) - q.at) IN
         IF attached.tag = "ok" /\ q.elsize # PointerSize THEN Verdict("error") ELSE attached

-----------------------------------------------------------------------------

Unasked == request.what = "none"

\* Client::receive takes an address from its queue,
FollowMessage(region, a, length) ==
    /\ Unasked
    /\ request' = [what |-> "message", region |-> region, at |-> a, length |-> length]
    /\ verdict' = from_address(region, a, length)

\* Client::connect the table's from the reply,
FollowTable(region, a) ==
    /\ Unasked
    /\ request' = [what |-> "table", region |-> region, at |-> a]
    /\ verdict' = remaining_from(region, a)

\* and the header's, which is not null, from the region.
FollowHeader(region, a, supported, q) ==
    /\ Unasked /\ a # 0
    /\ request' = [what |-> "header", region |-> region, at |-> a, supported |-> supported,
                   queue |-> q]
    /\ verdict' = validate(region, a, supported, q)

\* What a queue's words may be.  Indexes and occupancy matter next to its
\* capacity.
Queues ==
    {q \in [at : Addresses \ {0}, maxsize : Halves, elsize : Halves,
            head : Halves, tail : Halves, cursize : Halves] :
        /\ {q.head, q.tail} \subseteq {0, q.maxsize}
        /\ q.cursize \in {q.maxsize, q.maxsize + 1}}

RangeStep ==
    \E region \in Regions, a \in Addresses :
        \/ FollowTable(region, a)
        \/ \E n \in Halves : FollowMessage(region, a, n)
        \/ \E s \in BOOLEAN, q \in Queues : FollowHeader(region, a, s, q)

-----------------------------------------------------------------------------
(* Properties *)

\* n bytes at a that belong to the region, in integers without end
Owned(a, n) ==
    a .. a + n - 1 \subseteq request.region.base .. End(request.region) - 1

\* What the client goes on to read or write through an address it was given, the
\* message's prefix and payload, the rest of the region from the table on, the
\* header and the queue with its ring, belongs to the region it has mapped;
\* and it refuses only what does not, what is misaligned and what is not a
\* queue of pointers.  (A misaligned queue is refused by an assertion.)
OnlyTheRegionIsFollowed ==
    LET r == request
        ok == verdict.tag = "ok"
    IN  CASE r.what = "none" -> TRUE
          [] r.what = "message" ->
                ok <=> /\ Owned(r.at - PrefixSize, PrefixSize + r.length)
                       /\ IsMultipleOf(r.at - PrefixSize, PrefixAlign)
          [] r.what = "table" ->
                /\ ok => Owned(r.at, verdict.bytes) /\ ~Owned(r.at, verdict.bytes + 1)
                /\ r.at \in r.region.base .. End(r.region) <=> ok
          [] r.what = "header" ->
                ok <=> /\ Owned(r.at, HeaderSize) /\ IsMultipleOf(r.at, HeaderAlign)
                       /\ r.supported /\ IsMultipleOf(r.queue.at, CacheLine)
                       /\ Owned(r.queue.at, QueueSize + r.queue.maxsize * r.queue.elsize)
                       /\ r.queue.elsize = PointerSize /\ r.queue.maxsize > 0
                       /\ {r.queue.head, r.queue.tail} \subseteq 0 .. r.queue.maxsize - 1
                       /\ r.queue.cursize <= r.queue.maxsize
=============================================================================
