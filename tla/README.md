# TLA+ models of netsystem-client

These modules model the part of netsystem-client that talks to a daemon through
shared memory: the queue, the region attachment, the Binary API connection and
its wire format, the stats connection, its reader and the reports made with it.
TLC checks them on small instances; TLAPS proves most of the safety properties,
and that the queue implements its abstract specification, for every value of the
constants.

Paths below are relative to `src/rust/crates/`.

## The system

| Part | State | Operations | Interacts with |
|---|---|---|---|
| Shared-memory queue, `hammer-shmem/src/queue.rs` | ring of elements, `head`, `tail`, `cursize`, robust mutex, condition variable, two event descriptors | `add`, `add2`, `sub`, `sub2`, `len`, `attach`, `reset_mutex_for_restart`, `set_*_event_fd` | every process that maps it |
| SVM region, `hammer-shmem/src/region.rs` | one fixed address range per segment | `attach`, `Drop` | the file, the kernel's mappings, other threads |
| Shared heap, `hammer-shmem/src/heap.rs` | dlmalloc arena in the region | `allocate`, `deallocate` | client and daemon |
| Binary API client, `hammer-binary-api-client/src/client.rs`, `hammer-binary-api-protocol/src/memory.rs` | `client_index`, `message_ids`, `context_counter`, response queue, message buffers | `connect`, `invoke`, `disconnect`, `Drop` | two queues, the heap, the async runtime |
| Stats reader, `hammer-stats-client/src/client.rs`, `hammer-stats-protocol/src/protocol.rs` | read-only mapping | `names`, `read` | the daemon that publishes directories |
| Stats handoff, same file | a socket, a descriptor, the mapping | `connect`, `Drop` | the listener, the kernel's socket queues |
| Stats projections, `hammer-stats-client/src/{node,node_error,buffer_pools,memory,system}.rs` | none | `report`; `node`, `main_loop_rates_per_second` of finished reports | several `read`s |
| Codec, fixed strings, message types, `hammer-binary-api-protocol/src/` | the cursor of one decode | `serialize`, `serialized_len`, `deserialize` | client |
| Message table, `hammer-binary-api-protocol/src/table.rs` | none | `deserialize_message_table` | `connect` of the client |
| RPC services, `hammer-binary-api-rpc/src/` | none | one `invoke` each | client |
| `hammerctl` | none | command loop | services, stats |

The daemon is not in the repository. Where a model needs it, its actions are
derived from what the client relies on and are marked external in
`PROJECT.json`.

What is hard here: several processes store to one header and may die between two
stores; notifications are sent on edges only; a caller has to tell "not sent"
from "sent, then an error"; replies can come after the call that wanted them has
left; the stats reader runs against a writer it cannot stop; lengths, offsets and
addresses come from memory another process writes. `PROJECT.json` lists
these hazards, each at its line, with the properties that would catch them.

## Modules

| Module | What it is |
|---|---|
| `BoundedFifo` | abstract specification: a bounded FIFO whose callers offer one or two elements, and get the oldest |
| `SvmQueue` | the queue, one step per observable load or store; refines `BoundedFifo` |
| `SvmQueueProofs` | inductive invariant, theorems and refinement of `SvmQueue` |
| `SvmRegion` | threads that attach to one address range |
| `BinaryApiClient` | a connection: client, daemon, two FIFOs of buffers, the heap |
| `StatsSegment` | the optimistic reader and a publishing daemon |
| `StatsReport` | the projections: reports made of several reads, node lookups and rates |
| `StatsHandoff` | `StatsClient::connect`, the listener and the kernel's queues |
| `StatsSession` | composes `StatsHandoff` and `StatsReport` over the life of clients and daemons |
| `Bytes` | integers in either byte order and UTF-8, for bytes of `Radix` values |
| `WireCodec` | message definitions, serializer, the deserializer's cursor |
| `MessageTable` | the message table `connect` imports |
| `StatsLayout` | vectors of the stats segment, read from arbitrary memory |
| `RegionRanges` | checks of addresses before they are followed |
| `Decoding` | composes the four decoders, one input at a time |
| `SvmRegionProofs`, `StatsSegmentProofs`, `BinaryApiClientProofs`, `StatsSessionProofs`, `DecodingProofs` | theorems about the module they are named after; `StatsSessionProofs` also about `StatsReport` and `StatsHandoff`, `DecodingProofs` about the four decoders |
| `CodecProofs` | lemmas about `Bytes`, `WireCodec` and `MessageTable`: what the steps of these decoders keep, for the theorems of `DecodingProofs` |
| `Induction` | induction on the naturals and finite images, for the proofs |
| `MC*` | instances for TLC |

`BinaryApiClient` takes queue operations as single steps. That is the promise
`BoundedFifo` states: what a call offers is put in together and once, or is withdrawn
with nothing of it in the queue; elements come out in the order they went in; at most
`Capacity` are there. A caller that dies may leave the first of its two elements. A
death between an index store and the size store voids the promise, and nothing is
said of the queue from then on. The runs `queue_fifo` and `queue_death` check it of
`SvmQueue` and `FifoImplemented` proves it. The outcomes (full, empty, busy, error
after the commit) are the results of `SvmQueue`, and `CommitMatchesResult` is what
entitles `send_message` to free a message.

Definitions whose comment begins with "Mutant" are not part of a specification.
Each changes one definition the way a plausible bug would and is listed in
`PROJECT.json` with the property that then fails.

### SvmQueue

A process runs one call at a time; `pc[p]` says where it is. `owner` is the
mutex: free, held, or `"dead"` after its holder died. Between `test` and
`release` a process holds it. `write_one` is three steps, `Copy`, `StoreTail`
and `GrowSize`, since a death in between is visible afterwards; `sub_nolock` is
`Take` and `ShrinkSize`. A wait releases the mutex and sleeps on the condition
variable, or, with a producer descriptor set, spins on `cursize`. `Crash` stops a
process at any step. `Endless` are processes whose calls are not counted, so that
the others meet interference without end. `torn` and `muted` are history variables: an owner died
between an index store and the size store, or owing a notification. `robust`
becomes false when `reset_mutex_for_restart` zeroes the mutex.

Abstractions: elements are model values, element sizes and the layout are left
out, memory accesses under the mutex are sequentially consistent. `is_empty` and
`is_full` are `len`. Failures of pthread calls other than owner death are left
out, and so are the unlocked ring accessors, which only a server uses.
`SignalAfterCommit` (a failing `notify_all`) is not distinguished from
`EventSignalAfterCommit`. Locking the mutex of a dead owner, marking it consistent
and unlocking it is one step: the process looks at nothing of the queue in between.
`reset_mutex_for_restart` does not look whether a live process holds the mutex; its
comment (`queue.rs:415-417`) asks the caller to see to it, and the model's restart does.

### SvmRegion

`range` is the owner of the address range the header names. `attach` is split at
its system calls: open, `probe_backing`, the reservation, the fixed mapping,
`validate`, and on failure `munmap` followed by the `munmap` of `Drop`. Each system
call may fail, and the file may hold a header of any kind `validate` refuses, but for
one that moves the region to another base or size between the two reads: that takes
the path of the others, and its range is not this one. The rest
of the process may map into a free range. `munmap` removes whatever is there,
as the system call does, and `stray` records when the second one removes what
others mapped.

### BinaryApiClient

`heap` maps each buffer to the message allocated there; a queue holds buffers.
`send_message`, `receive` and the handling of each message are actions; `connect`,
`invoke` and `disconnect` differ in what they expect (`Expected`) and in what they
do with it. The only await is the sleep in the polling loops, so `Cancel` (the
future is dropped) is possible exactly there. `expired` is the deadline. `number`
in a message, `drawn`, `abandoned` and `leaked` are history: which request a reply
belongs to, how many contexts were drawn, whether a call left before its reply,
and buffers dropped on the error paths that do not free them.

`Methods` are the requests whose reply carries a context, which is every message type
but `memclnt_delete`: a caller that invokes that one by itself, and the arm of
`invoke` for a reply without a context (`client.rs:234`), are left out, as are the
static checks of `invoke` on its type parameters. `OwnTable` says which of the
client's own messages the daemon's table names; the runs take a table with all of
them, the proofs any. A step on the heap always ends: that the daemon stops while it
holds dlmalloc's lock, which lies in the region, is left out. The bit 0x8000_0000 of
a context is left out: it is the same for all. A refused disconnect returns
`CreateRejected`, as in the code.

### StatsSegment

The daemon raises `in_progress`, stores entries, length and pointer in any order,
in place or in a second buffer, advances the epoch and lowers `in_progress`. The
reader's two header copies are plain copies of 40 bytes, which the build and the
machine split into loads: `Loads` says which words one load may take together and
`NotAfter` in which order they may come, and the daemon may store between any two.
Two conditions make a copy sound: `epoch` is loaded no later than `directory_vector`
(the first copy relies on it) and `in_progress` no later than `epoch` (the second
one does); a load may take both of a pair. Memory accesses of the reader are otherwise
in program order. Every entry it looks at is a load of its own.
`Answer` is the reference: what `names` and `read` yield on a directory at rest.
Rows are read with their entry and are never stored to under an epoch; the cells of
counters, which are, belong to `StatsReport`.

### StatsReport

A report lists the names, unless it is of `/sys`, and reads the ones it wants; the
entry a read finds is one of the published directory, as `ValuesArePublished` of
`StatsSegment` allows, and the cells of its counter are loaded one by one
(`LoadCell`, `Read` for the last). The daemon may publish at any time (`Publish`: the
read begins again), and its workers may count, or the counts be cleared, between any
two cells (`Work`: the same layout, no epoch). A directory may name the nodes of its
counters late, as
`rust/crates/hammer-stats-client/tests/stats_segment_e2e.rs:564-565` has it: `Early`
and `Blank` of the run do. `ReadMisled` is the failure `stats_failures` shows, of any
kind. A name is the sequence of its segments and a value keeps its rows, so that
every check of a type, a row count or a column count is made. `plan` holds the reads
still to be made. `With` collects what was read; sorting the finished report is left
out. A caller may keep reports of `/sys` and compare any two, in either order.
`quiet`, `seen` and `lasting` are history: whether anything was published meanwhile,
what was, and which names were published all the time; `looped` and `mark` are what
the main loops really ran, and what each had run when a report loaded its count.

### StatsHandoff and StatsSession

`connect` is split at its system calls. `open` holds the descriptors the process
has: the socket, and the received ones, numbered in the order of the message. The
listener may accept and never send, close, send any number of descriptors, or have
no room in its queue of connections; the descriptor may refer to a file that is
empty, too short for the header or of another version. Every system call may fail
once. A message whose control data do not fit is truncated; `ControlFds` is two,
since `CMSG_SPACE` of one descriptor is padded to the room of two on 64-bit targets.

`StatsSession` lets a client connect, report, be dropped and connect again. The
segment outlives its daemon; `publisher` says whether the daemon that handed it
over runs, is gone, or is gone with `in_progress` raised, after which every read of
this mapping gives up (`ReadTorn`). A segment mapped anew counts as another run of
the counters.

### Bytes, WireCodec, MessageTable, StatsLayout, RegionRanges, Decoding

These modules are about data, and keep the arithmetic of the code at a smaller
width. A byte has `Radix` values instead of 256; the borders of the code (128,
16384, the halves of a byte that UTF-8 tells apart) are the same fractions of
`Radix`, and `u16` and `u64` are two and eight such bytes. Addresses and lengths
of the segment are one cell wide, those of the region lie below `AddressSpace`;
sums are compared with that width where the code uses checked arithmetic.

`WireCodec` writes a message into a buffer of the measured length and decodes what
arrives field by field. `remaining`, `fields` and `opaque` are the Deserializer's
own counters, which an array saves and restores. A message may arrive as it was
written, cut at any byte, longer, or with any byte changed. An integer is the
sequence of its bytes: the codec only orders them. `api_versions` has two elements
instead of eight.

`MessageTable` decodes a table in any form of its integers, followed by the rest of
the region or cut by its end. `StatsLayout` chooses the content of a cell of the
mapping when it is first read, so that the vectors may overlap, point anywhere and
be of any length, as in a torn publication. `checks` tells a build with overflow
checks from one without. `RegionRanges` evaluates the checks of `from_address`,
`remaining_from` and `validate` over every address. `Decoding` runs one of the four
on one input; they share no state.

## Runs

| Run | Shows | Bounds |
|---|---|---|
| `queue_fifo` | refinement of `BoundedFifo`, results match commits, calls settle, also in event mode | 3 processes, 2 slots, 2 calls each, descriptors set at any time, 1 spurious wakeup |
| `queue_death` | mutual exclusion, ring consistency, `attach` beside dying owners, no lost wakeup, refinement up to a torn commit, calls return or rightly sleep | 2 calls each, 1 death, 1 mutex reset |
| `queue_timed` | calls that never block return; calls that wait with a timeout, or only for the mutex, return but for two reasons | 1 death; 1 call each of two processes, any number of a third |
| `stats_read` | decoding agrees with the reference; returned values are of one published directory; reads return | 6 directories, 1 publication, 2 reads, 2 attempts; header copies in every sound order |
| `stats_failures` | violation, see Findings | |
| `stats_torn` | violation, see Findings | header copies in any order |
| `stats_session` | quiet reports are what the directory says; shapes, lasting aliases and node counters hold over several reads of several cells; rates are what the loops ran; `connect` gives back what it opened, and ends | 8 directories, 4 files; 2 connects; at most 3 connects, publications, changes of numbers, misled reads and troubles together |
| `decoding` | whole messages decode to what was sent; nothing else is accepted; names; tables; vectors; known panics; addresses | 10 definitions and 6 texts, bytes of 8 values, strings of 4 bytes; 29 tables; mapping of 6 cells with 5 contents; 16 addresses, 2 regions |
| `client_session` | buffer ownership, pairing of replies, lifetime of the response queue, also with malformed messages | 4 calls, 2 contexts, so that they wrap; 1 fault; 1 keepalive |
| `client_live` | every call returns | 3 calls, 2 keepalives |
| `region_attach` | failed attaches leave nothing mapped; nothing but the second `munmap` displaces a mapping | 2 threads, 4 attaches, 2 other mappings, 1 failed system call, 2 restarts |
| `region_owner` | violation, see Findings | |

Two slots are the least at which a pair fits, the ring wraps and both edges
differ from the middle; three processes are the least at which one sleeps, one
acts and one interferes. Every hazard involves at most one death, and a second
death only repeats the state the first leaves. For the safety properties the
theorems remove these bounds. In the stats runs two attempts stand for
`RETRY_LIMIT` and three symlinks for `SYMLINK_LIMIT`: the chains are as long as
the limit, one shorter, and cyclic. One publication is enough there: a value is
only accepted under the epoch it began with, so at most one publication overlaps
it, and what earlier ones leave in the buffers is in the initial state.

In `queue_timed` the third process stands for interference without end: with it the
two excuses of `TimedCallsReturn` are needed, and the run fails without either. In
`stats_session` the events are bounded together because a hazard is made of at most
three of them: connect, a daemon's exit, and what follows; or connect and two
publications, which are enough to separate any two reads of a report, or the cells of
one, from a third. In `decoding` eight values are the least at which the three low
bits of an integer's first byte differ and UTF-8 has ASCII, continuation and first
bytes; strings of four bytes hold a character of two before, at and beyond their end;
ids lie at both sides of every border of the forms and of a `u16`. Six cells hold a
vector, a row and a name that overlap, touch the end or miss it by one.

Deadlock is not checked: every model may stop, because its calls are used up, a
process has died or a client was dropped.

**Fairness.** `SvmQueue`: weak fairness of each process's steps, that is, a
runnable process runs. A death, a spurious wakeup and a new call are not owed; the
timeout of a timed wait is. The mutex is not assumed to be fair. `StatsSegment`: the reader runs, the daemon owes
nothing. `StatsSession`: a `connect` under way runs and its receive timeout passes;
listener, daemon and caller owe nothing, and signals, which restart the timeout,
are finite. `BinaryApiClient`: a started future is polled and time passes; the daemon
owes nothing, and the keepalives are finite, since the deadline is only looked at
when the queue is empty.

## Findings

* `stats_failures`: an error met while decoding leaves `with_published_directory`
  before the second header read, so that `MetricNotFound` can be reported of a
  name that every published directory has. `node_error.rs` takes it for absence.
* `stats_torn`: the header is copied with plain loads, which the build may order. If
  the second copy loads `epoch` before `in_progress`, as a copy word by word in
  ascending order does, a publication that ends between the two loads goes
  unnoticed, and what was decoded while it was made is returned. If the first copy
  loads `directory_vector` before `epoch`, a superseded directory passes as current.
  Either is enough; a build whose copies load `in_progress`, `epoch` and
  `directory_vector` in that order, or the first two at once, shows neither.
* `region_owner`: an attach whose validation fails unmaps the range twice.

Weaknesses no comment or test contradicts are excused in the properties, or noted
here:

* A waiting `add2` is woken only when the queue leaves full, not when a second slot
  becomes free (`Settled`); a waiter that sleeps on the condition variable when a
  descriptor is set is not woken through it. The contract of
  `set_producer_event_fd` asks for the descriptors before use.
* The timeout of a timed wait starts anew with every notification that finds the queue
  not ready (`queue.rs:338`, 510, 535), so that a call may last longer by as much as
  others notify it (`TimedCallsReturn` excuses a call that is notified for ever).
* After an `invoke` that timed out or was cancelled, the next call takes the late
  reply, fails with `ContextMismatch`, and leaves its own reply to its successor
  (`PairingKept` says it needs such a start; `OwnReply`, that no wrong reply is
  ever returned).
* `connect` of the stats client blocks while the listener's queue of connections is
  full, since the timeout is set afterwards and is one of receiving (`ConnectEnds`
  excuses it). A message with two descriptors is taken for one with one, and the
  second stays open (`NothingHeld` excuses it).
* A name's pointer beyond the mapping makes `name_vector` panic, and so does, in a
  build with overflow checks, the alignment byte of a vector header
  (`PanicsAreKnown` says there are no others). A queue that is not aligned to a
  cache line makes `attach` assert instead of returning an error.
* A region header with a data heap and no private heap makes `SvmRegion::validate`
  follow a null pointer (`region.rs:255`), although line 242 allows for it. Memory
  faults are outside the model.
* `Vec::with_capacity` takes counts from shared memory before they are compared
  with what is there (`client.rs:161`, `table.rs:11`).
* A slot of a node report whose counters belonged to two nodes while the report was
  made, or to none at first, gives a node counts that are not its own, and a rate
  over cleared counters that have passed their earlier value is wrong; neither can be
  told from the reports.
* The three gauges of a buffer pool are read one by one, so `buffer_count` may add
  gauges of different samples; `buffer_pools.rs:16-17` says so.
* The serializer hands the byte order of `client_index` on to the elements of an
  array, the deserializer does not. No declared message has such an array.

## Proofs

Each theorem is of the form `Spec => []P` for a `P` that a run checks, or is a
refinement, and holds for every value of the constants that satisfies the named
assumptions of the module; TLC evaluates those in its runs. In each component the
argument is an inductive invariant `IInv`, because the properties talk about the
end of a call and the steps before it have to carry what they rely on.

**Queue** (`SvmQueueProofs`): `TypeOK`, `MutualExclusion`, `RingConsistent`,
`CommitMatchesResult`, `NoLostWakeup`, `AttachSucceeds` and `ImplementsFifo`, for any
processes, slots, calls, deaths, restarts and spurious wakeups. Assumed: at least
one slot, calls from `OpSet`, `"free"` and `"dead"` are not processes. `IInv` adds

* `OwnerInv`: a process in the critical section is the owner. Mutual exclusion
  alone does not survive `Acquire`, and a reset of the mutex needs to know that a
  live holder is recorded.
* `CallInv`: what a call relies on between its steps: the occupancy it tested
  still holds while it owns the mutex, the elements it has written so far, and that
  `edge` is what it read. Without it `GrowSize` could pass `maxsize` and
  `ShrinkSize` zero.
* `RingInv`: the relation of `head`, `tail` and `cursize` in terms of the one
  owner that may be between two stores.

`NoLostWakeup` then follows step by step: the step that makes the queue ready for
a sleeper is the one that makes its process owe a notification, and the
notification wakes all. The refinement needs one thing more, `SlotInv`: between
its steps, the slots a writer has filled hold what its caller passed. Every step
that is no store into the ring leaves the abstract queue alone or makes or withdraws
an offer (`Aside`); the five that store, and a death among them, are one lemma each.
The put happens at the last `GrowSize`, the get at `Take`.

**Region** (`SvmRegionProofs`): `TypeOK`, `OnlyDropStrays`, `NothingLeftMapped`, for
any threads. `RangeInv` says at which steps of `attach` a thread owns the range.

**Handoff** (`StatsSessionProofs`): `NothingHeld`. `OpenInv` says which descriptors
are open at each system call, `SizeInv` that a mapping is as long as the header.

**Stats reader** (`StatsSegmentProofs`): `TypeOK`, `ValuesArePublished` and
`QuietReadsAnswer`, for any directories, limits and numbers of publications. The first
has two hypotheses, those on the order of the loads in a header copy which
`stats_torn` drops; the split into loads is free otherwise. The
heart is `EpochInv`: both header copies can carry one epoch, with `in_progress`
down, only if no publication began between them. `ReadInv` says that as long as
that may still come out, the entries looked at are those of the directory of that
epoch, and relates the symlinks followed so far to the reference `decode_entry`.

**Binary API client** (`BinaryApiClientProofs`): `TypeOK`, `BufferOwnership`,
`QueueOutlivesUsers`, `OwnReply`, `PairingKept`, for any buffers, methods, calls,
queue sizes and modulus of contexts. `OwnInv` gives every allocated buffer one
place. `PhaseInv` is the life of a connection (`Starting`, `Asking`, `Answered`,
`Answering`, `Failed`, `InSession`, `Closed`) with the messages that can be about in
each: that is why `release_queue` finds nobody using the queue. `NumberInv` ties the
contexts of messages to the numbers of requests, `PairInv` says that at most one
message of a request and its reply is about unless a call left early.

**Stats reports and sessions** (`StatsSessionProofs`): `SessionTypeOK`,
`NothingHeld`, `ShapesAgree`, `ErrorsComplete`, `QuietReportsAnswer`,
`RatesAreWhatTheLoopsRan`, `NodesKeepTheirCounters`, for any directories, any number
of publications, daemons and clients. `SeenInv` and `ReadInv` tie what was read to
what was published since the report began, `AliasInv` the error aliases listed to
the ones still to be read, `LoopInv` and `RateInv` the counters to the main loops.
The cells of a counter are loaded in order: `PastOf` says that those loaded are of what
the segment held since the report began, `MarkedInv` the same of the loop counts and
what the loops had run then. Neither theorem assumes anything of the directories: what
`NodesKeepTheirCounters` excuses, a column that was another node's or nobody's in
between, is in the property.

**Addresses and vectors** (`DecodingProofs`): `OnlyTheRegionIsFollowed`,
`VectorsAreRead` and `PanicsAreKnown`, for any width of addresses, regions, contents
and length of the mapping. Assumed: a region ends below the address space, sizes and
alignments are positive, the mapping is shorter than an address can tell. A vector, a
row and a name are each related to what lies in memory (`PointerInv`, `InnerInv`);
cells, once read, do not change, so a relation once established stays.

**Messages and message tables** (`DecodingProofs`, with the lemmas of `CodecProofs`):
`WholeMessagesDecode`, `DecodedIsTheWire`, `NamesArrive`, `TablesAreImported` and
`DecodingTypeOK`, for bytes of 256 values as for the 8 of the run, for any values of
the ten messages, any length of a fixed string and any table. Assumed of a message
(`SamplesAssumption`): its values have the type of their fields, a text is UTF-8 and
no longer than a `u32` says (`serialize_bytes` refuses the others), and a name has no
zero in it. Assumed of a table (`TablesAssumption`): it is what a daemon can write,
with fewer than 2^32 entries and any 64-bit ids and lengths.

`TableInv` says that what lies ahead of the cursor is the encoding of the entries not
yet imported and of what follows the table, in some form of each integer, or the
beginning of that; the entries imported are the first of the table. Its lemmas give
what `read_integer` makes of each of the four forms. `WireInv` has a
part for the cursor (what was read from the start of the message is what was made of
it, up to bytes that are true; `CursorInv`), one for the counters that an array
saves and restores (`CounterInv`) and one for a message that came whole, where every
field so far has the value that was sent (`WholeInv`). Neither property follows from
itself: `WholeMessagesDecode` says nothing of a message half read, and
`DecodedIsTheWire` nothing of the elements and counters inside an array. They rest on
three families of lemmas: `ToBe` and `FromBe` undo each other and the little-endian
forms likewise; a message's encoding is its fields' encodings one behind the other, each as
long as `serialized_len` counts; and a text cut where a fixed string ends is still
UTF-8 unless a character was cut in two.

Recursive functions (`decode_entry`, `Cropped`, the powers of `Radix`, the folds
behind the encoding) are unfolded with
`Induction`: induction on the naturals stated of a set, which is proved from the
pigeonhole principle and which the provers can use, as they cannot instantiate the
library's induction rules. `Recursion` proves, by the same principle, that a
recursion on the naturals has a function, so that a recursive definition satisfies
its equation.

The proofs changed the models in a few places. `Types` of `StatsReport` had
overlapping cases, of which TLC took the first; assumptions that TLC never needed,
since the instances satisfy them, are now stated (a name has a segment, a row of
counters is a vector of numbers, a region does not wrap). In the codec the powers of `Radix` are a
function with a bound, the width at which the four-byte form of an integer ends has
a name (`NineFrom`), and `IsValue` states what the sample values always were. `TablesAreImported`
did not hold of every table the assumptions had allowed: an integer too large for the
four-byte form was written in that form and came back truncated. A daemon writes
such an integer in nine bytes; `Forms` now says so, and a table of the run has one.

Only model-checked:

* all liveness (`CallsSettle`, `TimedCallsReturn`, `ReadsReturn`, `ConnectEnds`,
  `CallsReturn`): fairness and ENABLED are out of the prover's reach.

Every safety invariant and every action property that a passing run checks is also
the statement of a theorem.

## Plan

Done: the models of all components below `hammer-shmem`, `hammer-binary-api-*` and
`hammer-stats-*` that keep state, and the theorems above.

Left: nothing that the provers reach and a run checks. The codec's unused formats
(`deserialize_legacy`, `f64`, the codec's `String`) would be the next to model once a
message uses them.

## Not modelled

* dlmalloc: vendored. `BinaryApiClient` uses the heap by its contract.
* The RPC services: stateless callers of `invoke` that turn a nonzero `retval` into
  an error. `hammerctl`: a command loop, input and output.
* The CRC identities and service tables of `api.rs`: computed by the compiler from
  the declarations; a wrong one shows as a name the table lacks.
* Codec paths no declared message uses: `deserialize_legacy`, arrays of a given
  length, the codec's own `String`, `f64`.
* The unlocked ring accessors of the queue, which only a server uses.
* Sums and searches in finished reports: node error totals, heaps and pools by name.
