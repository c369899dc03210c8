------------------------------ MODULE SvmQueue ------------------------------
(***************************************************************************)
(* The shared-memory queue of hammer-shmem (queue.rs): a fixed ring of      *)
(* elements in memory that several processes map, guarded by a robust       *)
(* process-shared mutex and one condition variable.                         *)
(*                                                                         *)
(* A process runs one call at a time.  Every load and store of the header   *)
(* that another process can observe, or that a death of the lock owner can  *)
(* separate, is a step of its own:                                          *)
(*                                                                         *)
(*   idle -> acquire -> test -> copy -> index -> size -> signal -> release   *)
(*              ^        |   \-> take -> subsize --^          (add / sub)   *)
(*              |        v                                                  *)
(*              +-- asleep | spin     (condition variable | event mode)     *)
(*                                                                         *)
(* The POSIX mutex, condition variable and eventfd are external: they are   *)
(* modelled from how queue.rs uses them.                                    *)
(***************************************************************************)
EXTENDS Integers, Sequences, FiniteSets

CONSTANTS
    Procs,          \* the processes that map the queue
    Values,         \* the elements they pass
    NoValue,        \* the content of a slot that was never written
    MaxSize,        \* maxsize: the number of slots
    Ops,            \* Ops[p]: the calls process p makes
    MaxCalls,       \* bound: calls made by one process that is not in Endless
    Endless,        \* the processes that may call for ever
    MaxCrashes,     \* bound: processes that die
    MaxSpurious,    \* bound: spurious wakeups of the condition variable
    MaxRestarts,    \* bound: restarts that reset the mutex
    EventFds        \* event descriptors the owner may set: "producer", "consumer"

AddKinds == {"add", "add2"}
SubKinds == {"sub", "sub2"}
Kinds == AddKinds \cup SubKinds \cup {"len", "attach"}
Modes == {"Wait", "Nowait", "TimedWait"}

\* A call: its entry point, its conditional_wait and the elements it carries.
OpSet == [kind: Kinds, mode: Modes,
          first: Values \cup {NoValue}, second: Values \cup {NoValue}]
NoOp == [kind |-> "none", mode |-> "Nowait", first |-> NoValue, second |-> NoValue]

Free == "free"      \* the mutex has no owner
Dead == "dead"      \* the owner died: the next acquirer gets EOWNERDEAD

ASSUME SizeAssumption == MaxSize \in Nat \ {0}
ASSUME OpsAssumption == Ops \in [Procs -> SUBSET OpSet]
ASSUME BoundsAssumption ==
    /\ MaxCalls \in Nat /\ MaxCrashes \in Nat
    /\ MaxSpurious \in Nat /\ MaxRestarts \in Nat
ASSUME EndlessAssumption == Endless \subseteq Procs
ASSUME NamesAssumption == Free \notin Procs /\ Dead \notin Procs
ASSUME EventFdsAssumption == EventFds \subseteq {"producer", "consumer"}

VARIABLES
    owner,          \* the mutex: Free, Dead or its holder
    robust,         \* FALSE once a restart zeroed the raw mutex
    head, tail, cursize,
    slots,          \* the elements behind the header
    producer_evtfd, consumer_evtfd,     \* TRUE: a descriptor (>= 0) is set
    pc,             \* where each process is
    op,             \* its current call
    woke,           \* the WaitOutcome of its last wait, "fresh" before one
    occ,            \* the occupancy wait_on_event took before spinning
    edge,           \* was_empty of an add, was_full of a sub
    wrote,          \* elements this call has committed
    got,            \* the caller's output buffer
    res,            \* the result the call is about to return
    calls, crashes, spurious, restarts,     \* bounded counters
    torn,           \* history: an owner died between an index and cursize
    muted           \* history: an owner died owing a notification

shared == <<head, tail, cursize, slots>>
fds == <<producer_evtfd, consumer_evtfd>>
locals == <<op, woke, occ, edge, wrote, got, res>>
env == <<robust, calls, crashes, spurious, restarts, torn, muted>>
vars == <<owner, shared, fds, pc, locals, env>>

-----------------------------------------------------------------------------
(* Operators *)

Pcs == {"idle", "acquire", "test", "asleep", "spin", "copy", "index", "size",
        "take", "subsize", "signal", "release", "return",
        "attachHead", "attachTail", "attachSize", "dead"}
Results == {"none", "Ok", "QueueFull", "Empty", "LockBusy", "Timeout",
            "InvalidHeader", "OwnerDied", "EventSignalAfterCommit"}

\* The steps a process takes while it owns the mutex.
Critical == {"test", "copy", "index", "size", "take", "subsize", "signal",
             "release"}

\* Mutant: wraps one slot too late.
NextIndexLate(i) == IF i = MaxSize THEN 0 ELSE i + 1

\* The index after i, as write_one and sub_nolock wrap it.
NextIndex(i) == IF i + 1 = MaxSize THEN 0 ELSE i + 1

\* The elements a call has to commit before it succeeds.
Need(o) == CASE o.kind = "add2" -> 2
             [] o.kind \in {"add", "sub", "sub2"} -> 1
             [] OTHER -> 0

\* lock() blocks; try_lock() reports LockBusy.
Blocking(o) == o.kind \in {"sub2", "len"} \/ o.mode # "Nowait"

\* Calls that wait when the queue is not ready for them.
Waits(o) == o.kind \in {"add", "add2", "sub"} /\ o.mode # "Nowait"

\* Mutant: add2 is content with one free slot.
ReadyForOne(o) == CASE o.kind \in {"add", "add2"} -> cursize # MaxSize
                    [] OTHER -> cursize # 0

\* The condition under which the loops of add_nolock, add2_nolock and
\* sub_into go on to move an element.
Ready(o) == CASE o.kind = "add" -> cursize # MaxSize
              [] o.kind = "add2" -> MaxSize - cursize >= 2
              [] OTHER -> cursize # 0

\* The element the next write_one of this call copies.
Element(p) == IF wrote[p] = 0 THEN op[p].first ELSE op[p].second

\* Process p has made the transition its notification announces and has not
\* sent that notification.
Owes(p) == /\ edge[p]
           /\ \/ pc[p] = "signal"
              \/ wrote[p] = 1 /\ pc[p] \in {"copy", "index", "size"}

-----------------------------------------------------------------------------
(* Actions *)

\* SvmQueue::init, and processes that have not called anything yet.
Init ==
    /\ owner = Free /\ robust = TRUE
    /\ head = 0 /\ tail = 0 /\ cursize = 0
    /\ slots = [i \in 0 .. MaxSize - 1 |-> NoValue]
    /\ producer_evtfd = FALSE /\ consumer_evtfd = FALSE
    /\ pc = [p \in Procs |-> "idle"]
    /\ op = [p \in Procs |-> NoOp]
    /\ woke = [p \in Procs |-> "fresh"]
    /\ occ = [p \in Procs |-> 0]
    /\ edge = [p \in Procs |-> FALSE]
    /\ wrote = [p \in Procs |-> 0]
    /\ got = [p \in Procs |-> NoValue]
    /\ res = [p \in Procs |-> "none"]
    /\ calls = [p \in Procs |-> 0]
    /\ crashes = 0 /\ spurious = 0 /\ restarts = 0
    /\ torn = FALSE /\ muted = FALSE

\* A process calls add, add2, sub, sub2, len or attach.
Start(p) ==
    /\ pc[p] = "idle" /\ calls[p] < MaxCalls
    /\ \E o \in Ops[p] :
        /\ op' = [op EXCEPT ![p] = o]
        /\ pc' = [pc EXCEPT ![p] = IF o.kind = "attach" THEN "attachHead"
                                                         ELSE "acquire"]
    /\ calls' = [calls EXCEPT ![p] = IF p \in Endless THEN @ ELSE @ + 1]
    /\ UNCHANGED <<owner, shared, fds, woke, occ, edge, wrote, got, res,
                   robust, crashes, spurious, restarts, torn, muted>>

\* The call is decided: it returns r, from "release" if it holds the mutex.
Finish(p, r, next) ==
    /\ res' = [res EXCEPT ![p] = r]
    /\ pc' = [pc EXCEPT ![p] = next]

\* acquire: the mutex is free.  A wait that timed out gives up without
\* looking at the queue again.
Acquire(p) ==
    /\ pc[p] = "acquire" /\ owner = Free
    /\ owner' = p
    /\ IF woke[p] = "TimedOut"
         THEN Finish(p, "Timeout", "release")
         ELSE Finish(p, "none", "test")
    /\ UNCHANGED <<shared, fds, op, woke, occ, edge, wrote, got, env>>

\* Mutant: the consistent guard is not dropped.
AcquireKeepsGuard(p) ==
    /\ pc[p] = "acquire" /\ owner = Dead
    /\ owner' = p
    /\ Finish(p, "OwnerDied", "return")
    /\ UNCHANGED <<shared, fds, op, woke, occ, edge, wrote, got, env>>

\* acquire, and owner_died after a wait: the previous owner died.  The mutex
\* is locked, marked consistent and unlocked, one step here: between those
\* calls the process looks at nothing of the queue and the others find the
\* mutex taken.  The ring is left as it is.
AcquireOwnerDied(p) ==
    /\ pc[p] = "acquire" /\ owner = Dead
    /\ owner' = Free
    /\ Finish(p, "OwnerDied", "return")
    /\ UNCHANGED <<shared, fds, op, woke, occ, edge, wrote, got, env>>

\* acquire(try_only) finds the mutex held.
AcquireBusy(p) ==
    /\ pc[p] = "acquire" /\ owner \in Procs /\ ~Blocking(op[p])
    /\ Finish(p, "LockBusy", "return")
    /\ UNCHANGED <<owner, shared, fds, op, woke, occ, edge, wrote, got, env>>

\* The head of the loops of add_nolock, add2_nolock and sub_into, when they
\* go on: was_empty is read here (add), or by Take (was_full, sub).
TestReady(p) ==
    /\ pc[p] = "test" /\ op[p].kind # "len" /\ Ready(op[p])
    /\ IF op[p].kind \in AddKinds
         THEN /\ pc' = [pc EXCEPT ![p] = "copy"]
              /\ edge' = [edge EXCEPT ![p] = cursize = 0]
         ELSE /\ pc' = [pc EXCEPT ![p] = "take"]
              /\ edge' = edge
    /\ UNCHANGED <<owner, shared, fds, op, woke, occ, wrote, got, res, env>>

\* The same loops when they return: QueueFull and Empty of a call that does
\* not wait, and add2 on a queue that can never hold a pair.  len, is_empty
\* and is_full only read under the lock.
TestFails(p) ==
    /\ pc[p] = "test"
    /\ \/ op[p].kind = "len" /\ Finish(p, "Ok", "release")
       \/ /\ op[p].kind \in AddKinds /\ ~Ready(op[p])
          /\ ~Waits(op[p]) \/ (op[p].kind = "add2" /\ MaxSize < 2)
          /\ Finish(p, "QueueFull", "release")
       \/ /\ op[p].kind \in SubKinds /\ ~Ready(op[p]) /\ ~Waits(op[p])
          /\ Finish(p, "Empty", "release")
    /\ UNCHANGED <<owner, shared, fds, op, woke, occ, edge, wrote, got, env>>

\* Mutant: wait_on_event spins on an occupancy it did not take.
WaitWithoutOccupancy(p) ==
    /\ pc[p] = "test" /\ Waits(op[p]) /\ ~Ready(op[p])
    /\ owner' = Free
    /\ pc' = [pc EXCEPT ![p] = IF producer_evtfd THEN "spin" ELSE "asleep"]
    /\ UNCHANGED <<shared, fds, op, woke, occ, edge, wrote, got, res, env>>

\* wait and timed_wait: sleep on the condition variable, or, once the
\* producer descriptor is set, unlock and spin on a change of cursize.
Wait(p) ==
    /\ pc[p] = "test" /\ Waits(op[p]) /\ ~Ready(op[p])
    /\ ~(op[p].kind = "add2" /\ MaxSize < 2)
    /\ owner' = Free
    /\ IF producer_evtfd
         THEN /\ pc' = [pc EXCEPT ![p] = "spin"]
              /\ occ' = [occ EXCEPT ![p] = cursize]
         ELSE /\ pc' = [pc EXCEPT ![p] = "asleep"]
              /\ occ' = occ
    /\ UNCHANGED <<shared, fds, op, woke, edge, wrote, got, res, env>>

\* A waiter leaves its wait and takes the mutex again.
Wakeup(p, outcome) ==
    /\ woke' = [woke EXCEPT ![p] = outcome]
    /\ pc' = [pc EXCEPT ![p] = "acquire"]

\* The deadline of a TimedWait passes, asleep or spinning.  wait_on_event
\* looks at cursize and at the clock in turn: the deadline may pass just after
\* a change it has not seen.
WaitTimeout(p) ==
    /\ pc[p] \in {"asleep", "spin"}
    /\ op[p].mode = "TimedWait"
    /\ Wakeup(p, "TimedOut")
    /\ UNCHANGED <<owner, shared, fds, op, occ, edge, wrote, got, res, env>>

\* wait_on_event sees that cursize is no longer the value it took.
SpinEnds(p) ==
    /\ pc[p] = "spin" /\ cursize # occ[p]
    /\ Wakeup(p, "Notified")
    /\ UNCHANGED <<owner, shared, fds, op, occ, edge, wrote, got, res, env>>

\* The condition variable wakes a waiter nobody notified.
SpuriousWakeup(p) ==
    /\ pc[p] = "asleep" /\ spurious < MaxSpurious
    /\ Wakeup(p, "Notified")
    /\ spurious' = spurious + 1
    /\ UNCHANGED <<owner, shared, fds, op, occ, edge, wrote, got, res,
                   robust, calls, crashes, restarts, torn, muted>>

\* write_one: the element is copied into the slot at tail.
Copy(p) ==
    /\ pc[p] = "copy"
    /\ slots' = [slots EXCEPT ![tail] = Element(p)]
    /\ pc' = [pc EXCEPT ![p] = "index"]
    /\ UNCHANGED <<owner, head, tail, cursize, fds, locals, env>>

\* write_one: tail.store.
StoreTail(p) ==
    /\ pc[p] = "index"
    /\ tail' = NextIndex(tail)
    /\ pc' = [pc EXCEPT ![p] = "size"]
    /\ UNCHANGED <<owner, head, cursize, slots, fds, locals, env>>

\* Mutant: add2 returns after its first element.
GrowSizeOnce(p) ==
    /\ pc[p] = "size"
    /\ cursize' = cursize + 1
    /\ wrote' = [wrote EXCEPT ![p] = @ + 1]
    /\ IF edge[p] THEN Finish(p, "none", "signal")
                  ELSE Finish(p, "Ok", "release")
    /\ UNCHANGED <<owner, head, tail, slots, fds, op, woke, occ, edge, got, env>>

\* write_one: cursize.fetch_add.  add2_nolock then writes its second element;
\* the notification comes after the last one.
GrowSize(p) ==
    /\ pc[p] = "size"
    /\ cursize' = cursize + 1
    /\ wrote' = [wrote EXCEPT ![p] = @ + 1]
    /\ \/ /\ wrote[p] + 1 < Need(op[p])
          /\ Finish(p, "none", "copy")
       \/ /\ wrote[p] + 1 = Need(op[p])
          /\ IF edge[p] THEN Finish(p, "none", "signal")
                        ELSE Finish(p, "Ok", "release")
    /\ UNCHANGED <<owner, head, tail, slots, fds, op, woke, occ, edge, got, env>>

\* Mutant: the head moves before the element is copied out.
TakeAfterAdvance(p) ==
    /\ pc[p] = "take"
    /\ got' = [got EXCEPT ![p] = slots[NextIndex(head)]]
    /\ edge' = [edge EXCEPT ![p] = cursize = MaxSize]
    /\ head' = NextIndex(head)
    /\ pc' = [pc EXCEPT ![p] = "subsize"]
    /\ UNCHANGED <<owner, tail, cursize, slots, fds, op, woke, occ, wrote, res, env>>

\* sub_nolock: copy out, was_full, head.store.  The copy is to the caller's
\* own memory, so that a death before head.store leaves nothing of it.
Take(p) ==
    /\ pc[p] = "take"
    /\ got' = [got EXCEPT ![p] = slots[head]]
    /\ edge' = [edge EXCEPT ![p] = cursize = MaxSize]
    /\ head' = NextIndex(head)
    /\ pc' = [pc EXCEPT ![p] = "subsize"]
    /\ UNCHANGED <<owner, tail, cursize, slots, fds, op, woke, occ, wrote, res, env>>

\* sub_nolock: cursize.fetch_sub.
ShrinkSize(p) ==
    /\ pc[p] = "subsize"
    /\ cursize' = cursize - 1
    /\ wrote' = [wrote EXCEPT ![p] = 1]
    /\ IF edge[p] THEN Finish(p, "none", "signal")
                  ELSE Finish(p, "Ok", "release")
    /\ UNCHANGED <<owner, head, tail, slots, fds, op, woke, occ, edge, got, env>>

\* notify_all: every sleeper leaves the condition variable.
Notified(q) == pc[q] = "asleep"

\* Mutant of SignalCondvar: notify_one.
SignalCondvarOne(p) ==
    LET First(q) == Notified(q) /\ q = CHOOSE r \in Procs : Notified(r) IN
    /\ pc[p] = "signal"
    /\ ~(IF op[p].kind \in AddKinds THEN producer_evtfd ELSE consumer_evtfd)
    /\ pc' = [q \in Procs |-> IF q = p THEN "release"
                              ELSE IF First(q) THEN "acquire" ELSE pc[q]]
    /\ woke' = [q \in Procs |-> IF First(q) THEN "Notified" ELSE woke[q]]
    /\ res' = [res EXCEPT ![p] = "Ok"]
    /\ UNCHANGED <<owner, shared, fds, op, occ, edge, wrote, got, env>>

\* signal with no descriptor: notify_all.
SignalCondvar(p) ==
    /\ pc[p] = "signal"
    /\ ~(IF op[p].kind \in AddKinds THEN producer_evtfd ELSE consumer_evtfd)
    /\ pc' = [q \in Procs |-> IF q = p THEN "release"
                              ELSE IF Notified(q) THEN "acquire" ELSE pc[q]]
    /\ woke' = [q \in Procs |-> IF Notified(q) THEN "Notified" ELSE woke[q]]
    /\ res' = [res EXCEPT ![p] = "Ok"]
    /\ UNCHANGED <<owner, shared, fds, op, occ, edge, wrote, got, env>>

\* signal with a descriptor: a write that may fail after the commit.
SignalEvent(p) ==
    /\ pc[p] = "signal"
    /\ IF op[p].kind \in AddKinds THEN producer_evtfd ELSE consumer_evtfd
    /\ \E r \in {"Ok", "EventSignalAfterCommit"} : Finish(p, r, "release")
    /\ UNCHANGED <<owner, shared, fds, op, woke, occ, edge, wrote, got, env>>

\* The guard is dropped and the call returns.
Return(p) ==
    /\ pc[p] \in {"release", "return"}
    /\ owner' = IF pc[p] = "release" THEN Free ELSE owner
    /\ pc' = [pc EXCEPT ![p] = "idle"]
    /\ op' = [op EXCEPT ![p] = NoOp]
    /\ woke' = [woke EXCEPT ![p] = "fresh"]
    /\ occ' = [occ EXCEPT ![p] = 0]
    /\ edge' = [edge EXCEPT ![p] = FALSE]
    /\ wrote' = [wrote EXCEPT ![p] = 0]
    /\ res' = [res EXCEPT ![p] = "none"]
    /\ UNCHANGED <<shared, fds, got, env>>

\* attach: head, tail and cursize are loaded one after the other, without the
\* mutex, and compared with maxsize.
Attach(p) ==
    /\ \/ /\ pc[p] = "attachHead"
          /\ IF head >= MaxSize THEN Finish(p, "InvalidHeader", "return")
                                ELSE Finish(p, "none", "attachTail")
       \/ /\ pc[p] = "attachTail"
          /\ IF tail >= MaxSize THEN Finish(p, "InvalidHeader", "return")
                                ELSE Finish(p, "none", "attachSize")
       \/ /\ pc[p] = "attachSize"
          /\ Finish(p, IF cursize > MaxSize THEN "InvalidHeader" ELSE "Ok", "return")
    /\ UNCHANGED <<owner, shared, fds, op, woke, occ, edge, wrote, got, env>>

\* A process dies where it stands.  The kernel marks a robust mutex it holds.
Crash(p) ==
    /\ pc[p] # "dead" /\ crashes < MaxCrashes
    /\ crashes' = crashes + 1
    /\ pc' = [pc EXCEPT ![p] = "dead"]
    /\ owner' = IF owner = p /\ robust THEN Dead ELSE owner
    /\ torn' = (torn \/ pc[p] \in {"size", "subsize"})
    /\ muted' = (muted \/ Owes(p))
    /\ UNCHANGED <<shared, fds, locals, robust, calls, spurious, restarts>>

\* set_producer_event_fd and set_consumer_event_fd, by the queue's owner.
SetProducerEventFd ==
    /\ "producer" \in EventFds /\ ~producer_evtfd
    /\ producer_evtfd' = TRUE
    /\ UNCHANGED <<owner, shared, consumer_evtfd, pc, locals, env>>

SetConsumerEventFd ==
    /\ "consumer" \in EventFds /\ ~consumer_evtfd
    /\ consumer_evtfd' = TRUE
    /\ UNCHANGED <<owner, shared, producer_evtfd, pc, locals, env>>

\* Mutant: the restart does not exclude active users.
ResetMutexInUse ==
    /\ restarts < MaxRestarts
    /\ restarts' = restarts + 1
    /\ owner' = Free
    /\ robust' = (robust /\ owner = Free)
    /\ UNCHANGED <<shared, fds, pc, locals, calls, crashes, spurious, torn, muted>>

\* reset_mutex_for_restart.  That no live process holds the mutex is not
\* looked at by the code: it is what its comment asks of the caller.
\* Of a mutex whose owner died the first trylock returns EOWNERDEAD, which
\* the loop counts as a failure like the nine EBUSY that follow: the mutex is
\* zeroed, and is an ordinary, no longer robust mutex from then on.  A mutex
\* a dead process holds without robustness is zeroed as well.
ResetMutexForRestart ==
    /\ restarts < MaxRestarts
    /\ owner \in Procs => pc[owner] = "dead"
    /\ restarts' = restarts + 1
    /\ owner' = Free
    /\ robust' = (robust /\ owner = Free)
    /\ UNCHANGED <<shared, fds, pc, locals, calls, crashes, spurious, torn, muted>>

\* What a process does by itself once it has called.
Step(p) ==
    \/ Acquire(p) \/ AcquireOwnerDied(p) \/ AcquireBusy(p)
    \/ TestReady(p) \/ TestFails(p) \/ Wait(p)
    \/ WaitTimeout(p) \/ SpinEnds(p)
    \/ Copy(p) \/ StoreTail(p) \/ GrowSize(p)
    \/ Take(p) \/ ShrinkSize(p)
    \/ SignalCondvar(p) \/ SignalEvent(p)
    \/ Attach(p) \/ Return(p)

Next ==
    \/ \E p \in Procs : Start(p) \/ Step(p) \/ SpuriousWakeup(p) \/ Crash(p)
    \/ SetProducerEventFd \/ SetConsumerEventFd \/ ResetMutexForRestart

Spec == Init /\ [][Next]_vars

\* A process that has called keeps running: the calls are straight-line code
\* and clocks advance.  Nobody has to call, and nothing has to fail.
Fairness == \A p \in Procs : WF_vars(Step(p))
FairSpec == Spec /\ Fairness

-----------------------------------------------------------------------------
(* Properties *)

TypeOK ==
    /\ owner \in Procs \cup {Free, Dead}
    /\ robust \in BOOLEAN
    /\ head \in 0 .. MaxSize - 1
    /\ tail \in 0 .. MaxSize - 1
    /\ cursize \in 0 .. MaxSize
    /\ slots \in [0 .. MaxSize - 1 -> Values \cup {NoValue}]
    /\ producer_evtfd \in BOOLEAN /\ consumer_evtfd \in BOOLEAN
    /\ pc \in [Procs -> Pcs]
    /\ op \in [Procs -> OpSet \cup {NoOp}]
    /\ woke \in [Procs -> {"fresh", "Notified", "TimedOut"}]
    /\ occ \in [Procs -> 0 .. MaxSize]
    /\ edge \in [Procs -> BOOLEAN]
    /\ wrote \in [Procs -> 0 .. 2]
    /\ got \in [Procs -> Values \cup {NoValue}]
    /\ res \in [Procs -> Results]
    /\ calls \in [Procs -> 0 .. MaxCalls]
    /\ crashes \in 0 .. MaxCrashes
    /\ spurious \in 0 .. MaxSpurious
    /\ restarts \in 0 .. MaxRestarts
    /\ torn \in BOOLEAN /\ muted \in BOOLEAN

\* The header is updated under the mutex: two processes are never inside it
\* together, whoever died before and whatever a restart reset.
MutualExclusion ==
    \A p, q \in Procs : pc[p] \in Critical /\ pc[q] \in Critical => p = q

\* attach validates the header without the mutex, while other processes
\* move it or have died moving it: it never reports InvalidHeader of a
\* queue that was initialized.
AttachSucceeds == \A p \in Procs : res[p] # "InvalidHeader"

\* The slot k places behind the head.
SlotAt(k) == IF head + k < MaxSize THEN head + k ELSE head + k - MaxSize

InIndexWindow(p) == pc[p] = "size"
InSizeWindow(p) == pc[p] = "subsize"

\* An element written and not yet counted; an element taken and still counted.
Grown == IF \E p \in Procs : InIndexWindow(p) THEN 1 ELSE 0
Taken == IF \E p \in Procs : InSizeWindow(p) THEN 1 ELSE 0

\* Unless an owner died inside a commit, tail is cursize slots behind head,
\* up to the element whose commit is under way.
RingConsistent ==
    ~torn => /\ Taken <= cursize /\ cursize + Grown <= MaxSize
             /\ tail = SlotAt((cursize + Grown) - Taken)

\* What a caller may conclude from a result: Ok and EventSignalAfterCommit
\* mean that every element of the call is in (or out of) the queue, any other
\* error that none is.  The client frees a message exactly when the queue
\* did not take it.
CommitMatchesResult ==
    \A p \in Procs :
        /\ res[p] \in {"Ok", "EventSignalAfterCommit"} => wrote[p] = Need(op[p])
        /\ res[p] \in Results \ {"none", "Ok", "EventSignalAfterCommit"}
             => wrote[p] = 0

\* add and sub notify on the edges empty -> non-empty and full -> non-full
\* only.  Still no add sleeps on a queue with room and no sub on a queue with
\* elements, unless the notification is on its way, as long as waiting uses
\* the condition variable and no owner died owing a notification.
NoLostWakeup ==
    ~muted /\ ~producer_evtfd /\ ~consumer_evtfd =>
        \A p \in Procs :
            pc[p] = "asleep" /\ op[p].kind \in {"add", "sub"} /\ Ready(op[p])
                => \E q \in Procs : Owes(q)

\* The elements a caller of sub can still get, oldest first: an element being
\* taken is gone from head.store on, the first element of a pair appears with
\* the second.
Hidden ==
    IF \E p \in Procs : \/ InSizeWindow(p)
                        \/ wrote[p] = 1 /\ pc[p] \in {"copy", "index", "size"}
    THEN 1 ELSE 0

Contents == [i \in 1 .. (cursize - Hidden) |-> slots[SlotAt(i - 1)]]

\* What an add or add2 has still to put in.
Offered(p) ==
    IF pc[p] \in {"acquire", "test", "asleep", "spin", "copy", "index", "size"}
    THEN CASE op[p].kind = "add" -> <<op[p].first>>
           [] op[p].kind = "add2" -> <<op[p].first, op[p].second>>
           [] OTHER -> <<>>
    ELSE <<>>

\* The queue implements the bounded FIFO until a death tears it.
Fifo == INSTANCE BoundedFifo WITH Capacity <- MaxSize, out <- got,
            offered <- [p \in Procs |-> Offered(p)],
            broken <- torn, q <- IF torn THEN <<>> ELSE Contents
ImplementsFifo == Fifo!Spec

\* A process that has nothing to do, or waits for a queue that is not ready
\* for it.  An add2 asleep on the condition variable is excused: sub notifies
\* when the queue stops being full, which says nothing of two free slots.
Settled ==
    \A p \in Procs :
        \/ pc[p] \in {"idle", "dead"}
        \/ pc[p] \in {"asleep", "spin"} /\ ~Ready(op[p])
        \/ pc[p] = "asleep" /\ op[p].kind = "add2"

\* Every call returns unless the queue stays in a state it has to wait for,
\* when all waiters use the condition variable or all use event mode, and no
\* owner died owing a notification.
CallsSettle ==
    /\ \/ [](~producer_evtfd /\ ~consumer_evtfd)
       \/ [](\A p \in Procs : pc[p] # "asleep")
    /\ [](~muted /\ robust)
    => <>[]Settled

\* A call of p that does not wait, or waits with a timeout.
TakesTheMutex(p) == pc[p] # "idle" /\ Blocking(op[p])
Timed(p) == ~Waits(op[p]) \/ op[p].mode = "TimedWait"
Returned(p) == pc[p] \in {"idle", "dead"}

\* try_lock: a call that neither waits nor blocks returns whatever the others
\* do.  A call that blocks on the mutex, and one that waits with a timeout,
\* returns as well - whoever dies holding the mutex, whatever notification is
\* lost - but for two reasons the code does nothing about.  The timeout is of
\* one wait and not of the call: timed_wait computes a new deadline whenever
\* its loop comes back from a notification to a queue that is not ready, so
\* that notifications without end keep it waiting.  And the mutex is not a
\* fair one: a process may find it taken again whenever it was free.
TimedCallsReturn ==
    []robust =>
      \A p \in Procs :
        /\ pc[p] # "idle" /\ ~Blocking(op[p]) ~> Returned(p)
        /\ \/ TakesTheMutex(p) /\ Timed(p) ~> Returned(p)
           \/ []<>(pc[p] = "acquire" /\ woke[p] = "Notified")
           \/ <>[](pc[p] = "acquire") /\ []<>(owner = Free)
=============================================================================
