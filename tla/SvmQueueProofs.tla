-------------------------- MODULE SvmQueueProofs --------------------------
(***************************************************************************)
(* Proofs about SvmQueue, for any set of processes, any capacity, any calls  *)
(* and any number of deaths, restarts and spurious wakeups.                  *)
(***************************************************************************)
EXTENDS SvmQueue, SequenceTheorems, TLAPS

\* A process that moves elements owns the mutex.
OwnerInv == \A p \in Procs : pc[p] \in Critical => owner = p

\* What a process knows at each step of its call.
CallInv(p) ==
    /\ pc[p] \in {"idle", "acquire", "test", "asleep", "spin", "take",
                  "subsize", "attachHead", "attachTail", "attachSize"}
         => wrote[p] = 0
    /\ pc[p] \in {"idle", "acquire", "test", "asleep", "spin", "take", "copy",
                  "index", "size", "subsize", "signal",
                  "attachHead", "attachTail", "attachSize"}
         => res[p] = "none"
    /\ pc[p] \in {"attachHead", "attachTail", "attachSize"} => op[p].kind = "attach"
    /\ pc[p] \in {"acquire", "test"} => op[p].kind \in Kinds \ {"attach"}
    /\ pc[p] \in {"asleep", "spin"} => Waits(op[p])
    /\ pc[p] \in {"copy", "index", "size"} =>
         /\ op[p].kind \in AddKinds
         /\ wrote[p] < Need(op[p]) /\ wrote[p] <= cursize
         /\ cursize + Need(op[p]) <= MaxSize + wrote[p]
         /\ edge[p] <=> cursize = wrote[p]
    /\ pc[p] \in {"take", "subsize"} => op[p].kind \in SubKinds /\ cursize > 0
    /\ pc[p] = "subsize" => (edge[p] <=> cursize = MaxSize)
    /\ pc[p] = "signal" => edge[p] /\ wrote[p] = Need(op[p])

\* RingConsistent, one case per window of the owner.
RingInv ==
    ~torn =>
      /\ (\A p \in Procs : ~InIndexWindow(p) /\ ~InSizeWindow(p))
           => tail = SlotAt(cursize)
      /\ \A p \in Procs : InIndexWindow(p) => tail = SlotAt(cursize + 1)
      /\ \A p \in Procs : InSizeWindow(p) => tail = SlotAt(cursize - 1)

IInv ==
    /\ TypeOK
    /\ OwnerInv
    /\ \A p \in Procs : CallInv(p)
    /\ RingInv
    /\ CommitMatchesResult
    /\ NoLostWakeup

-----------------------------------------------------------------------------
(* Type correctness *)

\* The initial queue is well typed.
LEMMA TypeInit == Init => TypeOK
<1> SUFFICES ASSUME Init PROVE TypeOK
  OBVIOUS
<1> USE SizeAssumption, BoundsAssumption
<1>1. /\ owner \in Procs \cup {Free, Dead}
      /\ head \in 0 .. MaxSize - 1 /\ tail \in 0 .. MaxSize - 1
      /\ cursize \in 0 .. MaxSize
      /\ slots \in [0 .. MaxSize - 1 -> Values \cup {NoValue}]
  BY DEF Init
<1>2. /\ pc \in [Procs -> Pcs]
      /\ woke \in [Procs -> {"fresh", "Notified", "TimedOut"}]
      /\ occ \in [Procs -> 0 .. MaxSize]
      /\ edge \in [Procs -> BOOLEAN]
      /\ wrote \in [Procs -> 0 .. 2]
      /\ got \in [Procs -> Values \cup {NoValue}]
      /\ res \in [Procs -> Results]
      /\ calls \in [Procs -> 0 .. MaxCalls]
  BY DEF Init, Pcs, Results
<1>3. op \in [Procs -> OpSet \cup {NoOp}]
  BY DEF Init
<1>4. /\ crashes \in 0 .. MaxCrashes
      /\ spurious \in 0 .. MaxSpurious
      /\ restarts \in 0 .. MaxRestarts
  BY DEF Init
<1>5. /\ robust \in BOOLEAN /\ torn \in BOOLEAN /\ muted \in BOOLEAN
      /\ producer_evtfd \in BOOLEAN /\ consumer_evtfd \in BOOLEAN
  BY Zenon DEF Init
<1> QED
  BY <1>1, <1>2, <1>3, <1>4, <1>5 DEF TypeOK

\* Every step keeps every variable in its type; the bounds on the occupancy
\* come from what the call knows (CallInv).
LEMMA TypeStep == IInv /\ [Next]_vars => TypeOK'
<1> SUFFICES ASSUME IInv, [Next]_vars PROVE TypeOK'
  OBVIOUS
<1> USE SizeAssumption, BoundsAssumption
<1>0. TypeOK
  BY DEF IInv
<1>1. ASSUME NEW p \in Procs, Start(p) PROVE TypeOK'
  <2>1. PICK o \in Ops[p] :
          /\ op' = [op EXCEPT ![p] = o]
          /\ pc' = [pc EXCEPT ![p] = IF o.kind = "attach" THEN "attachHead"
                                                           ELSE "acquire"]
    BY <1>1 DEF Start
  <2>2. o \in OpSet
    BY OpsAssumption
  <2>3. op' \in [Procs -> OpSet \cup {NoOp}]
    BY <1>0, <2>1, <2>2 DEF TypeOK
  <2>4. pc' \in [Procs -> Pcs] /\ calls' \in [Procs -> 0 .. MaxCalls]
    BY <1>0, <1>1, <2>1 DEF TypeOK, Start, Pcs
  <2> QED
    BY <1>0, <1>1, <2>3, <2>4 DEF TypeOK, Start, shared, fds
<1>2. ASSUME NEW p \in Procs, Acquire(p) PROVE TypeOK'
  BY <1>0, <1>2 DEF TypeOK, Acquire, Finish, Pcs, Results, shared, fds, locals, env
<1>3. ASSUME NEW p \in Procs, AcquireOwnerDied(p) PROVE TypeOK'
  BY <1>0, <1>3 DEF TypeOK, AcquireOwnerDied, Finish, Pcs, Results, shared, fds,
       locals, env
<1>4. ASSUME NEW p \in Procs, AcquireBusy(p) PROVE TypeOK'
  BY <1>0, <1>4 DEF TypeOK, AcquireBusy, Finish, Pcs, Results, shared, fds, locals, env
<1>5. ASSUME NEW p \in Procs, TestReady(p) PROVE TypeOK'
  BY <1>0, <1>5 DEF TypeOK, TestReady, Pcs, Results, shared, fds, locals, env
<1>6. ASSUME NEW p \in Procs, TestFails(p) PROVE TypeOK'
  <2>1. PICK r \in Results : Finish(p, r, "release")
    BY <1>6 DEF TestFails, Results
  <2>2. UNCHANGED <<owner, shared, fds, op, woke, occ, edge, wrote, got, env>>
    BY <1>6 DEF TestFails
  <2> QED
    BY <1>0, <2>1, <2>2 DEF TypeOK, Finish, Pcs, shared, fds, env
<1>7. ASSUME NEW p \in Procs, Wait(p) PROVE TypeOK'
  <2>1. /\ pc' = [pc EXCEPT ![p] = "spin"] \/ pc' = [pc EXCEPT ![p] = "asleep"]
        /\ occ' = occ \/ occ' = [occ EXCEPT ![p] = cursize]
    BY <1>7, Zenon DEF Wait
  <2>2. pc' \in [Procs -> Pcs] /\ occ' \in [Procs -> 0 .. MaxSize]
    <3>1. /\ pc \in [Procs -> Pcs] /\ occ \in [Procs -> 0 .. MaxSize]
          /\ cursize \in 0 .. MaxSize
      BY <1>0 DEF TypeOK
    <3> QED
      BY <2>1, <3>1 DEF Pcs
  <2> QED
    BY <1>0, <1>7, <2>2 DEF TypeOK, Wait, shared, fds, env
<1>8. ASSUME NEW p \in Procs, WaitTimeout(p) PROVE TypeOK'
  BY <1>0, <1>8 DEF TypeOK, WaitTimeout, Wakeup, Pcs, Results, shared, fds, locals, env
<1>9. ASSUME NEW p \in Procs, SpinEnds(p) PROVE TypeOK'
  BY <1>0, <1>9 DEF TypeOK, SpinEnds, Wakeup, Pcs, Results, shared, fds, locals, env
<1>10. ASSUME NEW p \in Procs, SpuriousWakeup(p) PROVE TypeOK'
  BY <1>0, <1>10 DEF TypeOK, SpuriousWakeup, Wakeup, Pcs, Results, shared, fds,
       locals, env
<1>11. ASSUME NEW p \in Procs, Copy(p) PROVE TypeOK'
  BY <1>0, <1>11 DEF TypeOK, Copy, Element, OpSet, NoOp, Pcs, Results, shared, fds,
       locals, env
<1>12. ASSUME NEW p \in Procs, StoreTail(p) PROVE TypeOK'
  BY <1>0, <1>12 DEF TypeOK, StoreTail, NextIndex, Pcs, Results, shared, fds, locals,
       env
<1>13. ASSUME NEW p \in Procs, GrowSize(p) PROVE TypeOK'
  <2>1. /\ op[p].kind \in AddKinds /\ wrote[p] < Need(op[p])
        /\ cursize + Need(op[p]) <= MaxSize + wrote[p]
    BY <1>13 DEF IInv, CallInv, GrowSize
  <2>2. Need(op[p]) \in {1, 2}
    BY <2>1 DEF Need, AddKinds
  <2>3. cursize' \in 0 .. MaxSize /\ wrote' \in [Procs -> 0 .. 2]
    <3>1. cursize' = cursize + 1 /\ wrote' = [wrote EXCEPT ![p] = @ + 1]
      BY <1>13 DEF GrowSize
    <3>2. cursize \in 0 .. MaxSize /\ wrote \in [Procs -> 0 .. 2]
      BY <1>0 DEF TypeOK
    <3> QED
      BY <2>1, <2>2, <3>1, <3>2
  <2>4. pc' \in [Procs -> Pcs] /\ res' \in [Procs -> Results]
    BY <1>0, <1>13 DEF TypeOK, GrowSize, Finish, Pcs, Results
  <2> QED
    BY <1>0, <1>13, <2>3, <2>4 DEF TypeOK, GrowSize, fds, env
<1>14. ASSUME NEW p \in Procs, Take(p) PROVE TypeOK'
  BY <1>0, <1>14 DEF TypeOK, Take, NextIndex, Pcs, Results, shared, fds, locals, env
<1>15. ASSUME NEW p \in Procs, ShrinkSize(p) PROVE TypeOK'
  <2>1. cursize > 0
    BY <1>15 DEF IInv, CallInv, ShrinkSize
  <2>2. cursize' \in 0 .. MaxSize /\ wrote' \in [Procs -> 0 .. 2]
    BY <1>0, <1>15, <2>1 DEF TypeOK, ShrinkSize
  <2>3. pc' \in [Procs -> Pcs] /\ res' \in [Procs -> Results]
    BY <1>0, <1>15 DEF TypeOK, ShrinkSize, Finish, Pcs, Results
  <2> QED
    BY <1>0, <1>15, <2>2, <2>3 DEF TypeOK, ShrinkSize, fds, env
<1>16. ASSUME NEW p \in Procs, SignalCondvar(p) PROVE TypeOK'
  BY <1>0, <1>16 DEF TypeOK, SignalCondvar, Notified, Pcs, Results, shared, fds,
       locals, env
<1>17. ASSUME NEW p \in Procs, SignalEvent(p) PROVE TypeOK'
  BY <1>0, <1>17 DEF TypeOK, SignalEvent, Finish, Pcs, Results, shared, fds, locals, env
<1>18. ASSUME NEW p \in Procs, Return(p) PROVE TypeOK'
  BY <1>0, <1>18 DEF TypeOK, Return, Pcs, Results, shared, fds, locals, env
<1>19. ASSUME NEW p \in Procs, Attach(p) PROVE TypeOK'
  BY <1>0, <1>19, ZenonT(40) DEF TypeOK, Attach, Finish, Pcs, Results, shared, fds, locals, env
<1>20. ASSUME NEW p \in Procs, Crash(p) PROVE TypeOK'
  BY <1>0, <1>20 DEF TypeOK, Crash, Pcs, Results, shared, fds, locals, env
<1>21. ASSUME SetProducerEventFd PROVE TypeOK'
  BY <1>0, <1>21 DEF TypeOK, SetProducerEventFd, shared, fds, locals, env
<1>22. ASSUME SetConsumerEventFd PROVE TypeOK'
  BY <1>0, <1>22 DEF TypeOK, SetConsumerEventFd, shared, fds, locals, env
<1>23. ASSUME ResetMutexForRestart PROVE TypeOK'
  BY <1>0, <1>23 DEF TypeOK, ResetMutexForRestart, shared, fds, locals, env
<1>24. CASE UNCHANGED vars
  BY <1>0, <1>24 DEF TypeOK, vars, shared, fds, locals, env
<1> QED
  BY <1>1, <1>2, <1>3, <1>4, <1>5, <1>6, <1>7, <1>8, <1>9, <1>10, <1>11, <1>12,
       <1>13, <1>14, <1>15, <1>16, <1>17, <1>18, <1>19, <1>20, <1>21, <1>22, <1>23,
       <1>24 DEF Next, Step

-----------------------------------------------------------------------------
(* The mutex *)

\* Whoever moves the header owns the mutex: it is given away only by its
\* owner, by the death of its owner or by a restart that finds it dead.
LEMMA OwnerStep == IInv /\ [Next]_vars => OwnerInv'
<1> SUFFICES ASSUME IInv, [Next]_vars PROVE OwnerInv'
  OBVIOUS
<1>0. /\ pc \in [Procs -> Pcs] /\ OwnerInv
      /\ Free \notin Procs /\ Dead \notin Procs
  BY NamesAssumption DEF IInv, TypeOK
<1>1. ASSUME NEW p \in Procs, Start(p) PROVE OwnerInv'
  BY <1>0, <1>1 DEF OwnerInv, Critical, Start
<1>2. ASSUME NEW p \in Procs, Acquire(p) PROVE OwnerInv'
  BY <1>0, <1>2 DEF OwnerInv, Critical, Acquire, Finish
<1>3. ASSUME NEW p \in Procs, AcquireOwnerDied(p) PROVE OwnerInv'
  BY <1>0, <1>3 DEF OwnerInv, Critical, AcquireOwnerDied, Finish
<1>4. ASSUME NEW p \in Procs, AcquireBusy(p) PROVE OwnerInv'
  BY <1>0, <1>4 DEF OwnerInv, Critical, AcquireBusy, Finish
<1>5. ASSUME NEW p \in Procs, TestReady(p) PROVE OwnerInv'
  BY <1>0, <1>5 DEF OwnerInv, Critical, TestReady
<1>6. ASSUME NEW p \in Procs, TestFails(p) PROVE OwnerInv'
  BY <1>0, <1>6 DEF OwnerInv, Critical, TestFails, Finish
<1>7. ASSUME NEW p \in Procs, Wait(p) PROVE OwnerInv'
  BY <1>0, <1>7 DEF OwnerInv, Critical, Wait
<1>8. ASSUME NEW p \in Procs, WaitTimeout(p) PROVE OwnerInv'
  BY <1>0, <1>8 DEF OwnerInv, Critical, WaitTimeout, Wakeup
<1>9. ASSUME NEW p \in Procs, SpinEnds(p) PROVE OwnerInv'
  BY <1>0, <1>9 DEF OwnerInv, Critical, SpinEnds, Wakeup
<1>10. ASSUME NEW p \in Procs, SpuriousWakeup(p) PROVE OwnerInv'
  BY <1>0, <1>10 DEF OwnerInv, Critical, SpuriousWakeup, Wakeup
<1>11. ASSUME NEW p \in Procs, Copy(p) PROVE OwnerInv'
  BY <1>0, <1>11 DEF OwnerInv, Critical, Copy
<1>12. ASSUME NEW p \in Procs, StoreTail(p) PROVE OwnerInv'
  BY <1>0, <1>12 DEF OwnerInv, Critical, StoreTail
<1>13. ASSUME NEW p \in Procs, GrowSize(p) PROVE OwnerInv'
  BY <1>0, <1>13 DEF OwnerInv, Critical, GrowSize, Finish
<1>14. ASSUME NEW p \in Procs, Take(p) PROVE OwnerInv'
  BY <1>0, <1>14 DEF OwnerInv, Critical, Take
<1>15. ASSUME NEW p \in Procs, ShrinkSize(p) PROVE OwnerInv'
  BY <1>0, <1>15 DEF OwnerInv, Critical, ShrinkSize, Finish
<1>16. ASSUME NEW p \in Procs, SignalCondvar(p) PROVE OwnerInv'
  BY <1>0, <1>16 DEF OwnerInv, Critical, SignalCondvar, Notified
<1>17. ASSUME NEW p \in Procs, SignalEvent(p) PROVE OwnerInv'
  BY <1>0, <1>17 DEF OwnerInv, Critical, SignalEvent, Finish
<1>18. ASSUME NEW p \in Procs, Return(p) PROVE OwnerInv'
  BY <1>0, <1>18 DEF OwnerInv, Critical, Return
<1>19. ASSUME NEW p \in Procs, Attach(p) PROVE OwnerInv'
  BY <1>0, <1>19 DEF OwnerInv, Critical, Attach, Finish
<1>20. ASSUME NEW p \in Procs, Crash(p) PROVE OwnerInv'
  BY <1>0, <1>20 DEF OwnerInv, Critical, Crash
<1>21. ASSUME SetProducerEventFd PROVE OwnerInv'
  BY <1>0, <1>21 DEF OwnerInv, Critical, SetProducerEventFd
<1>22. ASSUME SetConsumerEventFd PROVE OwnerInv'
  BY <1>0, <1>22 DEF OwnerInv, Critical, SetConsumerEventFd
<1>23. ASSUME ResetMutexForRestart PROVE OwnerInv'
  BY <1>0, <1>23 DEF OwnerInv, Critical, ResetMutexForRestart
<1>24. CASE UNCHANGED vars
  BY <1>0, <1>24 DEF OwnerInv, vars
<1> QED
  BY <1>1, <1>2, <1>3, <1>4, <1>5, <1>6, <1>7, <1>8, <1>9, <1>10, <1>11, <1>12,
       <1>13, <1>14, <1>15, <1>16, <1>17, <1>18, <1>19, <1>20, <1>21, <1>22, <1>23,
       <1>24 DEF Next, Step

-----------------------------------------------------------------------------
(* The calls *)

\* What a call knows between its steps stays true: the occupancy it tested, the
\* slots it wrote and the mutex it holds, whatever the others do.
LEMMA CallStep == IInv /\ [Next]_vars => \A q \in Procs : CallInv(q)'
<1> SUFFICES ASSUME IInv, [Next]_vars, NEW q \in Procs PROVE CallInv(q)'
  OBVIOUS
<1>0. /\ pc \in [Procs -> Pcs] /\ op \in [Procs -> OpSet \cup {NoOp}]
      /\ edge \in [Procs -> BOOLEAN] /\ wrote \in [Procs -> 0 .. 2]
      /\ res \in [Procs -> Results]
      /\ woke \in [Procs -> {"fresh", "Notified", "TimedOut"}]
      /\ cursize \in 0 .. MaxSize /\ MaxSize \in Nat \ {0}
  BY SizeAssumption DEF IInv, TypeOK
<1>00. OwnerInv /\ CallInv(q)
  BY DEF IInv
<1>1. ASSUME NEW p \in Procs, Start(p) PROVE CallInv(q)'
  <2>1. PICK o \in Ops[p] :
          /\ op' = [op EXCEPT ![p] = o]
          /\ pc' = [pc EXCEPT ![p] = IF o.kind = "attach" THEN "attachHead"
                                                           ELSE "acquire"]
    BY <1>1 DEF Start
  <2>2. o.kind \in Kinds
    BY OpsAssumption DEF OpSet
  <2> QED
    BY <1>0, <1>00, <1>1, <2>1, <2>2 DEF CallInv, Start, shared, fds
<1>2. ASSUME NEW p \in Procs, Acquire(p) PROVE CallInv(q)'
  BY <1>0, <1>00, <1>2 DEF CallInv, OwnerInv, Critical, Acquire, Finish, shared, fds,
       locals, env
<1>3. ASSUME NEW p \in Procs, AcquireOwnerDied(p) PROVE CallInv(q)'
  BY <1>0, <1>00, <1>3 DEF CallInv, OwnerInv, Critical, AcquireOwnerDied, Finish,
       shared, fds, locals, env
<1>4. ASSUME NEW p \in Procs, AcquireBusy(p) PROVE CallInv(q)'
  BY <1>0, <1>00, <1>4 DEF CallInv, OwnerInv, Critical, AcquireBusy, Finish, shared,
       fds, locals, env
<1>5. ASSUME NEW p \in Procs, TestReady(p) PROVE CallInv(q)'
  <2>1. /\ op' = op /\ wrote' = wrote /\ res' = res /\ cursize' = cursize
        /\ pc[p] = "test" /\ op[p].kind # "len" /\ Ready(op[p])
    BY <1>5 DEF TestReady, shared
  <2>2. CASE q # p
    BY <1>0, <1>00, <1>5, <2>1, <2>2 DEF CallInv, TestReady, Waits
  <2>3. CASE q = p /\ op[p].kind \in AddKinds
    <3>1. pc'[p] = "copy" /\ (edge'[p] <=> cursize = 0)
      BY <1>0, <1>5, <2>3 DEF TestReady
    <3>2. cursize + Need(op[p]) <= MaxSize /\ 0 < Need(op[p])
      BY <1>0, <2>1, <2>3 DEF Ready, Need, AddKinds
    <3>3. wrote[p] = 0 /\ res[p] = "none"
      BY <1>00, <2>1, <2>3 DEF CallInv
    <3> QED
      BY <1>0, <2>1, <2>3, <3>1, <3>2, <3>3 DEF CallInv
  <2>4. CASE q = p /\ op[p].kind \notin AddKinds
    <3>1. pc'[p] = "take"
      BY <1>0, <1>5, <2>4 DEF TestReady
    <3>2. op[p].kind \in SubKinds
      BY <1>00, <2>1, <2>4 DEF CallInv, Kinds, AddKinds, SubKinds
    <3>3. cursize > 0
      BY <1>0, <2>1, <3>2 DEF Ready, SubKinds
    <3>4. wrote[p] = 0 /\ res[p] = "none"
      BY <1>00, <2>1, <2>4 DEF CallInv
    <3> QED
      BY <1>0, <2>1, <2>4, <3>1, <3>2, <3>3, <3>4 DEF CallInv
  <2> QED
    BY <2>2, <2>3, <2>4
<1>6. ASSUME NEW p \in Procs, TestFails(p) PROVE CallInv(q)'
  BY <1>0, <1>00, <1>6 DEF CallInv, OwnerInv, Critical, TestFails, Finish, shared,
       fds, locals, env
<1>7. ASSUME NEW p \in Procs, Wait(p) PROVE CallInv(q)'
  BY <1>0, <1>00, <1>7 DEF CallInv, OwnerInv, Critical, Wait, shared, fds, locals, env
<1>8. ASSUME NEW p \in Procs, WaitTimeout(p) PROVE CallInv(q)'
  BY <1>0, <1>00, <1>8 DEF CallInv, OwnerInv, Critical, WaitTimeout, Wakeup, Waits,
       Kinds, AddKinds, SubKinds, shared, fds, locals, env
<1>9. ASSUME NEW p \in Procs, SpinEnds(p) PROVE CallInv(q)'
  BY <1>0, <1>00, <1>9 DEF CallInv, OwnerInv, Critical, SpinEnds, Wakeup, Waits,
       Kinds, AddKinds, SubKinds, shared, fds, locals, env
<1>10. ASSUME NEW p \in Procs, SpuriousWakeup(p) PROVE CallInv(q)'
  BY <1>0, <1>00, <1>10 DEF CallInv, OwnerInv, Critical, SpuriousWakeup, Wakeup,
       Waits, Kinds, AddKinds, SubKinds, shared, fds, locals, env
<1>11. ASSUME NEW p \in Procs, Copy(p) PROVE CallInv(q)'
  BY <1>0, <1>00, <1>11 DEF CallInv, OwnerInv, Critical, Copy, shared, fds, locals, env
<1>12. ASSUME NEW p \in Procs, StoreTail(p) PROVE CallInv(q)'
  BY <1>0, <1>00, <1>12 DEF CallInv, OwnerInv, Critical, StoreTail, shared, fds,
       locals, env
<1>13. ASSUME NEW p \in Procs, GrowSize(p) PROVE CallInv(q)'
  <2>1. CASE q = p
    <3>1. /\ op[p].kind \in AddKinds /\ wrote[p] < Need(op[p])
          /\ cursize + Need(op[p]) <= MaxSize + wrote[p]
          /\ wrote[p] <= cursize /\ (edge[p] <=> cursize = wrote[p])
      BY <1>00, <1>13, <2>1 DEF CallInv, GrowSize
    <3>2. Need(op[p]) \in {1, 2} /\ Need(op[p])' = Need(op[p])
      BY <1>13, <3>1 DEF Need, AddKinds, GrowSize
    <3>3. cursize' = cursize + 1 /\ wrote'[p] = wrote[p] + 1
      BY <1>0, <1>13 DEF GrowSize
    <3>4. op' = op /\ edge' = edge
      BY <1>13 DEF GrowSize
    <3>5. \/ pc'[p] = "copy" /\ res'[p] = "none" /\ wrote[p] + 1 < Need(op[p])
          \/ pc'[p] = "signal" /\ res'[p] = "none" /\ edge[p] /\ wrote[p] + 1 = Need(op[p])
          \/ pc'[p] = "release"
      BY <1>0, <1>13 DEF GrowSize, Finish
    <3> QED
      BY <1>0, <2>1, <3>1, <3>2, <3>3, <3>4, <3>5 DEF CallInv
  <2>2. CASE q # p
    <3>1. pc[q] \notin Critical
      BY <1>00, <1>13, <2>2 DEF OwnerInv, GrowSize, Critical
    <3>2. /\ pc'[q] = pc[q] /\ wrote'[q] = wrote[q] /\ res'[q] = res[q]
          /\ op' = op /\ edge' = edge
      BY <1>0, <1>13, <2>2 DEF GrowSize, Finish
    <3> QED
      BY <1>00, <3>1, <3>2 DEF CallInv, Critical, Waits
  <2> QED
    BY <2>1, <2>2
<1>14. ASSUME NEW p \in Procs, Take(p) PROVE CallInv(q)'
  BY <1>0, <1>00, <1>14 DEF CallInv, OwnerInv, Critical, Take, shared, fds, locals, env
<1>15. ASSUME NEW p \in Procs, ShrinkSize(p) PROVE CallInv(q)'
  <2>1. CASE q = p
    <3>1. Need(op[p]) = 1
      BY <1>00, <1>15, <2>1 DEF CallInv, ShrinkSize, Need, SubKinds
    <3>2. wrote'[p] = 1 /\ op' = op /\ edge' = edge
      BY <1>0, <1>15 DEF ShrinkSize
    <3>3. \/ pc'[p] = "signal" /\ res'[p] = "none" /\ edge[p]
          \/ pc'[p] = "release"
      BY <1>0, <1>15 DEF ShrinkSize, Finish
    <3> QED
      BY <2>1, <3>1, <3>2, <3>3 DEF CallInv
  <2>2. CASE q # p
    <3>1. pc[q] \notin Critical
      BY <1>00, <1>15, <2>2 DEF OwnerInv, ShrinkSize, Critical
    <3>2. /\ pc'[q] = pc[q] /\ wrote'[q] = wrote[q] /\ res'[q] = res[q]
          /\ op' = op /\ edge' = edge
      BY <1>0, <1>15, <2>2 DEF ShrinkSize, Finish
    <3> QED
      BY <1>00, <3>1, <3>2 DEF CallInv, Critical, Waits
  <2> QED
    BY <2>1, <2>2
<1>16. ASSUME NEW p \in Procs, SignalCondvar(p) PROVE CallInv(q)'
  BY <1>0, <1>00, <1>16 DEF CallInv, OwnerInv, Critical, SignalCondvar, Notified,
       Waits, Kinds, AddKinds, SubKinds, shared, fds, locals, env
<1>17. ASSUME NEW p \in Procs, SignalEvent(p) PROVE CallInv(q)'
  BY <1>0, <1>00, <1>17 DEF CallInv, OwnerInv, Critical, SignalEvent, Finish, shared,
       fds, locals, env
<1>18. ASSUME NEW p \in Procs, Return(p) PROVE CallInv(q)'
  BY <1>0, <1>00, <1>18 DEF CallInv, OwnerInv, Critical, Return, shared, fds, locals,
       env
<1>19. ASSUME NEW p \in Procs, Attach(p) PROVE CallInv(q)'
  BY <1>0, <1>00, <1>19 DEF CallInv, OwnerInv, Critical, Attach, Finish, shared, fds,
       locals, env
<1>20. ASSUME NEW p \in Procs, Crash(p) PROVE CallInv(q)'
  BY <1>0, <1>00, <1>20 DEF CallInv, OwnerInv, Critical, Crash, shared, fds, locals, env
<1>21. ASSUME SetProducerEventFd PROVE CallInv(q)'
  BY <1>0, <1>00, <1>21 DEF CallInv, SetProducerEventFd, shared, fds, locals, env
<1>22. ASSUME SetConsumerEventFd PROVE CallInv(q)'
  BY <1>0, <1>00, <1>22 DEF CallInv, SetConsumerEventFd, shared, fds, locals, env
<1>23. ASSUME ResetMutexForRestart PROVE CallInv(q)'
  BY <1>0, <1>00, <1>23 DEF CallInv, ResetMutexForRestart, shared, fds, locals, env
<1>24. CASE UNCHANGED vars
  BY <1>00, <1>24 DEF CallInv, vars, shared, fds, locals, env
<1> QED
  BY <1>1, <1>2, <1>3, <1>4, <1>5, <1>6, <1>7, <1>8, <1>9, <1>10, <1>11, <1>12,
       <1>13, <1>14, <1>15, <1>16, <1>17, <1>18, <1>19, <1>20, <1>21, <1>22, <1>23,
       <1>24 DEF Next, Step

\* A result is decided only where the number of committed elements is known.
LEMMA CommitStep == IInv /\ [Next]_vars => CommitMatchesResult'
<1> SUFFICES ASSUME IInv, [Next]_vars PROVE CommitMatchesResult'
  OBVIOUS
<1>0. /\ pc \in [Procs -> Pcs] /\ op \in [Procs -> OpSet \cup {NoOp}]
      /\ wrote \in [Procs -> 0 .. 2] /\ res \in [Procs -> Results]
  BY DEF IInv, TypeOK
<1>00. CommitMatchesResult /\ \A p \in Procs : CallInv(p)
  BY DEF IInv
<1>1. ASSUME NEW p \in Procs, Start(p) PROVE CommitMatchesResult'
  BY <1>0, <1>00, <1>1 DEF CommitMatchesResult, CallInv, Results, Start, shared, fds,
       locals, env
<1>2. ASSUME NEW p \in Procs, Acquire(p) PROVE CommitMatchesResult'
  BY <1>0, <1>00, <1>2 DEF CommitMatchesResult, CallInv, Results, Acquire, Finish,
       shared, fds, locals, env
<1>3. ASSUME NEW p \in Procs, AcquireOwnerDied(p) PROVE CommitMatchesResult'
  BY <1>0, <1>00, <1>3 DEF CommitMatchesResult, CallInv, Results, AcquireOwnerDied,
       Finish, shared, fds, locals, env
<1>4. ASSUME NEW p \in Procs, AcquireBusy(p) PROVE CommitMatchesResult'
  BY <1>0, <1>00, <1>4 DEF CommitMatchesResult, CallInv, Results, AcquireBusy,
       Finish, shared, fds, locals, env
<1>5. ASSUME NEW p \in Procs, TestReady(p) PROVE CommitMatchesResult'
  BY <1>0, <1>00, <1>5 DEF CommitMatchesResult, CallInv, Results, TestReady, shared,
       fds, locals, env
<1>6. ASSUME NEW p \in Procs, TestFails(p) PROVE CommitMatchesResult'
  BY <1>0, <1>00, <1>6 DEF CommitMatchesResult, CallInv, Results, Need, TestFails,
       Finish, shared, fds, locals, env
<1>7. ASSUME NEW p \in Procs, Wait(p) PROVE CommitMatchesResult'
  BY <1>0, <1>00, <1>7 DEF CommitMatchesResult, CallInv, Results, Wait, shared, fds,
       locals, env
<1>8. ASSUME NEW p \in Procs, WaitTimeout(p) PROVE CommitMatchesResult'
  BY <1>0, <1>00, <1>8 DEF CommitMatchesResult, CallInv, Results, WaitTimeout,
       Wakeup, shared, fds, locals, env
<1>9. ASSUME NEW p \in Procs, SpinEnds(p) PROVE CommitMatchesResult'
  BY <1>0, <1>00, <1>9 DEF CommitMatchesResult, CallInv, Results, SpinEnds, Wakeup,
       shared, fds, locals, env
<1>10. ASSUME NEW p \in Procs, SpuriousWakeup(p) PROVE CommitMatchesResult'
  BY <1>0, <1>00, <1>10 DEF CommitMatchesResult, CallInv, Results, SpuriousWakeup,
       Wakeup, shared, fds, locals, env
<1>11. ASSUME NEW p \in Procs, Copy(p) PROVE CommitMatchesResult'
  BY <1>0, <1>00, <1>11 DEF CommitMatchesResult, CallInv, Results, Copy, shared, fds,
       locals, env
<1>12. ASSUME NEW p \in Procs, StoreTail(p) PROVE CommitMatchesResult'
  BY <1>0, <1>00, <1>12 DEF CommitMatchesResult, CallInv, Results, StoreTail, shared,
       fds, locals, env
<1>13. ASSUME NEW p \in Procs, GrowSize(p) PROVE CommitMatchesResult'
  BY <1>0, <1>00, <1>13 DEF CommitMatchesResult, CallInv, Results, GrowSize, Finish,
       shared, fds, locals, env
<1>14. ASSUME NEW p \in Procs, Take(p) PROVE CommitMatchesResult'
  BY <1>0, <1>00, <1>14 DEF CommitMatchesResult, CallInv, Results, Take, shared, fds,
       locals, env
<1>15. ASSUME NEW p \in Procs, ShrinkSize(p) PROVE CommitMatchesResult'
  BY <1>0, <1>00, <1>15 DEF CommitMatchesResult, CallInv, Results, Need, SubKinds,
       ShrinkSize, Finish, shared, fds, locals, env
<1>16. ASSUME NEW p \in Procs, SignalCondvar(p) PROVE CommitMatchesResult'
  BY <1>0, <1>00, <1>16 DEF CommitMatchesResult, CallInv, Results, SignalCondvar,
       Notified, shared, fds, locals, env
<1>17. ASSUME NEW p \in Procs, SignalEvent(p) PROVE CommitMatchesResult'
  BY <1>0, <1>00, <1>17 DEF CommitMatchesResult, CallInv, Results, SignalEvent,
       Finish, shared, fds, locals, env
<1>18. ASSUME NEW p \in Procs, Return(p) PROVE CommitMatchesResult'
  BY <1>0, <1>00, <1>18 DEF CommitMatchesResult, CallInv, Results, Return, shared,
       fds, locals, env
<1>19. ASSUME NEW p \in Procs, Attach(p) PROVE CommitMatchesResult'
  BY <1>0, <1>00, <1>19 DEF CommitMatchesResult, CallInv, Results, Need, Attach,
       Finish, shared, fds, locals, env
<1>20. ASSUME NEW p \in Procs, Crash(p) PROVE CommitMatchesResult'
  BY <1>0, <1>00, <1>20 DEF CommitMatchesResult, CallInv, Results, Crash, shared,
       fds, locals, env
<1>21. ASSUME SetProducerEventFd PROVE CommitMatchesResult'
  BY <1>0, <1>00, <1>21 DEF CommitMatchesResult, CallInv, Results,
       SetProducerEventFd, shared, fds, locals, env
<1>22. ASSUME SetConsumerEventFd PROVE CommitMatchesResult'
  BY <1>0, <1>00, <1>22 DEF CommitMatchesResult, CallInv, Results,
       SetConsumerEventFd, shared, fds, locals, env
<1>23. ASSUME ResetMutexForRestart PROVE CommitMatchesResult'
  BY <1>0, <1>00, <1>23 DEF CommitMatchesResult, CallInv, Results,
       ResetMutexForRestart, shared, fds, locals, env
<1>24. CASE UNCHANGED vars
  BY <1>0, <1>00, <1>24 DEF CommitMatchesResult, CallInv, Results, vars, shared, fds,
       locals, env
<1> QED
  BY <1>1, <1>2, <1>3, <1>4, <1>5, <1>6, <1>7, <1>8, <1>9, <1>10, <1>11, <1>12,
       <1>13, <1>14, <1>15, <1>16, <1>17, <1>18, <1>19, <1>20, <1>21, <1>22, <1>23,
       <1>24 DEF Next, Step

\* head, tail and cursize move together, up to the step between two stores.
LEMMA RingStep == IInv /\ [Next]_vars => RingInv'
<1> SUFFICES ASSUME IInv, [Next]_vars PROVE RingInv'
  OBVIOUS
<1>0. /\ pc \in [Procs -> Pcs] /\ MaxSize \in Nat \ {0}
      /\ head \in 0 .. MaxSize - 1 /\ tail \in 0 .. MaxSize - 1
      /\ cursize \in 0 .. MaxSize
  BY SizeAssumption DEF IInv, TypeOK
<1>00. RingInv /\ OwnerInv /\ \A p \in Procs : CallInv(p)
  BY DEF IInv
<1> USE DEF InIndexWindow, InSizeWindow
<1>1. ASSUME NEW p \in Procs, Start(p) PROVE RingInv'
  BY <1>0, <1>00, <1>1 DEF RingInv, SlotAt, OwnerInv, Critical, Start, shared, fds,
       locals, env
<1>2. ASSUME NEW p \in Procs, Acquire(p) PROVE RingInv'
  BY <1>0, <1>00, <1>2 DEF RingInv, SlotAt, OwnerInv, Critical, Acquire, Finish,
       shared, fds, locals, env
<1>3. ASSUME NEW p \in Procs, AcquireOwnerDied(p) PROVE RingInv'
  BY <1>0, <1>00, <1>3 DEF RingInv, SlotAt, OwnerInv, Critical, AcquireOwnerDied,
       Finish, shared, fds, locals, env
<1>4. ASSUME NEW p \in Procs, AcquireBusy(p) PROVE RingInv'
  BY <1>0, <1>00, <1>4 DEF RingInv, SlotAt, OwnerInv, Critical, AcquireBusy, Finish,
       shared, fds, locals, env
<1>5. ASSUME NEW p \in Procs, TestReady(p) PROVE RingInv'
  BY <1>0, <1>00, <1>5 DEF RingInv, SlotAt, OwnerInv, Critical, TestReady, shared,
       fds, locals, env
<1>6. ASSUME NEW p \in Procs, TestFails(p) PROVE RingInv'
  BY <1>0, <1>00, <1>6 DEF RingInv, SlotAt, OwnerInv, Critical, TestFails, Finish,
       shared, fds, locals, env
<1>7. ASSUME NEW p \in Procs, Wait(p) PROVE RingInv'
  BY <1>0, <1>00, <1>7 DEF RingInv, SlotAt, OwnerInv, Critical, Wait, shared, fds,
       locals, env
<1>8. ASSUME NEW p \in Procs, WaitTimeout(p) PROVE RingInv'
  BY <1>0, <1>00, <1>8 DEF RingInv, SlotAt, OwnerInv, Critical, WaitTimeout, Wakeup,
       shared, fds, locals, env
<1>9. ASSUME NEW p \in Procs, SpinEnds(p) PROVE RingInv'
  BY <1>0, <1>00, <1>9 DEF RingInv, SlotAt, OwnerInv, Critical, SpinEnds, Wakeup,
       shared, fds, locals, env
<1>10. ASSUME NEW p \in Procs, SpuriousWakeup(p) PROVE RingInv'
  BY <1>0, <1>00, <1>10 DEF RingInv, SlotAt, OwnerInv, Critical, SpuriousWakeup,
       Wakeup, shared, fds, locals, env
<1>11. ASSUME NEW p \in Procs, Copy(p) PROVE RingInv'
  BY <1>0, <1>00, <1>11 DEF RingInv, SlotAt, OwnerInv, Critical, Copy, shared, fds,
       locals, env
<1>12. ASSUME NEW p \in Procs, StoreTail(p) PROVE RingInv'
  <2>1. cursize < MaxSize
    <3>1. /\ op[p].kind \in AddKinds /\ wrote[p] < Need(op[p])
          /\ cursize + Need(op[p]) <= MaxSize + wrote[p]
      BY <1>00, <1>12 DEF CallInv, StoreTail
    <3>2. Need(op[p]) \in {1, 2}
      BY <3>1 DEF Need, AddKinds
    <3>3. wrote[p] \in 0 .. 2
      BY DEF IInv, TypeOK
    <3> QED
      BY <1>0, <3>1, <3>2, <3>3
  <2>2. \A q \in Procs : pc[q] \in {"size", "subsize"} => FALSE
    BY <1>00, <1>12 DEF OwnerInv, Critical, StoreTail
  <2>3. ~torn => tail = SlotAt(cursize)
    BY <1>00, <2>2 DEF RingInv
  <2>4. /\ tail' = NextIndex(tail) /\ head' = head /\ cursize' = cursize
        /\ torn' = torn /\ pc' = [pc EXCEPT ![p] = "size"]
    BY <1>12 DEF StoreTail, env
  <2>5. ~torn => tail' = SlotAt(cursize + 1)
    BY <1>0, <2>1, <2>3, <2>4 DEF SlotAt, NextIndex
  <2> QED
    BY <1>0, <2>2, <2>4, <2>5 DEF RingInv, SlotAt
<1>13. ASSUME NEW p \in Procs, GrowSize(p) PROVE RingInv'
  BY <1>0, <1>00, <1>13 DEF RingInv, SlotAt, OwnerInv, Critical, GrowSize, Finish,
       shared, fds, locals, env
<1>14. ASSUME NEW p \in Procs, Take(p) PROVE RingInv'
  <2>1. cursize > 0
    BY <1>00, <1>14 DEF CallInv, Take
  <2>2. \A q \in Procs : pc[q] \in {"size", "subsize"} => FALSE
    BY <1>00, <1>14 DEF OwnerInv, Critical, Take
  <2>3. ~torn => tail = SlotAt(cursize)
    BY <1>00, <2>2 DEF RingInv
  <2>4. /\ head' = NextIndex(head) /\ tail' = tail /\ cursize' = cursize
        /\ torn' = torn /\ pc' = [pc EXCEPT ![p] = "subsize"]
    BY <1>14 DEF Take, env
  <2>5. ~torn => tail' = IF head' + (cursize - 1) < MaxSize THEN head' + (cursize - 1)
                         ELSE head' + (cursize - 1) - MaxSize
    BY <1>0, <2>1, <2>3, <2>4 DEF SlotAt, NextIndex
  <2> QED
    BY <1>0, <2>2, <2>4, <2>5 DEF RingInv, SlotAt
<1>15. ASSUME NEW p \in Procs, ShrinkSize(p) PROVE RingInv'
  BY <1>0, <1>00, <1>15 DEF RingInv, SlotAt, OwnerInv, Critical, ShrinkSize, Finish,
       shared, fds, locals, env
<1>16. ASSUME NEW p \in Procs, SignalCondvar(p) PROVE RingInv'
  BY <1>0, <1>00, <1>16 DEF RingInv, SlotAt, OwnerInv, Critical, SignalCondvar,
       Notified, shared, fds, locals, env
<1>17. ASSUME NEW p \in Procs, SignalEvent(p) PROVE RingInv'
  BY <1>0, <1>00, <1>17 DEF RingInv, SlotAt, OwnerInv, Critical, SignalEvent, Finish,
       shared, fds, locals, env
<1>18. ASSUME NEW p \in Procs, Return(p) PROVE RingInv'
  BY <1>0, <1>00, <1>18 DEF RingInv, SlotAt, OwnerInv, Critical, Return, shared, fds,
       locals, env
<1>19. ASSUME NEW p \in Procs, Attach(p) PROVE RingInv'
  BY <1>0, <1>00, <1>19 DEF RingInv, SlotAt, OwnerInv, Critical, Attach, Finish,
       shared, fds, locals, env
<1>20. ASSUME NEW p \in Procs, Crash(p) PROVE RingInv'
  BY <1>0, <1>00, <1>20 DEF RingInv, SlotAt, OwnerInv, Critical, Crash, shared, fds,
       locals, env
<1>21. ASSUME SetProducerEventFd PROVE RingInv'
  BY <1>0, <1>00, <1>21 DEF RingInv, SlotAt, OwnerInv, Critical, SetProducerEventFd,
       shared, fds, locals, env
<1>22. ASSUME SetConsumerEventFd PROVE RingInv'
  BY <1>0, <1>00, <1>22 DEF RingInv, SlotAt, OwnerInv, Critical, SetConsumerEventFd,
       shared, fds, locals, env
<1>23. ASSUME ResetMutexForRestart PROVE RingInv'
  BY <1>0, <1>00, <1>23 DEF RingInv, SlotAt, OwnerInv, Critical,
       ResetMutexForRestart, shared, fds, locals, env
<1>24. CASE UNCHANGED vars
  BY <1>0, <1>00, <1>24 DEF RingInv, SlotAt, OwnerInv, Critical, vars, shared, fds,
       locals, env
<1> QED
  BY <1>1, <1>2, <1>3, <1>4, <1>5, <1>6, <1>7, <1>8, <1>9, <1>10, <1>11, <1>12,
       <1>13, <1>14, <1>15, <1>16, <1>17, <1>18, <1>19, <1>20, <1>21, <1>22, <1>23,
       <1>24 DEF Next, Step

\* The step that makes a queue ready for a sleeper is the step that makes its
\* process owe the notification; it pays by notify_all.
LEMMA WakeupStep == IInv /\ [Next]_vars => NoLostWakeup'
<1> SUFFICES ASSUME IInv, [Next]_vars PROVE NoLostWakeup'
  OBVIOUS
<1>0. /\ pc \in [Procs -> Pcs] /\ op \in [Procs -> OpSet \cup {NoOp}]
      /\ edge \in [Procs -> BOOLEAN] /\ wrote \in [Procs -> 0 .. 2]
      /\ cursize \in 0 .. MaxSize /\ MaxSize \in Nat \ {0}
  BY SizeAssumption DEF IInv, TypeOK
<1>00. NoLostWakeup /\ OwnerInv /\ \A p \in Procs : CallInv(p)
  BY DEF IInv
<1>1. ASSUME NEW p \in Procs, Start(p) PROVE NoLostWakeup'
  BY <1>0, <1>00, <1>1 DEF NoLostWakeup, Ready, Owes, OwnerInv, CallInv, Critical,
       Start, shared, fds, locals, env
<1>2. ASSUME NEW p \in Procs, Acquire(p) PROVE NoLostWakeup'
  BY <1>0, <1>00, <1>2 DEF NoLostWakeup, Ready, Owes, OwnerInv, CallInv, Critical,
       Acquire, Finish, shared, fds, locals, env
<1>3. ASSUME NEW p \in Procs, AcquireOwnerDied(p) PROVE NoLostWakeup'
  BY <1>0, <1>00, <1>3 DEF NoLostWakeup, Ready, Owes, OwnerInv, CallInv, Critical,
       AcquireOwnerDied, Finish, shared, fds, locals, env
<1>4. ASSUME NEW p \in Procs, AcquireBusy(p) PROVE NoLostWakeup'
  BY <1>0, <1>00, <1>4 DEF NoLostWakeup, Ready, Owes, OwnerInv, CallInv, Critical,
       AcquireBusy, Finish, shared, fds, locals, env
<1>5. ASSUME NEW p \in Procs, TestReady(p) PROVE NoLostWakeup'
  BY <1>0, <1>00, <1>5 DEF NoLostWakeup, Ready, Owes, OwnerInv, CallInv, Critical,
       TestReady, shared, fds, locals, env
<1>6. ASSUME NEW p \in Procs, TestFails(p) PROVE NoLostWakeup'
  BY <1>0, <1>00, <1>6 DEF NoLostWakeup, Ready, Owes, OwnerInv, CallInv, Critical,
       TestFails, Finish, shared, fds, locals, env
<1>7. ASSUME NEW p \in Procs, Wait(p) PROVE NoLostWakeup'
  BY <1>0, <1>00, <1>7 DEF NoLostWakeup, Ready, Owes, OwnerInv, CallInv, Critical,
       Wait, shared, fds, locals, env
<1>8. ASSUME NEW p \in Procs, WaitTimeout(p) PROVE NoLostWakeup'
  BY <1>0, <1>00, <1>8 DEF NoLostWakeup, Ready, Owes, OwnerInv, CallInv, Critical,
       WaitTimeout, Wakeup, shared, fds, locals, env
<1>9. ASSUME NEW p \in Procs, SpinEnds(p) PROVE NoLostWakeup'
  BY <1>0, <1>00, <1>9 DEF NoLostWakeup, Ready, Owes, OwnerInv, CallInv, Critical,
       SpinEnds, Wakeup, shared, fds, locals, env
<1>10. ASSUME NEW p \in Procs, SpuriousWakeup(p) PROVE NoLostWakeup'
  BY <1>0, <1>00, <1>10 DEF NoLostWakeup, Ready, Owes, OwnerInv, CallInv, Critical,
       SpuriousWakeup, Wakeup, shared, fds, locals, env
<1>11. ASSUME NEW p \in Procs, Copy(p) PROVE NoLostWakeup'
  BY <1>0, <1>00, <1>11 DEF NoLostWakeup, Ready, Owes, OwnerInv, CallInv, Critical,
       Copy, shared, fds, locals, env
<1>12. ASSUME NEW p \in Procs, StoreTail(p) PROVE NoLostWakeup'
  BY <1>0, <1>00, <1>12 DEF NoLostWakeup, Ready, Owes, OwnerInv, CallInv, Critical,
       StoreTail, shared, fds, locals, env
<1>13. ASSUME NEW p \in Procs, GrowSize(p) PROVE NoLostWakeup'
  <2> SUFFICES ASSUME ~muted', ~producer_evtfd', ~consumer_evtfd', NEW r \in Procs,
                      (pc[r] = "asleep")', (op[r].kind \in {"add", "sub"})',
                      Ready(op[r])'
               PROVE  \E q \in Procs : Owes(q)'
    BY DEF NoLostWakeup
  <2>1. /\ pc[p] = "size" /\ cursize' = cursize + 1 /\ op' = op /\ edge' = edge
        /\ wrote'[p] = wrote[p] + 1
        /\ ~muted /\ ~producer_evtfd /\ ~consumer_evtfd
    BY <1>0, <1>13 DEF GrowSize, fds, env
  <2>2. pc[r] = "asleep"
    BY <1>0, <1>13, <2>1 DEF GrowSize, Finish
  <2>3. edge[p]
    <3>1. \A q \in Procs : Owes(q) => q = p
      BY <1>00, <2>1 DEF Owes, OwnerInv, Critical
    <3>2. Ready(op[r]) => Owes(p)
      BY <1>00, <2>1, <2>2, <3>1 DEF NoLostWakeup
    <3>3. /\ cursize + Need(op[p]) <= MaxSize + wrote[p] /\ wrote[p] < Need(op[p])
          /\ wrote[p] <= cursize /\ (edge[p] <=> cursize = wrote[p])
      BY <1>00, <2>1 DEF CallInv
    <3>4. Need(op[p]) \in {1, 2}
      BY <1>00, <2>1 DEF CallInv, Need, AddKinds
    <3>5. cursize < MaxSize
      BY <1>0, <3>3, <3>4
    <3>6. CASE Ready(op[r])
      BY <3>2, <3>6 DEF Owes
    <3>7. CASE ~Ready(op[r])
      <4>1. op[r].kind \in {"add", "sub"}
        BY <2>1
      <4>2. cursize = 0
        BY <1>0, <3>5, <3>7, <4>1 DEF Ready
      <4> QED
        BY <1>0, <3>3, <4>2
    <3> QED
      BY <3>6, <3>7
  <2>4. \/ pc'[p] = "signal"
        \/ pc'[p] = "copy" /\ wrote[p] + 1 < Need(op[p])
    BY <1>0, <1>13, <2>3 DEF GrowSize, Finish
  <2>5. Need(op[p]) \in {1, 2}
    BY <1>00, <2>1 DEF CallInv, Need, AddKinds
  <2>6. Owes(p)'
    BY <1>0, <2>1, <2>3, <2>4, <2>5 DEF Owes
  <2> QED
    BY <2>6
<1>14. ASSUME NEW p \in Procs, Take(p) PROVE NoLostWakeup'
  BY <1>0, <1>00, <1>14 DEF NoLostWakeup, Ready, Owes, OwnerInv, CallInv, Critical,
       Take, shared, fds, locals, env
<1>15. ASSUME NEW p \in Procs, ShrinkSize(p) PROVE NoLostWakeup'
  BY <1>0, <1>00, <1>15 DEF NoLostWakeup, Ready, Owes, OwnerInv, CallInv, Critical,
       ShrinkSize, Finish, shared, fds, locals, env
<1>16. ASSUME NEW p \in Procs, SignalCondvar(p) PROVE NoLostWakeup'
  BY <1>0, <1>00, <1>16 DEF NoLostWakeup, Ready, Owes, OwnerInv, CallInv, Critical,
       SignalCondvar, Notified, shared, fds, locals, env
<1>17. ASSUME NEW p \in Procs, SignalEvent(p) PROVE NoLostWakeup'
  BY <1>0, <1>00, <1>17 DEF NoLostWakeup, Ready, Owes, OwnerInv, CallInv, Critical,
       SignalEvent, Finish, shared, fds, locals, env
<1>18. ASSUME NEW p \in Procs, Return(p) PROVE NoLostWakeup'
  BY <1>0, <1>00, <1>18 DEF NoLostWakeup, Ready, Owes, OwnerInv, CallInv, Critical,
       Return, shared, fds, locals, env
<1>19. ASSUME NEW p \in Procs, Attach(p) PROVE NoLostWakeup'
  BY <1>0, <1>00, <1>19 DEF NoLostWakeup, Ready, Owes, OwnerInv, CallInv, Critical,
       Attach, Finish, shared, fds, locals, env
<1>20. ASSUME NEW p \in Procs, Crash(p) PROVE NoLostWakeup'
  BY <1>0, <1>00, <1>20 DEF NoLostWakeup, Ready, Owes, OwnerInv, CallInv, Critical,
       Crash, shared, fds, locals, env
<1>21. ASSUME SetProducerEventFd PROVE NoLostWakeup'
  BY <1>0, <1>00, <1>21 DEF NoLostWakeup, Ready, Owes, OwnerInv, CallInv, Critical,
       SetProducerEventFd, shared, fds, locals, env
<1>22. ASSUME SetConsumerEventFd PROVE NoLostWakeup'
  BY <1>0, <1>00, <1>22 DEF NoLostWakeup, Ready, Owes, OwnerInv, CallInv, Critical,
       SetConsumerEventFd, shared, fds, locals, env
<1>23. ASSUME ResetMutexForRestart PROVE NoLostWakeup'
  BY <1>0, <1>00, <1>23 DEF NoLostWakeup, Ready, Owes, OwnerInv, CallInv, Critical,
       ResetMutexForRestart, shared, fds, locals, env
<1>24. CASE UNCHANGED vars
  BY <1>0, <1>00, <1>24 DEF NoLostWakeup, Ready, Owes, OwnerInv, CallInv, Critical,
       vars, shared, fds, locals, env
<1> QED
  BY <1>1, <1>2, <1>3, <1>4, <1>5, <1>6, <1>7, <1>8, <1>9, <1>10, <1>11, <1>12,
       <1>13, <1>14, <1>15, <1>16, <1>17, <1>18, <1>19, <1>20, <1>21, <1>22, <1>23,
       <1>24 DEF Next, Step

-----------------------------------------------------------------------------
(* Theorems *)

\* The inductive invariant holds at the start
LEMMA InitIInv == Init => IInv
<1> SUFFICES ASSUME Init PROVE IInv
  OBVIOUS
<1>1. TypeOK
  BY TypeInit
<1>2. \A p \in Procs : pc[p] = "idle" /\ wrote[p] = 0 /\ res[p] = "none"
  BY DEF Init
<1>3. OwnerInv
  BY <1>2 DEF OwnerInv, Critical
<1>4. \A p \in Procs : CallInv(p)
  BY <1>2 DEF CallInv
<1>5. RingInv
  BY <1>2, SizeAssumption DEF Init, RingInv, SlotAt, InIndexWindow, InSizeWindow
<1>6. CommitMatchesResult
  BY <1>2 DEF CommitMatchesResult
<1>7. NoLostWakeup
  BY <1>2 DEF NoLostWakeup
<1> QED
  BY <1>1, <1>3, <1>4, <1>5, <1>6, <1>7 DEF IInv

\* and is kept by every step.
LEMMA Invariance == Spec => []IInv
<1>1. IInv /\ [Next]_vars => IInv'
  BY TypeStep, OwnerStep, CallStep, RingStep, CommitStep, WakeupStep DEF IInv
<1> QED
  BY InitIInv, <1>1, PTL DEF Spec

\* Every variable stays in its type: head and tail stay inside the ring and
\* cursize never exceeds maxsize, also when owners die between two stores.
THEOREM TypeCorrect == Spec => []TypeOK
<1>1. IInv => TypeOK
  BY DEF IInv
<1> QED
  BY Invariance, <1>1, PTL

\* Two processes are never inside the mutex together.
THEOREM MutexHolds == Spec => []MutualExclusion
<1>1. IInv => MutualExclusion
  BY DEF IInv, OwnerInv, MutualExclusion
<1> QED
  BY Invariance, <1>1, PTL

\* head, tail and cursize agree as long as no owner died between two of
\* their stores.
THEOREM RingHolds == Spec => []RingConsistent
<1>1. ASSUME IInv PROVE RingConsistent
  <2> SUFFICES ASSUME ~torn
               PROVE  /\ Taken <= cursize /\ cursize + Grown <= MaxSize
                      /\ tail = SlotAt((cursize + Grown) - Taken)
    BY DEF RingConsistent
  <2>0. /\ cursize \in 0 .. MaxSize /\ MaxSize \in Nat /\ OwnerInv /\ RingInv
        /\ wrote \in [Procs -> 0 .. 2]
    BY <1>1, SizeAssumption DEF IInv, TypeOK
  <2>1. CASE \E p \in Procs : InIndexWindow(p)
    <3>1. PICK p \in Procs : InIndexWindow(p)
      BY <2>1
    <3>2. \A q \in Procs : ~InSizeWindow(q)
      BY <2>0, <3>1 DEF OwnerInv, InIndexWindow, InSizeWindow, Critical
    <3>3. Grown = 1 /\ Taken = 0
      BY <2>1, <3>2 DEF Grown, Taken
    <3>4. wrote[p] < Need(op[p]) /\ cursize + Need(op[p]) <= MaxSize + wrote[p]
      BY <1>1, <3>1 DEF IInv, CallInv, InIndexWindow
    <3>5. Need(op[p]) \in {1, 2}
      BY <1>1, <3>1 DEF IInv, CallInv, InIndexWindow, Need, AddKinds
    <3>6. cursize + 1 <= MaxSize
      BY <2>0, <3>4, <3>5
    <3>7. tail = SlotAt(cursize + 1)
      BY <2>0, <3>1 DEF RingInv
    <3> QED
      BY <2>0, <3>3, <3>6, <3>7
  <2>2. CASE \E p \in Procs : InSizeWindow(p)
    <3>1. PICK p \in Procs : InSizeWindow(p)
      BY <2>2
    <3>2. \A q \in Procs : ~InIndexWindow(q)
      BY <2>0, <3>1 DEF OwnerInv, InIndexWindow, InSizeWindow, Critical
    <3>3. Grown = 0 /\ Taken = 1
      BY <2>2, <3>2 DEF Grown, Taken
    <3>4. cursize > 0
      BY <1>1, <3>1 DEF IInv, CallInv, InSizeWindow
    <3>5. tail = SlotAt(cursize - 1)
      BY <2>0, <3>1 DEF RingInv
    <3> QED
      BY <2>0, <3>3, <3>4, <3>5
  <2>3. CASE \A p \in Procs : ~InIndexWindow(p) /\ ~InSizeWindow(p)
    <3>1. Grown = 0 /\ Taken = 0
      BY <2>3 DEF Grown, Taken
    <3>2. tail = SlotAt(cursize)
      BY <2>0, <2>3 DEF RingInv
    <3> QED
      BY <2>0, <3>1, <3>2
  <2> QED
    BY <2>1, <2>2, <2>3
<1> QED
  BY Invariance, <1>1, PTL

\* What a result says of the queue: all elements of the call moved, or none.
THEOREM CommitHolds == Spec => []CommitMatchesResult
<1>1. IInv => CommitMatchesResult
  BY DEF IInv
<1> QED
  BY Invariance, <1>1, PTL

\* Notifying on the two edges only loses no wakeup of an add or a sub.
THEOREM WakeupHolds == Spec => []NoLostWakeup
<1>1. IInv => NoLostWakeup
  BY DEF IInv
<1> QED
  BY Invariance, <1>1, PTL

\* A validation of the header races with every store of a live or dying
\* owner and never finds an index or an occupancy out of bounds.
THEOREM AttachHolds == Spec => []AttachSucceeds
<1>1. Init => AttachSucceeds
  BY DEF Init, AttachSucceeds
<1>2. ASSUME IInv, AttachSucceeds, [Next]_vars PROVE AttachSucceeds'
  <2>1. /\ res \in [Procs -> Results] /\ AttachSucceeds
        /\ head \in 0 .. MaxSize - 1 /\ tail \in 0 .. MaxSize - 1
        /\ cursize \in 0 .. MaxSize /\ MaxSize \in Nat
    BY <1>2, SizeAssumption DEF IInv, TypeOK
  <2>2. ASSUME NEW p \in Procs, Start(p) PROVE AttachSucceeds'
    BY <2>1, <2>2 DEF AttachSucceeds, Start
  <2>3. ASSUME NEW p \in Procs, Acquire(p) PROVE AttachSucceeds'
    BY <2>1, <2>3 DEF AttachSucceeds, Acquire, Finish
  <2>4. ASSUME NEW p \in Procs, AcquireOwnerDied(p) PROVE AttachSucceeds'
    BY <2>1, <2>4 DEF AttachSucceeds, AcquireOwnerDied, Finish
  <2>5. ASSUME NEW p \in Procs, AcquireBusy(p) PROVE AttachSucceeds'
    BY <2>1, <2>5 DEF AttachSucceeds, AcquireBusy, Finish
  <2>6. ASSUME NEW p \in Procs, TestReady(p) PROVE AttachSucceeds'
    BY <2>1, <2>6 DEF AttachSucceeds, TestReady
  <2>7. ASSUME NEW p \in Procs, TestFails(p) PROVE AttachSucceeds'
    BY <2>1, <2>7 DEF AttachSucceeds, TestFails, Finish
  <2>8. ASSUME NEW p \in Procs, Wait(p) PROVE AttachSucceeds'
    BY <2>1, <2>8 DEF AttachSucceeds, Wait
  <2>9. ASSUME NEW p \in Procs, WaitTimeout(p) PROVE AttachSucceeds'
    BY <2>1, <2>9 DEF AttachSucceeds, WaitTimeout, Wakeup
  <2>10. ASSUME NEW p \in Procs, SpinEnds(p) PROVE AttachSucceeds'
    BY <2>1, <2>10 DEF AttachSucceeds, SpinEnds, Wakeup
  <2>11. ASSUME NEW p \in Procs, SpuriousWakeup(p) PROVE AttachSucceeds'
    BY <2>1, <2>11 DEF AttachSucceeds, SpuriousWakeup, Wakeup
  <2>12. ASSUME NEW p \in Procs, Copy(p) PROVE AttachSucceeds'
    BY <2>1, <2>12 DEF AttachSucceeds, Copy, locals
  <2>13. ASSUME NEW p \in Procs, StoreTail(p) PROVE AttachSucceeds'
    BY <2>1, <2>13 DEF AttachSucceeds, StoreTail, locals
  <2>14. ASSUME NEW p \in Procs, GrowSize(p) PROVE AttachSucceeds'
    BY <2>1, <2>14 DEF AttachSucceeds, GrowSize, Finish
  <2>15. ASSUME NEW p \in Procs, Take(p) PROVE AttachSucceeds'
    BY <2>1, <2>15 DEF AttachSucceeds, Take
  <2>16. ASSUME NEW p \in Procs, ShrinkSize(p) PROVE AttachSucceeds'
    BY <2>1, <2>16 DEF AttachSucceeds, ShrinkSize, Finish
  <2>17. ASSUME NEW p \in Procs, SignalCondvar(p) PROVE AttachSucceeds'
    BY <2>1, <2>17 DEF AttachSucceeds, SignalCondvar, Notified
  <2>18. ASSUME NEW p \in Procs, SignalEvent(p) PROVE AttachSucceeds'
    BY <2>1, <2>18 DEF AttachSucceeds, SignalEvent, Finish
  <2>19. ASSUME NEW p \in Procs, Return(p) PROVE AttachSucceeds'
    BY <2>1, <2>19 DEF AttachSucceeds, Return
  <2>20. ASSUME NEW p \in Procs, Attach(p) PROVE AttachSucceeds'
    BY <2>1, <2>20 DEF AttachSucceeds, Attach, Finish
  <2>21. ASSUME NEW p \in Procs, Crash(p) PROVE AttachSucceeds'
    BY <2>1, <2>21 DEF AttachSucceeds, Crash, locals
  <2>22. ASSUME SetProducerEventFd PROVE AttachSucceeds'
    BY <2>1, <2>22 DEF AttachSucceeds, SetProducerEventFd, locals
  <2>23. ASSUME SetConsumerEventFd PROVE AttachSucceeds'
    BY <2>1, <2>23 DEF AttachSucceeds, SetConsumerEventFd, locals
  <2>24. ASSUME ResetMutexForRestart PROVE AttachSucceeds'
    BY <2>1, <2>24 DEF AttachSucceeds, ResetMutexForRestart, locals
  <2>25. CASE UNCHANGED vars
    BY <2>1, <2>25 DEF AttachSucceeds, vars, locals
  <2> QED
    BY <1>2, <2>2, <2>3, <2>4, <2>5, <2>6, <2>7, <2>8, <2>9, <2>10, <2>11, <2>12,
         <2>13, <2>14, <2>15, <2>16, <2>17, <2>18, <2>19, <2>20, <2>21, <2>22, <2>23,
         <2>24, <2>25 DEF Next, Step
<1> QED
  BY Invariance, <1>1, <1>2, PTL DEF Spec

-----------------------------------------------------------------------------
(* The bounded FIFO *)

\* Between its steps, what a writer has put into the ring is what its caller
\* passed.
SlotInv ==
    ~torn => \A p \in Procs :
        /\ pc[p] \in {"index", "size"} => slots[SlotAt(cursize)] = Element(p)
        /\ pc[p] \in {"copy", "index", "size"} /\ wrote[p] = 1
             => slots[SlotAt(cursize - 1)] = op[p].first

\* The process whose step hides an element from the callers of sub.
Hides(p) == InSizeWindow(p) \/ (wrote[p] = 1 /\ pc[p] \in {"copy", "index", "size"})

\* The slots of a ring are apart, inside it, and follow each other.
LEMMA SlotsApart ==
    ASSUME MaxSize \in Nat \ {0}, head \in 0 .. MaxSize - 1
    PROVE  /\ SlotAt(0) = head
           /\ \A i \in 0 .. MaxSize - 1 : SlotAt(i) \in 0 .. MaxSize - 1
           /\ \A i, j \in 0 .. MaxSize - 1 : i # j => SlotAt(i) # SlotAt(j)
BY DEF SlotAt

\* A writer has room for its element,
LEMMA WriterHasRoom ==
    ASSUME IInv, NEW p \in Procs, pc[p] \in {"copy", "index", "size"}
    PROVE  /\ cursize \in 0 .. MaxSize - 1 /\ MaxSize \in Nat \ {0} /\ cursize + 1 <= MaxSize
           /\ op[p].kind \in AddKinds /\ wrote[p] \in {0, 1} /\ wrote[p] <= cursize
           /\ op[p].kind = "add" => wrote[p] = 0 /\ Need(op[p]) = 1
           /\ op[p].kind = "add2" => Need(op[p]) = 2
           /\ ~torn /\ pc[p] # "size" => tail = SlotAt(cursize)
<1>1. /\ op[p].kind \in AddKinds /\ wrote[p] < Need(op[p]) /\ wrote[p] <= cursize
      /\ cursize + Need(op[p]) <= MaxSize + wrote[p] /\ wrote[p] \in 0 .. 2
      /\ cursize \in 0 .. MaxSize /\ MaxSize \in Nat \ {0}
  BY SizeAssumption DEF IInv, CallInv, TypeOK
<1>2. /\ Need(op[p]) \in {1, 2}
      /\ op[p].kind = "add" => Need(op[p]) = 1
      /\ op[p].kind = "add2" => Need(op[p]) = 2
  BY <1>1 DEF Need, AddKinds
<1>3. cursize \in 0 .. MaxSize - 1 /\ cursize + 1 <= MaxSize /\ wrote[p] \in {0, 1}
  BY <1>1, <1>2
<1>4. op[p].kind = "add" => wrote[p] = 0
  BY <1>1, <1>2
<1>5. ~torn /\ pc[p] # "size" => tail = SlotAt(cursize)
  <2> SUFFICES ASSUME ~torn, pc[p] # "size" PROVE tail = SlotAt(cursize)
    OBVIOUS
  <2>1. \A r \in Procs : pc[r] \in Critical => r = p
    BY DEF IInv, OwnerInv, Critical
  <2>2. \A r \in Procs : ~InIndexWindow(r) /\ ~InSizeWindow(r)
    BY <2>1 DEF Critical, InIndexWindow, InSizeWindow
  <2> QED
    BY <2>2 DEF IInv, RingInv
<1> QED
  BY <1>1, <1>2, <1>3, <1>4, <1>5

\* and only the owner of the mutex hides one.
LEMMA HiddenByOwner ==
    ASSUME IInv, NEW p \in Procs, pc[p] \in Critical
    PROVE  /\ \A r \in Procs : Hides(r) => r = p
           /\ Hidden = IF Hides(p) THEN 1 ELSE 0
<1>1. \A r \in Procs : pc[r] \in Critical => r = p
  BY DEF IInv, OwnerInv
<1>2. \A r \in Procs : Hides(r) => r = p
  BY <1>1 DEF Hides, InSizeWindow, Critical
<1> QED
  BY <1>2 DEF Hidden, Hides

\* Nothing is hidden that is not there.
LEMMA HiddenIsThere ==
    ASSUME IInv
    PROVE  /\ cursize - Hidden \in 0 .. MaxSize /\ Hidden \in {0, 1} /\ cursize \in 0 .. MaxSize
           /\ MaxSize \in Nat \ {0} /\ head \in 0 .. MaxSize - 1 /\ tail \in 0 .. MaxSize - 1
<1>1. /\ cursize \in 0 .. MaxSize /\ MaxSize \in Nat \ {0}
      /\ head \in 0 .. MaxSize - 1 /\ tail \in 0 .. MaxSize - 1
  BY SizeAssumption DEF IInv, TypeOK
<1>2. ASSUME NEW p \in Procs, Hides(p) PROVE cursize > 0
  <2>1. CASE InSizeWindow(p)
    BY <2>1 DEF IInv, CallInv, InSizeWindow
  <2>2. CASE wrote[p] = 1 /\ pc[p] \in {"copy", "index", "size"}
    <3>1. wrote[p] <= cursize
      BY <2>2, WriterHasRoom
    <3> QED
      BY <1>1, <2>2, <3>1
  <2> QED
    BY <1>2, <2>1, <2>2 DEF Hides
<1>3. CASE \E p \in Procs : Hides(p)
  <2>1. Hidden = 1 /\ cursize > 0
    BY <1>2, <1>3 DEF Hidden, Hides
  <2> QED
    BY <1>1, <2>1
<1>4. CASE ~\E p \in Procs : Hides(p)
  <2>1. Hidden = 0
    BY <1>4 DEF Hidden, Hides
  <2> QED
    BY <1>1, <2>1
<1> QED
  BY <1>3, <1>4

\* The contents are a sequence of elements.
LEMMA ContentsType ==
    ASSUME IInv
    PROVE  /\ Contents \in Seq(Values \cup {NoValue}) /\ Len(Contents) = cursize - Hidden
           /\ \A i \in 1 .. (cursize - Hidden) : Contents[i] = slots[SlotAt(i - 1)]
<1> DEFINE n == cursize - Hidden
<1>1. n \in Nat /\ n <= MaxSize /\ MaxSize \in Nat \ {0} /\ head \in 0 .. MaxSize - 1
  BY HiddenIsThere
<1>2. slots \in [0 .. MaxSize - 1 -> Values \cup {NoValue}]
  BY DEF IInv, TypeOK
<1> HIDE DEF n
<1>3. ASSUME NEW i \in 1 .. n PROVE slots[SlotAt(i - 1)] \in Values \cup {NoValue}
  <2>1. i - 1 \in 0 .. MaxSize - 1
    BY <1>1
  <2> QED
    BY <1>1, <1>2, <2>1, SlotsApart
<1>4. Contents = [i \in 1 .. n |-> slots[SlotAt(i - 1)]]
  BY DEF Contents, n
<1>5. Contents \in Seq(Values \cup {NoValue}) /\ Len(Contents) = n
  BY <1>1, <1>3, <1>4
<1> QED
  BY <1>4, <1>5 DEF n

\* A sequence is the function of its elements.
LEMMA SeqIsFunction ==
    ASSUME NEW T, NEW s \in Seq(T)
    PROVE  s = [i \in 1 .. Len(s) |-> s[i]]
BY LenProperties

\* Init has an empty queue.
LEMMA FifoInit == Init => Fifo!Init /\ SlotInv
<1> SUFFICES ASSUME Init PROVE Fifo!Init /\ SlotInv
  OBVIOUS
<1>1. \A p \in Procs : pc[p] = "idle"
  BY DEF Init
<1>2. Hidden = 0
  BY <1>1 DEF Hidden, InSizeWindow
<1>3. Contents = <<>>
  BY <1>2 DEF Init, Contents
<1>4. [p \in Procs |-> Offered(p)] = [p \in Procs |-> <<>>]
  BY <1>1 DEF Offered
<1>5. SlotInv
  BY <1>1 DEF SlotInv
<1>6. ~torn /\ got = [p \in Procs |-> NoValue]
  BY DEF Init
<1> QED
  BY <1>3, <1>4, <1>5, <1>6 DEF Fifo!Init, Init

\* A step that moves no element: the ring, what is hidden of it and what its
\* writers wrote stay, and one call at most makes or withdraws its offer.
Aside ==
    /\ UNCHANGED <<head, cursize, slots, got, torn>>
    /\ \A r \in Procs :
        /\ Hides(r)' <=> Hides(r)
        /\ pc'[r] \in {"index", "size"}
             => pc[r] \in {"index", "size"} /\ Element(r)' = Element(r)
        /\ pc'[r] \in {"copy", "index", "size"} /\ wrote'[r] = 1
             => pc[r] \in {"copy", "index", "size"} /\ wrote[r] = 1 /\ op'[r] = op[r]
    /\ \/ \A r \in Procs : Offered(r)' = Offered(r)
       \/ \E p \in Procs :
            /\ \A r \in Procs \ {p} : Offered(r)' = Offered(r)
            /\ Offered(p) = <<>> \/ Offered(p)' = <<>>
            /\ Offered(p)' \in Fifo!Offers \cup {<<>>}

\* Where a call has an offer in the queue's hands.
Offering == {"acquire", "test", "asleep", "spin", "copy", "index", "size"}

\* A process goes on from one step of its call to another.
LEMMA MoveAside ==
    ASSUME IInv, NEW p \in Procs, NEW x, pc' = [pc EXCEPT ![p] = x],
           UNCHANGED <<head, cursize, slots, got, torn, op, wrote>>,
           x \notin {"index", "subsize"}, x = "size" => pc[p] = "index",
           x = "copy" => wrote[p] = 0, Hides(p) => x = "size",
           x \in Offering => pc[p] \in Offering
    PROVE  Aside
<1>1. pc'[p] = x /\ \A r \in Procs \ {p} : pc'[r] = pc[r]
  BY DEF IInv, TypeOK
<1>2. \A r \in Procs \ {p} : Offered(r)' = Offered(r) /\ (Hides(r)' <=> Hides(r))
  BY <1>1 DEF Offered, Hides, InSizeWindow
<1>3. Offered(p)' = Offered(p) \/ Offered(p)' = <<>>
  BY <1>1 DEF Offered, Offering
<1>4. Hides(p)' <=> Hides(p)
  BY <1>1 DEF Hides, InSizeWindow
<1>5. \A r \in Procs : Element(r)' = Element(r)
  BY DEF Element
<1> QED
  BY <1>1, <1>2, <1>3, <1>4, <1>5 DEF Aside

\* Every step of a process that is no store into the ring is such a step.
LEMMA StartAside ==
    ASSUME IInv, NEW p \in Procs, Start(p)
    PROVE  Aside
<1>1. PICK o \in Ops[p] :
        /\ op' = [op EXCEPT ![p] = o]
        /\ pc' = [pc EXCEPT ![p] = IF o.kind = "attach" THEN "attachHead" ELSE "acquire"]
  BY DEF Start
<1>2. /\ pc[p] = "idle" /\ wrote' = wrote
      /\ UNCHANGED <<head, cursize, slots, got, torn>>
  BY DEF Start, shared
<1>3. o.first \in Values \cup {NoValue} /\ o.second \in Values \cup {NoValue}
  BY OpsAssumption DEF OpSet
<1>4. /\ pc'[p] \in {"attachHead", "acquire"} /\ op'[p] = o
      /\ \A r \in Procs \ {p} : pc'[r] = pc[r] /\ op'[r] = op[r]
  BY <1>1 DEF IInv, TypeOK
<1>5. \A r \in Procs \ {p} : Offered(r)' = Offered(r)
  BY <1>4 DEF Offered
<1>6. Offered(p) = <<>>
  BY <1>2 DEF Offered
<1>7. Offered(p)' \in Fifo!Offers \cup {<<>>}
  BY <1>3, <1>4 DEF Offered, Fifo!Offers, Fifo!Elements
<1>8. \A r \in Procs : Hides(r)' <=> Hides(r)
  BY <1>2, <1>4 DEF Hides, InSizeWindow
<1> QED
  BY <1>2, <1>4, <1>5, <1>6, <1>7, <1>8 DEF Aside, Element

\* So is the return of a call, whose offer is settled,
LEMMA ReturnAside ==
    ASSUME IInv, NEW p \in Procs, Return(p)
    PROVE  Aside
<1>1. /\ pc[p] \in {"release", "return"} /\ pc' = [pc EXCEPT ![p] = "idle"]
      /\ op' = [op EXCEPT ![p] = NoOp] /\ wrote' = [wrote EXCEPT ![p] = 0]
      /\ UNCHANGED <<head, cursize, slots, got, torn>>
  BY DEF Return, shared, env
<1>2. /\ pc'[p] = "idle"
      /\ \A r \in Procs \ {p} : pc'[r] = pc[r] /\ op'[r] = op[r] /\ wrote'[r] = wrote[r]
  BY <1>1 DEF IInv, TypeOK
<1>3. \A r \in Procs : Offered(r)' = Offered(r)
  BY <1>1, <1>2 DEF Offered
<1>4. \A r \in Procs : Hides(r)' <=> Hides(r)
  BY <1>1, <1>2 DEF Hides, InSizeWindow
<1> QED
  BY <1>1, <1>2, <1>3, <1>4 DEF Aside, Element

\* and so is a notification, which wakes sleepers with their offers.
LEMMA SignalAside ==
    ASSUME IInv, NEW p \in Procs, SignalCondvar(p)
    PROVE  Aside
<1>1. /\ pc[p] = "signal" /\ UNCHANGED <<head, cursize, slots, got, torn, op, wrote>>
      /\ \A r \in Procs : pc'[r] = IF r = p THEN "release"
                                   ELSE IF pc[r] = "asleep" THEN "acquire" ELSE pc[r]
  BY DEF SignalCondvar, Notified, shared, env
<1>2. \A r \in Procs : Offered(r)' = Offered(r)
  BY <1>1 DEF Offered
<1>3. \A r \in Procs : Hides(r)' <=> Hides(r)
  BY <1>1 DEF Hides, InSizeWindow
<1> QED
  BY <1>1, <1>2, <1>3 DEF Aside, Element

\* The stores into the ring, and a death in the middle of one.
Stores(p) ==
    \/ Copy(p) \/ GrowSize(p) \/ Take(p) \/ ShrinkSize(p)
    \/ Crash(p) /\ (Hides(p) \/ pc[p] = "size")

\* A step is aside, or is one of the stores.
LEMMA AsideOrStores ==
    ASSUME IInv, [Next]_vars
    PROVE  Aside \/ \E p \in Procs : Stores(p)
<1> USE DEF shared, env, locals, Finish, Wakeup
<1>1. ASSUME NEW p \in Procs, Acquire(p) PROVE Aside
  <2>1. PICK x \in {"release", "test"} : pc' = [pc EXCEPT ![p] = x]
    BY <1>1 DEF Acquire
  <2>2. pc[p] = "acquire" /\ UNCHANGED <<head, cursize, slots, got, torn, op, wrote>>
    BY <1>1 DEF Acquire
  <2> QED
    BY <2>1, <2>2, MoveAside DEF Hides, InSizeWindow, Offering
<1>2. ASSUME NEW p \in Procs, AcquireOwnerDied(p) \/ AcquireBusy(p) PROVE Aside
  <2>1. /\ pc' = [pc EXCEPT ![p] = "return"] /\ pc[p] = "acquire"
        /\ UNCHANGED <<head, cursize, slots, got, torn, op, wrote>>
    BY <1>2 DEF AcquireOwnerDied, AcquireBusy
  <2> QED
    BY <2>1, MoveAside DEF Hides, InSizeWindow, Offering
<1>3. ASSUME NEW p \in Procs, TestReady(p) \/ TestFails(p) PROVE Aside
  <2>1. PICK x \in {"copy", "take", "release"} : pc' = [pc EXCEPT ![p] = x]
    BY <1>3 DEF TestReady, TestFails
  <2>2. pc[p] = "test" /\ UNCHANGED <<head, cursize, slots, got, torn, op, wrote>>
    BY <1>3 DEF TestReady, TestFails
  <2>3. wrote[p] = 0
    BY <2>2 DEF IInv, CallInv
  <2> QED
    BY <2>1, <2>2, <2>3, MoveAside DEF Hides, InSizeWindow, Offering
<1>4. ASSUME NEW p \in Procs, Wait(p) PROVE Aside
  <2>1. PICK x \in {"spin", "asleep"} : pc' = [pc EXCEPT ![p] = x]
    BY <1>4 DEF Wait
  <2>2. pc[p] = "test" /\ UNCHANGED <<head, cursize, slots, got, torn, op, wrote>>
    BY <1>4 DEF Wait
  <2> QED
    BY <2>1, <2>2, MoveAside DEF Hides, InSizeWindow, Offering
<1>5. ASSUME NEW p \in Procs, WaitTimeout(p) \/ SpinEnds(p) \/ SpuriousWakeup(p) PROVE Aside
  <2>1. /\ pc' = [pc EXCEPT ![p] = "acquire"] /\ pc[p] \in {"asleep", "spin"}
        /\ UNCHANGED <<head, cursize, slots, got, torn, op, wrote>>
    BY <1>5 DEF WaitTimeout, SpinEnds, SpuriousWakeup
  <2> QED
    BY <2>1, MoveAside DEF Hides, InSizeWindow, Offering
<1>6. ASSUME NEW p \in Procs, StoreTail(p) PROVE Aside
  <2>1. /\ pc' = [pc EXCEPT ![p] = "size"] /\ pc[p] = "index"
        /\ UNCHANGED <<head, cursize, slots, got, torn, op, wrote>>
    BY <1>6 DEF StoreTail
  <2> QED
    BY <2>1, MoveAside DEF Offering
<1>7. ASSUME NEW p \in Procs, SignalEvent(p) PROVE Aside
  <2>1. /\ pc' = [pc EXCEPT ![p] = "release"] /\ pc[p] = "signal"
        /\ UNCHANGED <<head, cursize, slots, got, torn, op, wrote>>
    BY <1>7 DEF SignalEvent
  <2> QED
    BY <2>1, MoveAside DEF Hides, InSizeWindow, Offering
<1>8. ASSUME NEW p \in Procs, Attach(p) PROVE Aside
  <2>1. PICK x \in {"return", "attachTail", "attachSize"} : pc' = [pc EXCEPT ![p] = x]
    BY <1>8 DEF Attach
  <2>2. /\ pc[p] \in {"attachHead", "attachTail", "attachSize"}
        /\ UNCHANGED <<head, cursize, slots, got, torn, op, wrote>>
    BY <1>8 DEF Attach
  <2> QED
    BY <2>1, <2>2, MoveAside DEF Hides, InSizeWindow, Offering
<1>9. ASSUME NEW p \in Procs, Crash(p), ~Hides(p), pc[p] # "size" PROVE Aside
  <2>1. torn' = torn
    <3>1. torn' = (torn \/ pc[p] \in {"size", "subsize"}) /\ torn \in BOOLEAN
      BY <1>9 DEF Crash, IInv, TypeOK
    <3>2. pc[p] \notin {"size", "subsize"}
      BY <1>9 DEF Hides, InSizeWindow
    <3> QED
      BY <3>1, <3>2
  <2>2. /\ pc' = [pc EXCEPT ![p] = "dead"]
        /\ UNCHANGED <<head, cursize, slots, got, op, wrote>>
    BY <1>9 DEF Crash
  <2> QED
    BY <1>9, <2>1, <2>2, MoveAside DEF Offering
<1>10. ASSUME \/ SetProducerEventFd \/ SetConsumerEventFd \/ ResetMutexForRestart
              \/ UNCHANGED vars
       PROVE  Aside
  <2>1. UNCHANGED <<head, cursize, slots, got, torn, op, wrote, pc>>
    BY <1>10 DEF SetProducerEventFd, SetConsumerEventFd, ResetMutexForRestart, vars
  <2> QED
    BY <2>1 DEF Aside, Hides, InSizeWindow, Element, Offered
<1> QED
  BY <1>1, <1>2, <1>3, <1>4, <1>5, <1>6, <1>7, <1>8, <1>9, <1>10, StartAside, ReturnAside,
     SignalAside
     DEF Next, Step, Stores

\* Such a step leaves the FIFO alone, but for an offer.
LEMMA AsideImplements ==
    ASSUME IInv, SlotInv, Aside
    PROVE  SlotInv' /\ [Fifo!Next]_Fifo!vars
<1>1. SlotInv'
  BY DEF SlotInv, Aside, SlotAt
<1>2. Hidden' = Hidden
  <2>1. \A r \in Procs : Hides(r)' <=> Hides(r)
    BY DEF Aside
  <2>2. Hidden = IF \E r \in Procs : Hides(r) THEN 1 ELSE 0
    BY DEF Hidden, Hides
  <2>3. Hidden' = IF \E r \in Procs : Hides(r)' THEN 1 ELSE 0
    BY DEF Hidden, Hides
  <2> QED
    BY <2>1, <2>2, <2>3
<1> DEFINE seq == IF torn THEN <<>> ELSE Contents
           offers == [r \in Procs |-> Offered(r)]
<1>3. seq' = seq /\ got' = got /\ torn' = torn
  BY <1>2 DEF Aside, Contents, SlotAt
<1>4. CASE \A r \in Procs : Offered(r)' = Offered(r)
  <2>1. offers' = offers
    BY <1>4
  <2> QED
    BY <1>1, <1>3, <2>1 DEF Fifo!vars
<1>5. ASSUME NEW p \in Procs, \A r \in Procs \ {p} : Offered(r)' = Offered(r),
             Offered(p) = <<>> \/ Offered(p)' = <<>>, Offered(p)' \in Fifo!Offers \cup {<<>>}
      PROVE  [Fifo!Next]_Fifo!vars
  <2>1. offers' = [offers EXCEPT ![p] = Offered(p)'] /\ offers[p] = Offered(p)
    BY <1>5
  <2>2. CASE Offered(p)' = Offered(p)
    <3>1. offers' = offers
      BY <1>5, <2>2
    <3> QED
      BY <1>3, <3>1 DEF Fifo!vars
  <2>3. CASE Offered(p)' # Offered(p) /\ Offered(p)' = <<>>
    <3>1. Fifo!Withdraw(p)
      BY <1>3, <2>1, <2>3 DEF Fifo!Withdraw, Fifo!Clear
    <3> QED
      BY <3>1 DEF Fifo!Next
  <2>4. CASE Offered(p)' # <<>>
    <3>1. Fifo!Offer(p)
      BY <1>3, <1>5, <2>1, <2>4 DEF Fifo!Offer
    <3> QED
      BY <3>1 DEF Fifo!Next
  <2> QED
    BY <2>2, <2>3, <2>4
<1> QED
  BY <1>1, <1>4, <1>5 DEF Aside

\* The copy goes to the slot behind the contents: nobody sees it yet.
LEMMA CopyImplements ==
    ASSUME IInv, SlotInv, NEW p \in Procs, Copy(p)
    PROVE  SlotInv' /\ [Fifo!Next]_Fifo!vars
<1>1. /\ pc[p] = "copy" /\ pc' = [pc EXCEPT ![p] = "index"]
      /\ slots' = [slots EXCEPT ![tail] = Element(p)]
      /\ UNCHANGED <<head, tail, cursize, op, wrote, got, torn>>
  BY DEF Copy, locals, env
<1>2. /\ cursize \in 0 .. MaxSize - 1 /\ MaxSize \in Nat \ {0} /\ wrote[p] <= cursize
      /\ head \in 0 .. MaxSize - 1 /\ tail \in 0 .. MaxSize - 1
      /\ ~torn => tail = SlotAt(cursize)
      /\ wrote[p] \in {0, 1}
  BY <1>1, WriterHasRoom, HiddenIsThere
<1>3. /\ pc'[p] = "index"
      /\ \A r \in Procs \ {p} : pc'[r] = pc[r] /\ pc[r] \notin Critical
  BY <1>1 DEF IInv, TypeOK, OwnerInv, Critical
<1>4. ~torn => /\ slots'[SlotAt(cursize)] = Element(p)
               /\ \A i \in 0 .. cursize - 1 : slots'[SlotAt(i)] = slots[SlotAt(i)]
  <2> SUFFICES ASSUME ~torn
               PROVE  /\ slots'[SlotAt(cursize)] = Element(p)
                      /\ \A i \in 0 .. cursize - 1 : slots'[SlotAt(i)] = slots[SlotAt(i)]
    OBVIOUS
  <2>1. slots \in [0 .. MaxSize - 1 -> Values \cup {NoValue}]
    BY DEF IInv, TypeOK
  <2>2. slots'[SlotAt(cursize)] = Element(p)
    BY <1>1, <1>2, <2>1
  <2>3. ASSUME NEW i \in 0 .. cursize - 1 PROVE slots'[SlotAt(i)] = slots[SlotAt(i)]
    <3>1. i \in 0 .. MaxSize - 1 /\ i # cursize
      BY <1>2
    <3>2. SlotAt(i) # SlotAt(cursize) /\ SlotAt(i) \in 0 .. MaxSize - 1
      BY <1>2, <3>1, SlotsApart
    <3> QED
      BY <1>1, <1>2, <2>1, <3>2
  <2> QED
    BY <2>2, <2>3
<1>5. SlotInv'
  <2> SUFFICES ASSUME ~torn', NEW r \in Procs
               PROVE  /\ pc'[r] \in {"index", "size"} => slots'[SlotAt(cursize)'] = Element(r)'
                      /\ pc'[r] \in {"copy", "index", "size"} /\ wrote'[r] = 1
                           => slots'[SlotAt(cursize - 1)'] = op'[r].first
    BY DEF SlotInv
  <2>1. SlotAt(cursize)' = SlotAt(cursize) /\ SlotAt(cursize - 1)' = SlotAt(cursize - 1)
        /\ Element(r)' = Element(r)
    BY <1>1 DEF SlotAt, Element
  <2>2. CASE r # p
    BY <1>3, <2>2 DEF Critical
  <2>3. CASE r = p
    <3>1. wrote[p] = 1 => cursize - 1 \in 0 .. cursize - 1
      BY <1>2
    <3>2. wrote[p] = 1 => slots[SlotAt(cursize - 1)] = op[p].first
      BY <1>1 DEF SlotInv
    <3> QED
      BY <1>1, <1>4, <2>1, <2>3, <3>1, <3>2
  <2> QED
    BY <2>2, <2>3
<1>6. Hidden' = Hidden
  <2>1. \A r \in Procs : Hides(r)' <=> Hides(r)
    BY <1>1, <1>3 DEF Hides, InSizeWindow, Critical
  <2>2. Hidden = IF \E r \in Procs : Hides(r) THEN 1 ELSE 0
    BY DEF Hidden, Hides
  <2>3. Hidden' = IF \E r \in Procs : Hides(r)' THEN 1 ELSE 0
    BY DEF Hidden, Hides
  <2> QED
    BY <2>1, <2>2, <2>3
<1>7. ~torn => Contents' = Contents
  <2> SUFFICES ASSUME ~torn PROVE Contents' = Contents
    OBVIOUS
  <2> DEFINE n == cursize - Hidden
  <2>1. n \in Nat /\ n <= cursize
    BY <1>2, HiddenIsThere
  <2>2. Contents = [i \in 1 .. n |-> slots[SlotAt(i - 1)]]
    BY DEF Contents
  <2>3. Contents' = [i \in 1 .. n |-> slots'[SlotAt(i - 1)]]
    BY <1>1, <1>6 DEF Contents, SlotAt
  <2> HIDE DEF n
  <2>4. \A i \in 1 .. n : i - 1 \in 0 .. cursize - 1
    BY <1>2, <2>1
  <2> QED
    BY <1>4, <2>2, <2>3, <2>4
<1>8. [r \in Procs |-> Offered(r)]' = [r \in Procs |-> Offered(r)]
  BY <1>1, <1>3 DEF Offered
<1>9. (IF torn THEN <<>> ELSE Contents)' = IF torn THEN <<>> ELSE Contents
  BY <1>1, <1>7
<1> QED
  BY <1>1, <1>5, <1>8, <1>9 DEF Fifo!vars

\* What the steps of the owner leave of the others.
LEMMA OthersStay ==
    ASSUME IInv, NEW p \in Procs, pc[p] \in Critical, op' = op,
           \A r \in Procs \ {p} : pc'[r] = pc[r] /\ wrote'[r] = wrote[r]
    PROVE  /\ \A r \in Procs \ {p} : ~Hides(r) /\ ~Hides(r)' /\ Offered(r)' = Offered(r)
           /\ \A r \in Procs \ {p} : pc'[r] \notin Critical
           /\ Hidden = IF Hides(p) THEN 1 ELSE 0
           /\ Hidden' = IF Hides(p)' THEN 1 ELSE 0
           /\ [r \in Procs |-> Offered(r)]' = [[r \in Procs |-> Offered(r)] EXCEPT ![p] = Offered(p)']
<1>1. \A r \in Procs \ {p} : pc[r] \notin Critical
  BY DEF IInv, OwnerInv
<1>2. \A r \in Procs \ {p} : ~Hides(r) /\ ~Hides(r)' /\ Offered(r)' = Offered(r)
  BY <1>1 DEF Hides, InSizeWindow, Critical, Offered
<1>3. Hidden = IF \E r \in Procs : Hides(r) THEN 1 ELSE 0
  BY DEF Hidden, Hides
<1>4. Hidden' = IF \E r \in Procs : Hides(r)' THEN 1 ELSE 0
  BY DEF Hidden, Hides
<1> QED
  BY <1>1, <1>2, <1>3, <1>4

\* An element counts: the last one of a call puts all of its elements in.
LEMMA GrowImplements ==
    ASSUME IInv, SlotInv, NEW p \in Procs, GrowSize(p)
    PROVE  SlotInv' /\ [Fifo!Next]_Fifo!vars
<1>1. /\ pc[p] = "size" /\ cursize' = cursize + 1 /\ wrote' = [wrote EXCEPT ![p] = @ + 1]
      /\ UNCHANGED <<head, slots, op, got, torn>>
  BY DEF GrowSize, env
<1>2. /\ cursize \in 0 .. MaxSize - 1 /\ MaxSize \in Nat \ {0} /\ cursize + 1 <= MaxSize
      /\ wrote[p] <= cursize /\ head \in 0 .. MaxSize - 1 /\ wrote[p] \in {0, 1}
      /\ op[p].kind \in AddKinds
      /\ op[p].kind = "add" => wrote[p] = 0 /\ Need(op[p]) = 1
      /\ op[p].kind = "add2" => Need(op[p]) = 2
  BY <1>1, WriterHasRoom, HiddenIsThere
<1>3. /\ wrote'[p] = wrote[p] + 1
      /\ \A r \in Procs \ {p} : pc'[r] = pc[r] /\ wrote'[r] = wrote[r]
      /\ \/ pc'[p] = "copy" /\ wrote[p] + 1 < Need(op[p])
         \/ pc'[p] \in {"signal", "release"} /\ wrote[p] + 1 = Need(op[p])
  BY <1>1 DEF GrowSize, Finish, IInv, TypeOK
<1>4. /\ \A r \in Procs \ {p} : pc'[r] \notin Critical
      /\ Hidden = IF Hides(p) THEN 1 ELSE 0
      /\ Hidden' = IF Hides(p)' THEN 1 ELSE 0
      /\ [r \in Procs |-> Offered(r)]' = [[r \in Procs |-> Offered(r)] EXCEPT ![p] = Offered(p)']
  BY <1>1, <1>3, OthersStay DEF Critical
<1>5. ~torn => /\ slots[SlotAt(cursize)] = Element(p)
               /\ wrote[p] = 1 => slots[SlotAt(cursize - 1)] = op[p].first
  BY <1>1 DEF SlotInv
<1>6. SlotInv'
  <2> SUFFICES ASSUME ~torn', NEW r \in Procs
               PROVE  /\ pc'[r] \in {"index", "size"} => slots'[SlotAt(cursize)'] = Element(r)'
                      /\ pc'[r] \in {"copy", "index", "size"} /\ wrote'[r] = 1
                           => slots'[SlotAt(cursize - 1)'] = op'[r].first
    BY DEF SlotInv
  <2>1. CASE r # p
    BY <1>4, <2>1 DEF Critical
  <2>2. CASE r = p
    <3>1. SlotAt(cursize - 1)' = SlotAt(cursize)
      BY <1>1, <1>2 DEF SlotAt
    <3>2. wrote'[p] = 1 => wrote[p] = 0
      BY <1>2, <1>3
    <3>3. wrote[p] = 0 => Element(p) = op[p].first
      BY DEF Element
    <3> QED
      BY <1>1, <1>3, <1>5, <2>2, <3>1, <3>2, <3>3
  <2> QED
    BY <2>1, <2>2
<1> DEFINE n == cursize - Hidden
<1>7. n \in Nat /\ Contents \in Seq(Values \cup {NoValue}) /\ Len(Contents) = n
      /\ \A i \in 1 .. n : Contents[i] = slots[SlotAt(i - 1)]
  BY HiddenIsThere, ContentsType
<1>8. \A i : SlotAt(i)' = SlotAt(i)
  BY <1>1 DEF SlotAt
<1>9. CASE pc'[p] = "copy"
  <2>1. wrote[p] = 0 /\ wrote'[p] = 1
    BY <1>2, <1>3, <1>9 DEF AddKinds
  <2>2. ~Hides(p) /\ Hides(p)'
    BY <1>1, <1>9, <2>1 DEF Hides, InSizeWindow
  <2>3. Hidden = 0 /\ Hidden' = 1
    BY <1>4, <2>2
  <2>4. cursize' - Hidden' = cursize - Hidden
    BY <1>1, <1>2, <2>3
  <2>5. Contents' = Contents
    BY <1>1, <2>4 DEF Contents, SlotAt
  <2>6. Offered(p)' = Offered(p)
    BY <1>1, <1>9 DEF Offered
  <2>7. [r \in Procs |-> Offered(r)]' = [r \in Procs |-> Offered(r)]
    BY <1>4, <2>6
  <2>8. (IF torn THEN <<>> ELSE Contents)' = IF torn THEN <<>> ELSE Contents
    BY <1>1, <2>5
  <2> QED
    BY <1>1, <1>6, <2>7, <2>8 DEF Fifo!vars
<1>10. CASE pc'[p] # "copy"
  <2> DEFINE seq == IF torn THEN <<>> ELSE Contents
             offers == [r \in Procs |-> Offered(r)]
  <2>1. pc'[p] \in {"signal", "release"} /\ wrote[p] + 1 = Need(op[p])
    BY <1>3, <1>10
  <2>2. Offered(p)' = <<>> /\ offers' = [offers EXCEPT ![p] = <<>>] /\ offers[p] = Offered(p)
    BY <1>4, <2>1 DEF Offered
  <2>3. ~Hides(p)' /\ Hidden' = 0 /\ Hidden = wrote[p]
    BY <1>1, <1>2, <1>4, <2>1 DEF Hides, InSizeWindow
  <2>4. Offered(p) # <<>>
    BY <1>1, <1>2 DEF Offered, AddKinds
  <2>5. CASE torn
    <3>1. seq' = seq
      BY <1>1, <2>5
    <3>2. Fifo!Withdraw(p)
      BY <1>1, <2>2, <2>4, <3>1 DEF Fifo!Withdraw, Fifo!Clear
    <3> QED
      BY <1>6, <3>2 DEF Fifo!Next
  <2>6. CASE ~torn
    <3>1. /\ Offered(p) \in Seq(Values \cup {NoValue}) /\ Len(Offered(p)) = wrote[p] + 1
          /\ \A k \in 1 .. wrote[p] + 1 : Offered(p)[k] = slots[SlotAt((n + k) - 1)]
      <4>0. op[p].first \in Values \cup {NoValue} /\ op[p].second \in Values \cup {NoValue}
        BY DEF IInv, TypeOK, OpSet, NoOp
      <4>1. CASE op[p].kind = "add"
        <5>1. wrote[p] = 0 /\ n = cursize /\ Offered(p) = <<op[p].first>>
          BY <1>1, <1>2, <2>3, <4>1 DEF Offered
        <5>2. slots[SlotAt(cursize)] = op[p].first
          BY <1>5, <2>6, <5>1 DEF Element
        <5>3. (n + 1) - 1 = cursize
          BY <1>2, <5>1
        <5> HIDE DEF n
        <5> QED
          BY <4>0, <5>1, <5>2, <5>3
      <4>2. CASE op[p].kind = "add2"
        <5>1. wrote[p] = 1 /\ n = cursize - 1 /\ Offered(p) = <<op[p].first, op[p].second>>
          BY <1>1, <1>2, <2>1, <2>3, <4>2 DEF Offered
        <5>2. slots[SlotAt(cursize)] = op[p].second /\ slots[SlotAt(cursize - 1)] = op[p].first
          BY <1>5, <2>6, <5>1 DEF Element
        <5>3. (n + 1) - 1 = cursize - 1 /\ (n + 2) - 1 = cursize
          BY <1>2, <5>1
        <5> HIDE DEF n
        <5> QED
          BY <4>0, <5>1, <5>2, <5>3
      <4> QED
        BY <1>2, <4>1, <4>2 DEF AddKinds
    <3>2. n + (wrote[p] + 1) = cursize + 1
      BY <1>2, <2>3
    <3>3. Contents' = [i \in 1 .. cursize + 1 |-> slots[SlotAt(i - 1)]]
      BY <1>1, <1>2, <2>3 DEF Contents, SlotAt
    <3>4. Contents' = Contents \o Offered(p)
      <4> DEFINE l == wrote[p] + 1
                 T == Values \cup {NoValue}
      <4>1. l \in Nat /\ n + l = cursize + 1
        BY <1>2, <3>2
      <4> HIDE DEF n, l, T
      <4>2. /\ Contents \in Seq(T) /\ Offered(p) \in Seq(T) /\ Len(Contents) = n /\ Len(Offered(p)) = l
            /\ n \in Nat
        BY <1>7, <3>1 DEF T, l
      <4>3. /\ Contents \o Offered(p) \in Seq(T) /\ Len(Contents \o Offered(p)) = n + l
            /\ \A i \in 1 .. n + l : (Contents \o Offered(p))[i] =
                    IF i <= n THEN Contents[i] ELSE Offered(p)[i - n]
        BY <4>2, ConcatProperties
      <4>4. ASSUME NEW i \in 1 .. n + l PROVE (Contents \o Offered(p))[i] = slots[SlotAt(i - 1)]
        <5>1. CASE i <= n
          <6>1. i \in 1 .. n
            BY <4>2, <5>1
          <6> QED
            BY <1>7, <4>3, <5>1, <6>1
        <5>2. CASE ~(i <= n)
          <6>1. i - n \in 1 .. l /\ (n + (i - n)) - 1 = i - 1
            BY <4>1, <4>2, <5>2
          <6>2. Offered(p)[i - n] = slots[SlotAt((n + (i - n)) - 1)]
            BY <3>1, <6>1 DEF l
          <6> QED
            BY <4>3, <5>2, <6>1, <6>2
        <5> QED
          BY <5>1, <5>2
      <4>5. Contents \o Offered(p) = [i \in 1 .. n + l |-> (Contents \o Offered(p))[i]]
        BY <4>3, SeqIsFunction
      <4> QED
        BY <3>3, <4>1, <4>4, <4>5
    <3>5. n + (wrote[p] + 1) <= MaxSize
      BY <1>2, <3>2
    <3>6. Fifo!Put(p)
      <4>1. seq = Contents /\ seq' = Contents' /\ ~torn'
        BY <1>1, <2>6
      <4>2. Len(seq) + Len(offers[p]) <= MaxSize
        BY <1>7, <2>2, <3>1, <3>5, <4>1
      <4> QED
        BY <1>1, <2>2, <2>4, <2>6, <3>4, <4>1, <4>2 DEF Fifo!Put, Fifo!Clear
    <3> QED
      BY <1>6, <3>6 DEF Fifo!Next
  <2> QED
    BY <2>5, <2>6
<1> QED
  BY <1>9, <1>10

\* The head moves over an element: its caller has got the oldest one.
LEMMA TakeImplements ==
    ASSUME IInv, SlotInv, NEW p \in Procs, Take(p)
    PROVE  SlotInv' /\ [Fifo!Next]_Fifo!vars
<1>1. /\ pc[p] = "take" /\ pc' = [pc EXCEPT ![p] = "subsize"]
      /\ got' = [got EXCEPT ![p] = slots[head]] /\ head' = NextIndex(head)
      /\ UNCHANGED <<cursize, slots, op, wrote, torn>>
  BY DEF Take, env
<1>2. /\ cursize \in 1 .. MaxSize /\ wrote[p] = 0
      /\ MaxSize \in Nat \ {0} /\ head \in 0 .. MaxSize - 1
  BY <1>1, HiddenIsThere DEF IInv, CallInv
<1>3. pc'[p] = "subsize" /\ \A r \in Procs \ {p} : pc'[r] = pc[r] /\ wrote'[r] = wrote[r]
  BY <1>1 DEF IInv, TypeOK
<1>4. /\ \A r \in Procs \ {p} : pc'[r] \notin Critical
      /\ Hidden = IF Hides(p) THEN 1 ELSE 0
      /\ Hidden' = IF Hides(p)' THEN 1 ELSE 0
      /\ [r \in Procs |-> Offered(r)]' = [[r \in Procs |-> Offered(r)] EXCEPT ![p] = Offered(p)']
  BY <1>1, <1>3, OthersStay DEF Critical
<1>5. SlotInv'
  BY <1>3, <1>4 DEF SlotInv, Critical
<1>6. Hidden = 0 /\ Hidden' = 1
  BY <1>1, <1>3, <1>4 DEF Hides, InSizeWindow
<1> DEFINE seq == IF torn THEN <<>> ELSE Contents
           offers == [r \in Procs |-> Offered(r)]
           T == Values \cup {NoValue}
<1>7. offers' = offers
  <2>1. Offered(p) = <<>> /\ Offered(p)' = <<>>
    BY <1>1, <1>3 DEF Offered
  <2> QED
    BY <1>4, <2>1
<1>8. CASE torn
  <2>1. slots[head] \in T
    BY <1>2 DEF IInv, TypeOK
  <2>2. seq' = seq
    BY <1>1, <1>8
  <2>3. Fifo!GetBroken(p)
    BY <1>1, <1>7, <1>8, <2>1, <2>2 DEF Fifo!GetBroken, Fifo!Elements
  <2> QED
    BY <1>5, <2>3 DEF Fifo!Next
<1>9. CASE ~torn
  <2>1. /\ Contents \in Seq(T) /\ Len(Contents) = cursize
        /\ \A i \in 1 .. cursize : Contents[i] = slots[SlotAt(i - 1)]
    BY <1>2, <1>6, ContentsType
  <2>2. Contents' = [i \in 1 .. cursize - 1 |-> slots[SlotAt(i - 1)']]
    BY <1>1, <1>6 DEF Contents, SlotAt
  <2>3. \A i \in 1 .. cursize - 1 : SlotAt(i - 1)' = SlotAt(i)
    BY <1>1, <1>2 DEF SlotAt, NextIndex
  <2> HIDE DEF T
  <2>4. Contents # <<>> /\ Head(Contents) = Contents[1]
    BY <1>2, <2>1
  <2>5. Head(Contents) = slots[head]
    <3>1. SlotAt(1 - 1) = head
      BY <1>2 DEF SlotAt
    <3> QED
      BY <1>2, <2>1, <2>4, <3>1
  <2>6. /\ Tail(Contents) \in Seq(T) /\ Len(Tail(Contents)) = cursize - 1
        /\ \A i \in 1 .. cursize - 1 : Tail(Contents)[i] = Contents[i + 1]
    BY <2>1, <2>4, HeadTailProperties
  <2>7. ASSUME NEW i \in 1 .. cursize - 1 PROVE Tail(Contents)[i] = slots[SlotAt(i - 1)']
    <3>1. i + 1 \in 1 .. cursize /\ (i + 1) - 1 = i
      BY <1>2
    <3>2. Contents[i + 1] = slots[SlotAt(i)]
      BY <2>1, <3>1
    <3> QED
      BY <2>3, <2>6, <3>2
  <2>8. Contents' = Tail(Contents)
    <3>1. Tail(Contents) = [i \in 1 .. cursize - 1 |-> Tail(Contents)[i]]
      BY <2>6, SeqIsFunction
    <3> QED
      BY <2>2, <2>7, <3>1
  <2>9. seq = Contents /\ seq' = Contents'
    BY <1>1, <1>9
  <2>10. Fifo!Get(p)
    BY <1>1, <1>7, <1>9, <2>4, <2>5, <2>8, <2>9 DEF Fifo!Get
  <2> QED
    BY <1>5, <2>10 DEF Fifo!Next
<1> QED
  BY <1>8, <1>9

\* The count follows: nothing changes for the callers.
LEMMA ShrinkImplements ==
    ASSUME IInv, SlotInv, NEW p \in Procs, ShrinkSize(p)
    PROVE  SlotInv' /\ [Fifo!Next]_Fifo!vars
<1>1. /\ pc[p] = "subsize" /\ cursize' = cursize - 1
      /\ wrote' = [wrote EXCEPT ![p] = 1]
      /\ UNCHANGED <<head, slots, op, got, torn>>
  BY DEF ShrinkSize, env
<1>2. cursize \in 1 .. MaxSize
  BY <1>1, HiddenIsThere DEF IInv, CallInv
<1>3. /\ pc'[p] \in {"signal", "release"}
      /\ \A r \in Procs \ {p} : pc'[r] = pc[r] /\ wrote'[r] = wrote[r]
  BY <1>1 DEF ShrinkSize, Finish, IInv, TypeOK
<1>4. /\ \A r \in Procs \ {p} : pc'[r] \notin Critical
      /\ Hidden = IF Hides(p) THEN 1 ELSE 0
      /\ Hidden' = IF Hides(p)' THEN 1 ELSE 0
      /\ [r \in Procs |-> Offered(r)]' = [[r \in Procs |-> Offered(r)] EXCEPT ![p] = Offered(p)']
  BY <1>1, <1>3, OthersStay DEF Critical
<1>5. SlotInv'
  BY <1>3, <1>4 DEF SlotInv, Critical
<1>6. Hidden = 1 /\ Hidden' = 0
  BY <1>1, <1>3, <1>4 DEF Hides, InSizeWindow
<1>7. cursize' - Hidden' = cursize - Hidden
  BY <1>1, <1>2, <1>6
<1>8. Contents' = Contents
  BY <1>1, <1>7 DEF Contents, SlotAt
<1>9. [r \in Procs |-> Offered(r)]' = [r \in Procs |-> Offered(r)]
  <2>1. Offered(p) = <<>> /\ Offered(p)' = <<>>
    BY <1>1, <1>3 DEF Offered
  <2> QED
    BY <1>4, <2>1
<1>10. (IF torn THEN <<>> ELSE Contents)' = IF torn THEN <<>> ELSE Contents
  BY <1>1, <1>8
<1> QED
  BY <1>1, <1>5, <1>9, <1>10 DEF Fifo!vars

\* A death inside a commit voids the promise; one between the two elements of
\* a pair leaves the first.
LEMMA CrashImplements ==
    ASSUME IInv, SlotInv, NEW p \in Procs, Crash(p), Hides(p) \/ pc[p] = "size"
    PROVE  SlotInv' /\ [Fifo!Next]_Fifo!vars
<1>1. /\ pc' = [pc EXCEPT ![p] = "dead"] /\ torn' = (torn \/ pc[p] \in {"size", "subsize"})
      /\ UNCHANGED <<head, cursize, slots, op, got, wrote>>
  BY DEF Crash, shared, locals
<1>2. pc[p] \in {"copy", "index", "size", "subsize"}
  BY DEF Hides, InSizeWindow
<1>3. pc'[p] = "dead" /\ \A r \in Procs \ {p} : pc'[r] = pc[r] /\ wrote'[r] = wrote[r]
  BY <1>1 DEF IInv, TypeOK
<1>4. /\ \A r \in Procs \ {p} : pc'[r] \notin Critical
      /\ Hidden = IF Hides(p) THEN 1 ELSE 0
      /\ Hidden' = IF Hides(p)' THEN 1 ELSE 0
      /\ [r \in Procs |-> Offered(r)]' = [[r \in Procs |-> Offered(r)] EXCEPT ![p] = Offered(p)']
  BY <1>1, <1>2, <1>3, OthersStay DEF Critical
<1>5. SlotInv'
  BY <1>3, <1>4 DEF SlotInv, Critical
<1> DEFINE seq == IF torn THEN <<>> ELSE Contents
           offers == [r \in Procs |-> Offered(r)]
           T == Values \cup {NoValue}
<1>6. Offered(p)' = <<>> /\ offers' = [offers EXCEPT ![p] = <<>>] /\ offers[p] = Offered(p)
  BY <1>3, <1>4 DEF Offered
<1>7. CASE pc[p] \in {"size", "subsize"}
  <2>1. torn' = TRUE
    BY <1>1, <1>7
  <2>2. seq' = <<>>
    BY <2>1
  <2>3. Fifo!Break(p)
    BY <1>1, <1>6, <2>1, <2>2 DEF Fifo!Break, Fifo!Clear
  <2> QED
    BY <1>5, <2>3 DEF Fifo!Next
<1>8. CASE pc[p] \in {"copy", "index"}
  <2>1. torn' = torn
    <3>1. torn \in BOOLEAN
      BY DEF IInv, TypeOK
    <3> QED
      BY <1>1, <1>8, <3>1
  <2>2. Hidden = 1 /\ Hidden' = 0 /\ wrote[p] = 1
    BY <1>3, <1>4, <1>8 DEF Hides, InSizeWindow
  <2>3. /\ op[p].kind = "add2" /\ cursize \in 1 .. MaxSize - 1
        /\ MaxSize \in Nat \ {0} /\ head \in 0 .. MaxSize - 1
    BY <1>8, <2>2, WriterHasRoom, HiddenIsThere DEF AddKinds
  <2>4. Offered(p) = <<op[p].first, op[p].second>>
    BY <1>8, <2>3 DEF Offered
  <2>5. CASE torn
    <3>1. seq' = seq
      BY <2>1, <2>5
    <3>2. Offered(p) # <<>>
      BY <1>8, <2>3 DEF Offered
    <3>3. Fifo!Withdraw(p)
      BY <1>1, <1>6, <2>1, <3>1, <3>2 DEF Fifo!Withdraw, Fifo!Clear
    <3> QED
      BY <1>5, <3>3 DEF Fifo!Next
  <2>6. CASE ~torn
    <3> DEFINE n == cursize - 1
    <3>1. n \in Nat /\ n < MaxSize /\ n + 1 = cursize
      BY <2>3
    <3>2. /\ Contents \in Seq(T) /\ Len(Contents) = n
          /\ \A i \in 1 .. n : Contents[i] = slots[SlotAt(i - 1)]
      BY <2>2, ContentsType
    <3>3. slots[SlotAt(n)] = op[p].first
      BY <1>8, <2>2, <2>6 DEF SlotInv
    <3>4. op[p].first \in T
      BY DEF IInv, TypeOK, OpSet, NoOp
    <3>5. Contents' = [i \in 1 .. n + 1 |-> slots[SlotAt(i - 1)]]
      <4>1. cursize' - Hidden' = n + 1
        BY <1>1, <2>2, <2>3, <3>1
      <4> HIDE DEF n
      <4> QED
        BY <1>1, <4>1 DEF Contents, SlotAt
    <3> HIDE DEF n, T
    <3>6. /\ Append(Contents, op[p].first) \in Seq(T)
          /\ Len(Append(Contents, op[p].first)) = n + 1
          /\ \A i \in 1 .. n : Append(Contents, op[p].first)[i] = Contents[i]
          /\ Append(Contents, op[p].first)[n + 1] = op[p].first
      BY <3>2, <3>4, AppendProperties
    <3>7. ASSUME NEW i \in 1 .. n + 1
          PROVE  Append(Contents, op[p].first)[i] = slots[SlotAt(i - 1)]
      <4>0. n \in Nat => i \in 1 .. n \/ i = n + 1
        OBVIOUS
      <4>1. CASE i \in 1 .. n
        BY <3>2, <3>6, <4>1
      <4>2. CASE i = n + 1
        <5>1. i - 1 = n
          BY <3>1, <4>2
        <5> QED
          BY <3>3, <3>6, <4>2, <5>1
      <4> QED
        BY <3>1, <4>0, <4>1, <4>2
    <3>8. Contents' = Append(Contents, op[p].first)
      <4>1. Append(Contents, op[p].first) = [i \in 1 .. n + 1 |-> Append(Contents, op[p].first)[i]]
        BY <3>6, SeqIsFunction
      <4> QED
        BY <3>5, <3>7, <4>1
    <3>9. seq = Contents /\ seq' = Contents'
      BY <2>1, <2>6
    <3>10. Fifo!PutFirst(p)
      BY <1>1, <1>6, <2>1, <2>4, <2>6, <3>1, <3>2, <3>8, <3>9 DEF Fifo!PutFirst, Fifo!Clear
    <3> QED
      BY <1>5, <3>10 DEF Fifo!Next
  <2> QED
    BY <2>5, <2>6
<1> QED
  BY <1>2, <1>7, <1>8

\* Through every interleaving, wait, death and restart the queue implements
\* the bounded FIFO of its callers: each step of queue.rs's add, add2 and sub
\* is one step of BoundedFifo, or none.
THEOREM FifoImplemented == Spec => ImplementsFifo
<1>1. IInv /\ SlotInv /\ [Next]_vars => SlotInv' /\ [Fifo!Next]_Fifo!vars
  <2> SUFFICES ASSUME IInv, SlotInv, [Next]_vars
               PROVE  SlotInv' /\ [Fifo!Next]_Fifo!vars
    OBVIOUS
  <2>1. CASE Aside
    BY <2>1, AsideImplements
  <2>2. ASSUME NEW p \in Procs, Stores(p) PROVE SlotInv' /\ [Fifo!Next]_Fifo!vars
    BY <2>2, CopyImplements, GrowImplements, TakeImplements, ShrinkImplements,
       CrashImplements DEF Stores
  <2> QED
    BY <2>1, <2>2, AsideOrStores
<1> QED
  BY <1>1, FifoInit, Invariance, PTL DEF Spec, ImplementsFifo, Fifo!Spec
=============================================================================
