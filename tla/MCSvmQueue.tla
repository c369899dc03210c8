----------------------------- MODULE MCSvmQueue -----------------------------
(***************************************************************************)
(* Small instances of SvmQueue for TLC.                                     *)
(***************************************************************************)
EXTENDS SvmQueue, TLC

CONSTANTS p1, p2, p3, a, b, none

Call(k, m, v, w) == [kind |-> k, mode |-> m, first |-> v, second |-> w]

Add(m, v) == Call("add", m, v, none)
AddPair(m) == Call("add2", m, a, b)
Sub(m) == Call("sub", m, none, none)
Sub2 == Call("sub2", "Nowait", none, none)
Length == Call("len", "Nowait", none, none)
AttachCall == Call("attach", "Nowait", none, none)

\* Processes that may die, one that keeps attaching next to them.
DeathOps ==
    p1 :> {Add("Nowait", a), AddPair("Wait")} @@
    p2 :> {Sub("Wait"), Sub2} @@
    p3 :> {AttachCall, Add("Wait", b)}

\* Every kind of call, with waiters that spin once the descriptors are set.
EventOps ==
    p1 :> {Add("Wait", a), AddPair("Wait")} @@
    p2 :> {Add("TimedWait", b), Sub("Nowait")} @@
    p3 :> {Sub("Wait"), Sub2, Length}

\* Timed waits and calls that do not wait, next to a process that never stops
\* adding and removing.
TimedOps ==
    p1 :> {Add("TimedWait", a), AddPair("TimedWait")} @@
    p2 :> {Sub("TimedWait"), Sub2} @@
    p3 :> {Add("Nowait", b), Sub("Nowait")}
=============================================================================
