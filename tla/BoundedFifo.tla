---------------------------- MODULE BoundedFifo ----------------------------
(***************************************************************************)
(* What the shared-memory queue promises its callers: a FIFO of at most     *)
(* Capacity elements.  The one or two elements a call offers are put in       *)
(* together and once, or not at all; a call that gets one is handed the       *)
(* oldest.  A caller that dies may leave the first of its two elements.       *)
(* The promise is void from the moment a process dies between the two        *)
(* stores that commit an element: the queue is then broken, reads as empty    *)
(* here, and a call may hand out anything.                                   *)
(***************************************************************************)
EXTENDS Naturals, Sequences

CONSTANTS Procs, Values, NoValue, Capacity

VARIABLES q,        \* the elements, oldest first
          offered,  \* offered[p]: what the call of p has still to put in
          out,      \* out[p]: the element p received last
          broken

vars == <<q, offered, out, broken>>

Elements == Values \cup {NoValue}

Offers == {<<v>> : v \in Elements} \cup {<<v, w>> : v, w \in Elements}

Init ==
    /\ q = <<>> /\ offered = [p \in Procs |-> <<>>]
    /\ out = [p \in Procs |-> NoValue] /\ broken = FALSE

Offer(p) ==
    /\ offered[p] = <<>>
    /\ \E e \in Offers : offered' = [offered EXCEPT ![p] = e]
    /\ UNCHANGED <<q, out, broken>>

\* The offer is off, and nothing of it is in the queue.
Clear(p) == offered' = [offered EXCEPT ![p] = <<>>]
Withdraw(p) == offered[p] # <<>> /\ Clear(p) /\ UNCHANGED <<q, out, broken>>

Put(p) ==
    /\ ~broken /\ offered[p] # <<>> /\ Len(q) + Len(offered[p]) <= Capacity
    /\ q' = q \o offered[p]
    /\ Clear(p) /\ UNCHANGED <<out, broken>>

\* p dies between the two elements it offered.
PutFirst(p) ==
    /\ ~broken /\ Len(offered[p]) = 2 /\ Len(q) < Capacity
    /\ q' = Append(q, offered[p][1])
    /\ Clear(p) /\ UNCHANGED <<out, broken>>

Get(p) ==
    /\ ~broken /\ q # <<>>
    /\ out' = [out EXCEPT ![p] = Head(q)]
    /\ q' = Tail(q)
    /\ UNCHANGED <<offered, broken>>

\* p dies with an element half committed.
Break(p) == broken' = TRUE /\ q' = <<>> /\ Clear(p) /\ UNCHANGED out

\* A call on a broken queue.
GetBroken(p) ==
    /\ broken
    /\ \E v \in Elements : out' = [out EXCEPT ![p] = v]
    /\ UNCHANGED <<q, offered, broken>>

Next ==
    \E p \in Procs :
        \/ Offer(p) \/ Withdraw(p) \/ Put(p) \/ PutFirst(p)
        \/ Get(p) \/ GetBroken(p) \/ Break(p)

Spec == Init /\ [][Next]_vars
=============================================================================
