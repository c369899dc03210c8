-------------------------- MODULE SvmRegionProofs --------------------------
(***************************************************************************)
(* Proofs about SvmRegion, for any set of threads, any outcome of the        *)
(* daemon's work on the file and any number of attaches, other mappings,     *)
(* failures and restarts.                                                    *)
(***************************************************************************)
EXTENDS SvmRegion, TLAPS

\* A thread between its reservation and its first munmap, or with a region, has
\* the range, and so has the rest of the process while it has a mapping there.
RangeInv ==
    ~stray =>
        /\ foreign => range = Elsewhere
        /\ \A t \in Threads : pc[t] \in {"map", "validate", "unmap", "attached"} => range = t

IInv == TypeOK /\ RangeInv /\ NothingLeftMapped

\* The control points of attach are typed.
LEMMA TypeStep == TypeOK /\ [Next]_vars => TypeOK'
<1> SUFFICES ASSUME TypeOK, [Next]_vars PROVE TypeOK'
  OBVIOUS
<1> USE BoundsAssumption DEF TypeOK, counters, Goto, Returns
<1>1. ASSUME Build PROVE TypeOK'
  BY <1>1 DEF Build
<1>2. ASSUME Restart PROVE TypeOK'
  BY <1>2 DEF Restart
<1>3. ASSUME MapElsewhere PROVE TypeOK'
  BY <1>3 DEF MapElsewhere
<1>4. ASSUME UnmapElsewhere PROVE TypeOK'
  BY <1>4 DEF UnmapElsewhere
<1>5. ASSUME NEW t \in Threads, Open(t) PROVE TypeOK'
  BY <1>5 DEF Open
<1>6. ASSUME NEW t \in Threads, Probe(t) PROVE TypeOK'
  BY <1>6 DEF Probe
<1>7. ASSUME NEW t \in Threads, Reserve(t) PROVE TypeOK'
  BY <1>7 DEF Reserve
<1>8. ASSUME NEW t \in Threads, MapFixed(t) PROVE TypeOK'
  BY <1>8 DEF MapFixed
<1>9. ASSUME NEW t \in Threads, MapFails(t) PROVE TypeOK'
  BY <1>9 DEF MapFails
<1>10. ASSUME NEW t \in Threads, Validate(t) PROVE TypeOK'
  BY <1>10 DEF Validate
<1>11. ASSUME NEW t \in Threads, Invalid(t) PROVE TypeOK'
  BY <1>11 DEF Invalid
<1>12. ASSUME NEW t \in Threads, DropInvalid(t) PROVE TypeOK'
  BY <1>12 DEF DropInvalid
<1>13. ASSUME NEW t \in Threads, DropRegion(t) PROVE TypeOK'
  BY <1>13 DEF DropRegion
<1>14. ASSUME NEW t \in Threads, ProbeFails(t) PROVE TypeOK'
  BY <1>14 DEF ProbeFails
<1>15. ASSUME NEW t \in Threads, ReserveFails(t) PROVE TypeOK'
  BY <1>15 DEF ReserveFails
<1>16. CASE UNCHANGED vars
  BY <1>16 DEF vars
<1> QED
  BY <1>1, <1>2, <1>3, <1>4, <1>5, <1>6, <1>7, <1>8, <1>9, <1>10, <1>11, <1>12, <1>13,
     <1>14, <1>15, <1>16 DEF Next, Step

\* Who has the range after a step.  The second munmap of an invalid region is
\* the only step that takes it from another, and it leaves its mark.
LEMMA RangeStep == IInv /\ [Next]_vars => RangeInv' /\ NothingLeftMapped'
<1> SUFFICES ASSUME IInv, [Next]_vars PROVE RangeInv' /\ NothingLeftMapped'
  OBVIOUS
<1> USE OwnersAssumption DEF IInv, TypeOK, RangeInv, NothingLeftMapped, Goto, Returns
<1>1. ASSUME Build PROVE RangeInv' /\ NothingLeftMapped'
  BY <1>1 DEF Build
<1>2. ASSUME Restart PROVE RangeInv' /\ NothingLeftMapped'
  BY <1>2 DEF Restart
<1>3. ASSUME MapElsewhere PROVE RangeInv' /\ NothingLeftMapped'
  BY <1>3 DEF MapElsewhere
<1>4. ASSUME UnmapElsewhere PROVE RangeInv' /\ NothingLeftMapped'
  BY <1>4 DEF UnmapElsewhere
<1>5. ASSUME NEW t \in Threads, Open(t) PROVE RangeInv' /\ NothingLeftMapped'
  BY <1>5 DEF Open
<1>6. ASSUME NEW t \in Threads, Probe(t) PROVE RangeInv' /\ NothingLeftMapped'
  BY <1>6 DEF Probe
<1>7. ASSUME NEW t \in Threads, Reserve(t) PROVE RangeInv' /\ NothingLeftMapped'
  BY <1>7 DEF Reserve
<1>8. ASSUME NEW t \in Threads, MapFixed(t) PROVE RangeInv' /\ NothingLeftMapped'
  BY <1>8 DEF MapFixed
<1>9. ASSUME NEW t \in Threads, MapFails(t) PROVE RangeInv' /\ NothingLeftMapped'
  BY <1>9 DEF MapFails
<1>10. ASSUME NEW t \in Threads, Validate(t) PROVE RangeInv' /\ NothingLeftMapped'
  BY <1>10 DEF Validate
<1>11. ASSUME NEW t \in Threads, Invalid(t) PROVE RangeInv' /\ NothingLeftMapped'
  BY <1>11 DEF Invalid
<1>12. ASSUME NEW t \in Threads, DropInvalid(t) PROVE RangeInv' /\ NothingLeftMapped'
  BY <1>12 DEF DropInvalid
<1>13. ASSUME NEW t \in Threads, DropRegion(t) PROVE RangeInv' /\ NothingLeftMapped'
  BY <1>13 DEF DropRegion
<1>14. ASSUME NEW t \in Threads, ProbeFails(t) PROVE RangeInv' /\ NothingLeftMapped'
  BY <1>14 DEF ProbeFails
<1>15. ASSUME NEW t \in Threads, ReserveFails(t) PROVE RangeInv' /\ NothingLeftMapped'
  BY <1>15 DEF ReserveFails
<1>16. CASE UNCHANGED vars
  BY <1>16 DEF vars
<1> QED
  BY <1>1, <1>2, <1>3, <1>4, <1>5, <1>6, <1>7, <1>8, <1>9, <1>10, <1>11, <1>12, <1>13,
     <1>14, <1>15, <1>16 DEF Next, Step

\* The three parts together are an invariant.
LEMMA Invariance == Spec => []IInv
<1>1. Init => IInv
  <2> SUFFICES ASSUME Init PROVE IInv
    OBVIOUS
  <2>1. \A t \in Threads : pc[t] = "idle" /\ range # t
    BY OwnersAssumption DEF Init
  <2>2. foreign \in BOOLEAN /\ stray \in BOOLEAN
    BY Zenon DEF Init
  <2>3. attaches \in 0 .. MaxAttaches /\ maps \in 0 .. MaxElsewhere
        /\ faults \in 0 .. MaxFaults /\ restarts \in 0 .. MaxRestarts
    BY BoundsAssumption DEF Init
  <2>4. TypeOK
    BY <2>2, <2>3 DEF Init, TypeOK
  <2> QED
    BY <2>1, <2>4 DEF Init, IInv, RangeInv, NothingLeftMapped
<1>2. IInv /\ [Next]_vars => IInv'
  BY TypeStep, RangeStep DEF IInv
<1> QED
  BY <1>1, <1>2, PTL DEF Spec

\* attach, its failures and drop keep every thread at a known step with a known
\* result.
THEOREM TypeCorrect == Spec => []TypeOK
<1>1. IInv => TypeOK
  BY DEF IInv
<1> QED
  BY Invariance, <1>1, PTL

\* region.rs, map_fixed_backing and drop: however many threads race for the range
\* beside other mappings, only the second munmap of an attach whose validation
\* failed can remove a mapping from under its owner.
THEOREM MappingsHold == Spec => []OnlyDropStrays
<1>1. IInv => OnlyDropStrays
  BY DEF IInv, RangeInv, OnlyDropStrays, MappingsSurvive
<1> QED
  BY Invariance, <1>1, PTL

\* region.rs, attach: whatever fails, in any interleaving, a thread that is not
\* between its reservation and its munmap has nothing mapped in the range.
THEOREM NothingIsLeft == Spec => []NothingLeftMapped
<1>1. IInv => NothingLeftMapped
  BY DEF IInv
<1> QED
  BY Invariance, <1>1, PTL
=============================================================================
