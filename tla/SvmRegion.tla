------------------------------ MODULE SvmRegion ------------------------------
(***************************************************************************)
(* Attaching to an SVM region (hammer-shmem, region.rs).  The region's header  *)
(* names the address range it must be mapped at, so every attachment of the    *)
(* process to one segment competes for the same range, and so does any other   *)
(* mapping the process makes.  The file is read once with pread and once       *)
(* through the mapping, while the daemon may still be building it.             *)
(***************************************************************************)
EXTENDS Integers

CONSTANTS
    Threads,        \* threads of the process that call attach
    Nobody,         \* owner of a range that is not mapped
    Elsewhere,      \* the rest of the process, as owner of a mapping
    Outcomes,       \* what the daemon may make of the file
    MaxAttaches,    \* bound: calls of attach
    MaxElsewhere,   \* bound: mappings the rest of the process makes here
    MaxFaults,      \* bound: system calls that fail
    MaxRestarts     \* bound: restarts of the daemon

\* A segment keeps its range: a daemon that comes back with another base or size
\* between the two reads of the header (VirtualBaseMismatch, VirtualSizeMismatch)
\* takes the path of the other headers that are not valid, "flags" and "layout".
ASSUME OutcomesAssumption ==
    Outcomes \subseteq {"published", "nodata", "unsupported", "flags", "layout"}
ASSUME OwnersAssumption ==
    Nobody # Elsewhere /\ Nobody \notin Threads /\ Elsewhere \notin Threads
ASSUME BoundsAssumption ==
    /\ MaxAttaches \in Nat /\ MaxElsewhere \in Nat
    /\ MaxFaults \in Nat /\ MaxRestarts \in Nat

VARIABLES
    backing,        \* the file: "absent", "short", "unversioned" or an outcome
    range,          \* whose mapping lies in the region's address range
    foreign,        \* the rest of the process has a mapping there
    pc,             \* pc[t]: where thread t is in attach; "attached": it has a region
    result,         \* result[t]: of its latest attach
    attaches, maps, faults, restarts,
    stray           \* history: a second munmap removed a mapping of someone else

counters == <<attaches, maps, faults, restarts>>
vars == <<backing, range, foreign, pc, result, counters, stray>>

Init ==
    /\ backing = "absent"
    /\ range = Nobody /\ foreign = FALSE
    /\ pc = [t \in Threads |-> "idle"]
    /\ result = [t \in Threads |-> "none"]
    /\ attaches = 0 /\ maps = 0 /\ faults = 0 /\ restarts = 0
    /\ stray = FALSE

Goto(t, l) == pc' = [pc EXCEPT ![t] = l]
Returns(t, r) == Goto(t, "idle") /\ result' = [result EXCEPT ![t] = r]

-----------------------------------------------------------------------------
(* The daemon and the rest of the process *)

\* The daemon creates and sizes the file, and publishes the version last.
Build ==
    /\ backing' \in
        CASE backing = "absent" -> {"short"}
          [] backing = "short" -> {"unversioned"}
          [] backing = "unversioned" -> Outcomes
          [] OTHER -> {}
    /\ UNCHANGED <<range, foreign, pc, result, counters, stray>>

\* A restarted daemon begins again with the file it finds.
Restart ==
    /\ backing \in Outcomes /\ restarts < MaxRestarts
    /\ backing' = "unversioned" /\ restarts' = restarts + 1
    /\ UNCHANGED <<range, foreign, pc, result, attaches, maps, faults, stray>>

\* Another mmap of the process is placed here, and unmapped again.
MapElsewhere ==
    /\ range = Nobody /\ maps < MaxElsewhere
    /\ range' = Elsewhere /\ foreign' = TRUE /\ maps' = maps + 1
    /\ UNCHANGED <<backing, pc, result, attaches, faults, restarts, stray>>

UnmapElsewhere ==
    /\ foreign
    /\ range' = Nobody /\ foreign' = FALSE
    /\ UNCHANGED <<backing, pc, result, counters, stray>>

-----------------------------------------------------------------------------
(* attach *)

Open(t) ==
    /\ pc[t] = "idle" /\ attaches < MaxAttaches
    /\ attaches' = attaches + 1
    /\ IF backing = "absent" THEN Returns(t, "Open")
                             ELSE Goto(t, "probe") /\ UNCHANGED result
    /\ UNCHANGED <<backing, range, foreign, maps, faults, restarts, stray>>

\* probe_backing: the header read from the file.
Probe(t) ==
    /\ pc[t] = "probe"
    /\ CASE backing \in {"short", "unversioned"} -> Returns(t, "NotReady")
         [] backing = "unsupported" -> Returns(t, "UnsupportedVersion")
         [] OTHER -> Goto(t, "reserve") /\ UNCHANGED result
    /\ UNCHANGED <<backing, range, foreign, counters, stray>>

\* fstat or pread fails, or the file is shorter than the range it names.
ProbeFails(t) ==
    /\ pc[t] = "probe" /\ faults < MaxFaults
    /\ faults' = faults + 1
    /\ Returns(t, "BackingMetadata")
    /\ UNCHANGED <<backing, range, foreign, attaches, maps, restarts, stray>>

\* Mutant of Reserve: the reservation replaces what is mapped.
ReserveReplacing(t) ==
    /\ pc[t] = "reserve"
    /\ range' = t /\ Goto(t, "map")
    /\ UNCHANGED <<result, backing, foreign, counters, stray>>

\* map_fixed_backing: the range is reserved, unless something is mapped there.
Reserve(t) ==
    /\ pc[t] = "reserve"
    /\ IF range = Nobody
         THEN range' = t /\ Goto(t, "map") /\ UNCHANGED result
         ELSE Returns(t, "AddressRangeOccupied") /\ UNCHANGED range
    /\ UNCHANGED <<backing, foreign, counters, stray>>

\* The reservation fails for another reason.
ReserveFails(t) ==
    /\ pc[t] = "reserve" /\ faults < MaxFaults
    /\ faults' = faults + 1
    /\ Returns(t, "FixedMapping")
    /\ UNCHANGED <<backing, range, foreign, attaches, maps, restarts, stray>>

MapFixed(t) ==
    /\ pc[t] = "map"
    /\ range' = t /\ Goto(t, "validate")
    /\ UNCHANGED <<backing, foreign, result, counters, stray>>

\* Mutant of MapFails: the reservation is left behind.
MapFailsReserved(t) ==
    /\ pc[t] = "map" /\ faults < MaxFaults
    /\ faults' = faults + 1
    /\ Returns(t, "FixedMapping")
    /\ UNCHANGED <<range, backing, foreign, attaches, maps, restarts, stray>>

MapFails(t) ==
    /\ pc[t] = "map" /\ faults < MaxFaults
    /\ faults' = faults + 1
    /\ range' = Nobody /\ Returns(t, "FixedMapping")
    /\ UNCHANGED <<backing, foreign, attaches, maps, restarts, stray>>

\* Mutant of Validate: the layout of the data heap is looked at before its
\* pointer is.
ValidateNullHeap(t) ==
    /\ pc[t] = "validate"
    /\ IF backing = "published"
         THEN Goto(t, "attached") /\ result' = [result EXCEPT ![t] = "Ok"]
         ELSE Goto(t, "unmap") /\ result' = [result EXCEPT ![t] = "NullHeap"]
    /\ UNCHANGED <<backing, range, foreign, counters, stray>>

\* validate: the header read through the mapping.
Validate(t) ==
    /\ pc[t] = "validate"
    /\ IF backing = "published"
         THEN Goto(t, "attached") /\ result' = [result EXCEPT ![t] = "Ok"]
         ELSE /\ Goto(t, "unmap")
              /\ result' = [result EXCEPT ![t] =
                    CASE backing = "nodata" -> "MissingDataHeap"
                      [] backing = "unsupported" -> "UnsupportedVersion"
                      [] backing = "flags" -> "InvalidFlags"
                      [] backing = "layout" -> "DataHeapLayout"
                      [] OTHER -> "NotReady"]
    /\ UNCHANGED <<backing, range, foreign, counters, stray>>

\* A region that is not valid is unmapped,
Invalid(t) ==
    /\ pc[t] = "unmap"
    /\ range' = Nobody /\ Goto(t, "drop")
    /\ UNCHANGED <<backing, foreign, result, counters, stray>>

\* and unmapped once more when attach returns and drops the value.  munmap
\* removes whatever lies in the range by now.
DropInvalid(t) ==
    /\ pc[t] = "drop"
    /\ range' = Nobody /\ Goto(t, "idle")
    /\ stray' = (stray \/ range # Nobody)
    /\ UNCHANGED <<backing, foreign, result, counters>>

\* The owner of a region drops it.
DropRegion(t) ==
    /\ pc[t] = "attached"
    /\ range' = Nobody /\ Goto(t, "idle")
    /\ UNCHANGED <<backing, foreign, result, counters, stray>>

Step(t) ==
    \/ Open(t) \/ Probe(t) \/ ProbeFails(t)
    \/ Reserve(t) \/ ReserveFails(t) \/ MapFixed(t) \/ MapFails(t)
    \/ Validate(t) \/ Invalid(t) \/ DropInvalid(t) \/ DropRegion(t)

Next ==
    \/ Build \/ Restart \/ MapElsewhere \/ UnmapElsewhere
    \/ \E t \in Threads : Step(t)

Spec == Init /\ [][Next]_vars

-----------------------------------------------------------------------------
(* Properties *)

TypeOK ==
    /\ backing \in {"absent", "short", "unversioned"} \cup Outcomes
    /\ range \in Threads \cup {Nobody, Elsewhere} /\ foreign \in BOOLEAN
    /\ pc \in [Threads -> {"idle", "probe", "reserve", "map", "validate", "unmap",
                           "drop", "attached"}]
    /\ result \in [Threads -> {"none", "Ok", "Open", "NotReady", "UnsupportedVersion",
                               "BackingMetadata", "AddressRangeOccupied", "FixedMapping",
                               "MissingDataHeap", "InvalidFlags", "DataHeapLayout"}]
    /\ attaches \in 0 .. MaxAttaches /\ maps \in 0 .. MaxElsewhere
    /\ faults \in 0 .. MaxFaults /\ restarts \in 0 .. MaxRestarts /\ stray \in BOOLEAN

\* What is mapped stays mapped until its owner unmaps it: the region a caller
\* of attach holds, and what the rest of the process has mapped at that range.
MappingsSurvive ==
    /\ foreign => range = Elsewhere
    /\ \A t \in Threads : pc[t] = "attached" => range = t

\* The same up to the second munmap of an invalid region: threads that race for
\* the range, other mappings and failures at every other step displace nothing.
OnlyDropStrays == stray \/ MappingsSurvive

\* An attach that failed, and a region that was dropped, leave nothing mapped:
\* the next attach finds the range free.
NothingLeftMapped ==
    \A t \in Threads : range = t => pc[t] \in {"map", "validate", "unmap", "attached"}
=============================================================================
