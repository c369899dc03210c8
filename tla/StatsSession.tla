---------------------------- MODULE StatsSession ----------------------------
(***************************************************************************)
(* A stats client over its life: it connects (StatsHandoff), reports on what   *)
(* is published in the segment it mapped (StatsReport), is dropped and         *)
(* connects again, while the daemon publishes, ends and starts anew.  The      *)
(* descriptor keeps a segment alive whose daemon is gone, and nothing tells    *)
(* the client: it goes on reading what was published last, or, if the daemon   *)
(* died amid a publication, fails every read from then on.                    *)
(***************************************************************************)
EXTENDS StatsReport, StatsHandoff

CONSTANT MaxEvents  \* bound: connects, publications, changes, misled reads and
                    \* troubles together

ASSUME MaxEventsAssumption == MaxEvents \in Nat

VARIABLE publisher  \* the daemon that handed the segment over: it is running, is
                    \* gone, or is gone and left a publication unfinished

sessionVars == <<vars, handoffVars, publisher>>

\* What stands for the directory while there is no segment.
Unmapped == CHOOSE d \in Directories : TRUE

SessionInit ==
    /\ Init /\ HandoffInit
    /\ directory = Unmapped
    /\ publisher = "gone"

-----------------------------------------------------------------------------
\* report borrows the client: it runs while connected, and the client is not
\* dropped under it.
ReportStep ==
    /\ stage = "connected"
    /\ \/ publisher # "torn" /\ (List \/ LoadCell \/ Read)
       \/ publisher = "running" /\ (ListFails \/ ReadMisled)
       \/ Return
    /\ UNCHANGED <<handoffVars, publisher>>

\* with_published_directory finds in_progress raised at every retry.
ReadTorn ==
    /\ stage = "connected" /\ publisher = "torn" /\ pc \in {"list", "read"}
    /\ Done("RetryExhausted", NoValues) /\ quiet' = FALSE /\ loaded' = NoCells
    /\ UNCHANGED <<directory, family, requests, sampled, samples, rate, mark, seen, lasting, looped,
                   now, publications, misses, handoffVars, publisher>>

Begin ==
    /\ stage = "connected"
    /\ \E f \in Families : Report(f)
    /\ UNCHANGED <<handoffVars, publisher>>

\* Samples outlive the client they were taken with.
CompareStep == Compare /\ UNCHANGED <<handoffVars, publisher>>

\* Only the daemon the segment came from writes to it.  What it does after the
\* last report is of no interest.
PublishStep ==
    /\ stage = "connected" /\ publisher = "running"
    /\ pc # "idle" \/ requests # <<>>
    /\ Publish \/ Work
    /\ UNCHANGED <<handoffVars, publisher>>

\* A connect that succeeds finds what its daemon has published by then, taken
\* for another run of the counters than the one seen before.
Connected ==
    /\ CheckHeader
    /\ IF stage' = "connected"
       THEN /\ directory' \in Directories
            /\ looped' = [breaks |-> looped.breaks + 1, total |-> Loops(directory')]
       ELSE UNCHANGED <<directory, looped>>
    /\ UNCHANGED <<reportVars, quiet, seen, lasting, now, publications, misses, publisher>>

\* Steps of connect and of the listener that do not touch the directory.
HandoffStep ==
    /\ \/ OpenSocket \/ Address \/ ConnectSocket \/ Interrupted \/ TimedOut \/ ReceiveFails
       \/ Receive \/ Fstat \/ Mmap
       \/ Accept \/ Close \/ Fill \/ Drain \/ Start
    /\ UNCHANGED <<vars, publisher>>

HandStep == Hand /\ publisher' = "running" /\ UNCHANGED vars

\* The daemon of this segment ends, maybe amid a publication.
ExitStep ==
    /\ Exit
    /\ publisher' \in IF publisher = "running" THEN {"gone", "torn"} ELSE {publisher}
    /\ UNCHANGED vars

DropStep ==
    /\ pc = "idle" /\ DropClient
    /\ directory' = Unmapped /\ looped' = [looped EXCEPT !.total = <<>>]
    /\ UNCHANGED <<reportVars, quiet, seen, lasting, now, publications, misses, publisher>>

SessionNext ==
    /\ \/ Begin \/ ReportStep \/ ReadTorn \/ CompareStep \/ PublishStep \/ Connected \/ HandoffStep
       \/ HandStep \/ ExitStep \/ DropStep
    /\ connects' + publications' + misses' + troubles' <= MaxEvents

\* A connect that is under way runs; the daemon and the caller owe nothing.
SessionSpec == SessionInit /\ [][SessionNext]_sessionVars /\ WF_handoffVars(ConnectStep)

-----------------------------------------------------------------------------
(* Properties *)

SessionTypeOK == TypeOK /\ HandoffTypeOK /\ publisher \in {"running", "gone", "torn"}
=============================================================================
