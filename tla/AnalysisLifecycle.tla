------------------------- MODULE AnalysisLifecycle -------------------------
(***************************************************************************)
(* What the analysis queue promises its users about one analysis: the      *)
(* status they poll moves along these arrows and no others, a run is tried *)
(* a bounded number of times, and a submitted analysis does not stay in    *)
(* the queue for ever. Workers, leases, hints, steps and money are below   *)
(* this level; AnalysisQueueRefinement shows the queue implements it.      *)
(***************************************************************************)
EXTENDS Naturals

CONSTANTS Jobs, Guided, MaxAttempts

VARIABLES status, tries

lifecycle == <<status, tries>>

InFlight(j) == status[j] \in {"queued", "running"}

LifecycleInit ==
    /\ status = [j \in Jobs |-> "absent"]
    /\ tries = [j \in Jobs |-> 0]

Move(j, from, to) ==
    /\ status[j] \in from
    /\ status' = [status EXCEPT ![j] = to]

Enter(j)  == Move(j, {"absent"}, "queued") /\ UNCHANGED tries
Pause(j)  == j \in Guided /\ Move(j, {"running"}, "awaiting_review") /\ UNCHANGED tries
Resume(j) == Move(j, {"awaiting_review"}, "queued") /\ UNCHANGED tries
Finish(j) == Move(j, {"running"}, "done") /\ UNCHANGED tries
Fail(j)   == Move(j, {"running"}, "failed") /\ UNCHANGED tries
Remove(j) == Move(j, {"done", "failed"}, "deleted") /\ UNCHANGED tries

\* A worker takes the job up, for the first time or after a crash.
Try(j) ==
    /\ tries[j] < MaxAttempts
    /\ Move(j, {"queued", "running"}, "running")
    /\ tries' = [tries EXCEPT ![j] = @ + 1]

\* A job out of tries is not run again.
GiveUp(j) ==
    /\ tries[j] = MaxAttempts
    /\ Move(j, {"queued", "running"}, "failed")
    /\ UNCHANGED tries

Advance(j) == Try(j) \/ GiveUp(j) \/ Pause(j) \/ Finish(j) \/ Fail(j)

LifecycleNext ==
    \E j \in Jobs : Enter(j) \/ Advance(j) \/ Resume(j) \/ Remove(j)

LifecycleSpec == LifecycleInit /\ [][LifecycleNext]_lifecycle
LifecycleFairSpec ==
    LifecycleSpec /\ \A j \in Jobs : WF_lifecycle(Advance(j))

=============================================================================
