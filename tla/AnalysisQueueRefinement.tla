---------------------- MODULE AnalysisQueueRefinement ----------------------
(***************************************************************************)
(* The queue with one worker and one review client at a time implements    *)
(* the lifecycle its users see. The status column is the abstract status,  *)
(* and the runs the workers really started are the abstract tries.         *)
(***************************************************************************)
EXTENDS AnalysisQueue

Lifecycle == INSTANCE AnalysisLifecycle WITH
    status <- [j \in Jobs |-> row[j].status],
    tries  <- runs

\* Every step of the queue is one arrow of the lifecycle or invisible, and the
\* worker loop, restarted after every crash, keeps every analysis moving.
ImplementsLifecycle == Lifecycle!LifecycleFairSpec

=============================================================================
