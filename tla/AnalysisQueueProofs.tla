------------------------ MODULE AnalysisQueueProofs ------------------------
(***************************************************************************)
(* Theorems about AnalysisQueue, for every set of jobs, workers and request*)
(* threads and for every bound and price.                                  *)
(***************************************************************************)
EXTENDS AnalysisQueueRefinement, FiniteSetTheorems, TLAPS

USE DEF table, dispatch, worker, history

\* Facts about the step tables, so that no later proof opens them.
LEMMA StepTables ==
    /\ \A s \in Steps : ProgressAfter[s] \in 0 .. 100 /\ NextStep[s] \in Steps
    /\ {"discovery", "kyc", "prompts", "execute", "scoring"} \subseteq Steps
  BY DEF Steps, ProgressAfter, NextStep

\* Writing a well-formed record keeps the table well formed.
LEMMA WriteTyped ==
  ASSUME RowTypeOK, NEW j \in Jobs, NEW r \in Rows, Write(j, r)
  PROVE  RowTypeOK'
  BY DEF RowTypeOK, Write

LEMMA BlankRows ==
    /\ \A s \in Statuses, n \in Nat : BlankRow(s, n) \in Rows
    /\ RowTypeOK => \A j \in Jobs : Removed(j) \in Rows
<1>1. \A s \in Statuses, n \in Nat : BlankRow(s, n) \in Rows
  BY DEF BlankRow, Rows, PromptSets
<1>2. ASSUME RowTypeOK, NEW j \in Jobs PROVE Removed(j) \in Rows
  <2>1. row[j] \in Rows
    BY <1>2 DEF RowTypeOK
  <2>2. row[j].born \in Nat
    BY <2>1 DEF Rows
  <2>. QED
    BY <1>1, <2>2 DEF Removed, Statuses
<1>. QED
  BY <1>1, <1>2

\* What a step leaves alone keeps its type.
LEMMA Stutters ==
    /\ RowTypeOK /\ UNCHANGED table => RowTypeOK'
    /\ DispatchTypeOK /\ UNCHANGED dispatch => DispatchTypeOK'
    /\ WorkerTypeOK /\ UNCHANGED worker => WorkerTypeOK'
    /\ RequestTypeOK /\ UNCHANGED req => RequestTypeOK'
    /\ HistoryTypeOK /\ UNCHANGED history => HistoryTypeOK'
  BY DEF RowTypeOK, DispatchTypeOK, WorkerTypeOK, RequestTypeOK, HistoryTypeOK

\* A worker that releases its job is idle and holds nothing.
LEMMA ReleaseTyped ==
  ASSUME WorkerTypeOK, NEW w \in Workers, Release(w)
  PROVE  WorkerTypeOK'
  BY StepTables DEF WorkerTypeOK, Release, Pcs, Outcomes, Views, NoView

LEMMA AfterSettleTyped ==
  ASSUME WorkerTypeOK, NEW w \in Workers, pc[w] \in {"settle", "charge"},
         AfterSettle(w)
  PROVE  WorkerTypeOK'
<1>1. CASE outcome[w] = "failed" /\ job[w] \in Owned
  BY <1>1 DEF WorkerTypeOK, AfterSettle, Pcs, AfterPcs
<1>2. CASE ~(outcome[w] = "failed" /\ job[w] \in Owned)
  BY <1>2, ReleaseTyped DEF AfterSettle
<1>. QED
  BY <1>1, <1>2

LEMMA TypeInit == Init => TypeOK
  BY QueueAssumption, StepTables, BlankRows
     DEF Init, Statuses, TypeOK, RowTypeOK, DispatchTypeOK, WorkerTypeOK, RequestTypeOK,
         HistoryTypeOK, Pcs, Outcomes, Views, NoView, NoRequest, PromptSets

\* What the API, time and the review requests do preserves the types.
LEMMA TypeApi ==
  ASSUME TypeOK, ApiStep \/ \E j \in Jobs : Age(j)
  PROVE  TypeOK'
<1>. USE QueueAssumption DEF TypeOK
<1>1. ASSUME NEW j \in Jobs, Submit(j) PROVE TypeOK'
  <2>1. Submitted \in Nat
    BY FS_Subset, FS_CardinalityType DEF Submitted
  <2>2. BlankRow("queued", 1 + Submitted) \in Rows
    BY <2>1, BlankRows DEF Statuses
  <2>3. RowTypeOK'
    BY <1>1, <2>2, WriteTyped DEF Submit
  <2>. QED
    BY <1>1, <2>3, Stutters DEF Submit, DispatchTypeOK
<1>2. ASSUME NEW j \in Jobs, Notify(j) PROVE TypeOK'
  <2>1. DispatchTypeOK'
    BY <1>2 DEF Notify, DispatchTypeOK
  <2>. QED
    BY <1>2, <2>1, Stutters DEF Notify
<1>3. ASSUME NEW j \in Jobs, DeleteByOwner(j) PROVE TypeOK'
  <2>1. RowTypeOK'
    BY <1>3, BlankRows, WriteTyped DEF DeleteByOwner
  <2>. QED
    BY <1>3, <2>1, Stutters DEF DeleteByOwner
<1>4. ASSUME NEW j \in Jobs, Age(j) PROVE TypeOK'
  <2>0. row[j] \in Rows
    BY DEF RowTypeOK
  <2>1. [row[j] EXCEPT !.fresh = FALSE] \in Rows
    BY <2>0 DEF Rows
  <2>2. RowTypeOK'
    BY <1>4, <2>1, WriteTyped DEF Age
  <2>. QED
    BY <1>4, <2>2, Stutters DEF Age
<1>5. ASSUME NEW r \in Requests, NEW op \in Ops, NEW j \in Jobs, OpenRequest(r, op, j)
      PROVE  TypeOK'
  BY <1>5, Stutters DEF OpenRequest, RequestTypeOK
<1>6. ASSUME NEW r \in Requests, PatchKyc(r) \/ PatchPrompts(r) \/ RequestExecute(r)
      PROVE  TypeOK'
  <2>. DEFINE j == req[r].job
  <2>1. j \in Jobs /\ row[j] \in Rows
    BY <1>6 DEF PatchKyc, PatchPrompts, RequestExecute, RequestTypeOK, RowTypeOK
  <2>2. /\ [row[j] EXCEPT !.kyc = TRUE, !.prompts = "generated"] \in Rows
        /\ [row[j] EXCEPT !.prompts = "curated"] \in Rows
        /\ [row[j] EXCEPT !.status = "queued"] \in Rows
        /\ row[j].prompts \in PromptSets
    BY <2>1 DEF Rows, Statuses, PromptSets
  <2>3. RowTypeOK'
    BY <1>6, <2>1, <2>2, WriteTyped DEF PatchKyc, PatchPrompts, RequestExecute
  <2>4. Overtaken(j) \in SUBSET Jobs
    BY <2>1 DEF Overtaken, HistoryTypeOK
  <2>5. RequestTypeOK'
    BY <1>6 DEF PatchKyc, PatchPrompts, RequestExecute, RequestTypeOK, NoRequest
  <2>7. WorkerTypeOK'
    <3>1. UNCHANGED worker
      BY <1>6 DEF PatchKyc, PatchPrompts, RequestExecute
    <3>. QED
      BY <3>1, Stutters
  <2>8. DispatchTypeOK'
    BY <1>6, <2>1 DEF PatchKyc, PatchPrompts, RequestExecute, DispatchTypeOK
  <2>6. HistoryTypeOK'
    BY <1>6, <2>1, <2>2, <2>4
       DEF PatchKyc, PatchPrompts, RequestExecute, HistoryTypeOK
  <2>. QED
    BY <2>3, <2>5, <2>6, <2>7, <2>8
<1>7. ASSUME NEW r \in Requests, DropRequest(r) PROVE TypeOK'
  BY <1>7, Stutters DEF DropRequest, NoRequest, RequestTypeOK
<1>8. ASSUME RedisFails \/ RedisReturns PROVE TypeOK'
  <2>1. UNCHANGED <<unsent, table, worker, req, history>> /\ redis' \in BOOLEAN
    BY <1>8 DEF RedisFails, RedisReturns
  <2>2. hints' \in {hints, <<>>}
    BY <1>8 DEF RedisFails, RedisReturns
  <2>3. <<>> \in Seq(Jobs)
    OBVIOUS
  <2>4. DispatchTypeOK'
    BY <2>1, <2>2, <2>3 DEF DispatchTypeOK
  <2>. QED
    BY <2>1, <2>4, Stutters
<1>. QED
  BY <1>1, <1>2, <1>3, <1>4, <1>5, <1>6, <1>7, <1>8 DEF ApiStep

LEMMA FinalizeClaimTyped ==
  ASSUME TypeOK, NEW w \in Workers, NEW j \in Jobs,
         NEW exhausted \in {"idle", "claim_next"}, FinalizeClaim(w, j, exhausted),
         UNCHANGED <<dispatch, step, outcome, due, req, spent, ledger, events,
                     approved, late, mishap>>
  PROVE  TypeOK'
<1>. USE QueueAssumption DEF TypeOK
<1>1. row[j] \in Rows
  BY DEF RowTypeOK
<1>2. /\ [row[j] EXCEPT !.attempts = @ + 1, !.status = "failed", !.fresh = TRUE] \in Rows
      /\ [row[j] EXCEPT !.attempts = @ + 1, !.status = "running", !.fresh = TRUE] \in Rows
      /\ [progress |-> row[j].progress, kycCost |-> row[j].kycCost] \in Views
  <2>1. row[j].attempts + 1 \in Nat
    BY <1>1 DEF Rows
  <2>. QED
    BY <1>1, <2>1 DEF Rows, Statuses, Views
<1>3. RowTypeOK'
  BY <1>2, WriteTyped DEF FinalizeClaim
<1>4. WorkerTypeOK'
  BY <1>2 DEF FinalizeClaim, WorkerTypeOK, Pcs, RunPcs
<1>5. HistoryTypeOK'
  BY DEF FinalizeClaim, HistoryTypeOK
<1>. QED
  BY <1>3, <1>4, <1>5, Stutters

LEMMA TypeClaim ==
  ASSUME TypeOK, NEW w \in Workers, ClaimStep(w)
  PROVE  TypeOK'
<1>. USE QueueAssumption
<1>1. ASSUME PopHint(w) PROVE TypeOK'
  <2>1. Head(hints) \in Jobs /\ Tail(hints) \in Seq(Jobs)
    BY <1>1 DEF PopHint, TypeOK, DispatchTypeOK
  <2>. QED
    BY <1>1, <2>1, Stutters DEF PopHint, TypeOK, DispatchTypeOK, WorkerTypeOK, Pcs
<1>2. ASSUME ClaimByHint(w) PROVE TypeOK'
  <2>1. job[w] \in Jobs
    BY <1>2 DEF ClaimByHint, TypeOK, WorkerTypeOK
  <2>2. CASE Eligible(job[w])
    BY <1>2, <2>1, <2>2, FinalizeClaimTyped DEF ClaimByHint
  <2>3. CASE ~Eligible(job[w])
    BY <1>2, <2>3, Stutters DEF ClaimByHint, TypeOK, WorkerTypeOK, HistoryTypeOK, Pcs
  <2>. QED
    BY <2>2, <2>3
<1>3. ASSUME ClaimNext(w) PROVE TypeOK'
  BY <1>3, FinalizeClaimTyped DEF ClaimNext
<1>4. ASSUME NothingToClaim(w) PROVE TypeOK'
  BY <1>4, Stutters DEF NothingToClaim, TypeOK, WorkerTypeOK, Pcs
<1>. QED
  BY <1>1, <1>2, <1>3, <1>4 DEF ClaimStep

\* What a worker in the pipeline may rely on.
LEMMA Holding ==
  ASSUME TypeOK, NEW w \in Workers, pc[w] \notin {"idle", "claim_next"}
  PROVE  /\ job[w] \in Jobs /\ row[job[w]] \in Rows
         /\ step[w] \in Steps /\ view[w] \in Views /\ due[w] \in Nat
  BY DEF TypeOK, RowTypeOK, WorkerTypeOK

LEMMA TypePipeline ==
  ASSUME TypeOK, NEW w \in Workers, PipelineStep(w)
  PROVE  TypeOK'
<1>. USE QueueAssumption, StepTables
<1>. DEFINE j == job[w]
<1>1. ASSUME ResetRun(w) PROVE TypeOK'
  <2>0. row[j] \in Rows /\ view[w] \in Views
    BY <1>1, Holding DEF ResetRun
  <2>1. [row[j] EXCEPT !.prompts = "none", !.answers = 0,
                       !.kycCost = Emit(0, view[w].kycCost, @)] \in Rows
    BY <2>0 DEF Rows, Views, PromptSets, Emit
  <2>2. RowTypeOK'
    BY <1>1, <2>1, Holding, WriteTyped DEF ResetRun, TypeOK
  <2>3. WorkerTypeOK'
    BY <1>1, Holding DEF ResetRun, Goto, TypeOK, WorkerTypeOK, Pcs, RunPcs, Views
  <2>. QED
    BY <1>1, <2>2, <2>3, Stutters DEF ResetRun, TypeOK
<1>2. ASSUME ResetMeasure(w) PROVE TypeOK'
  <2>1. [row[j] EXCEPT !.answers = 0] \in Rows
    BY <1>2, Holding DEF ResetMeasure, Rows
  <2>2. RowTypeOK'
    BY <1>2, <2>1, Holding, WriteTyped DEF ResetMeasure, TypeOK
  <2>3. WorkerTypeOK'
    BY <1>2, Holding DEF ResetMeasure, Goto, TypeOK, WorkerTypeOK, Pcs, RunPcs
  <2>. QED
    BY <1>2, <2>2, <2>3, Stutters DEF ResetMeasure, TypeOK
<1>3. ASSUME StartStep(w) PROVE TypeOK'
  <2>1. [row[j] EXCEPT !.fresh = TRUE] \in Rows
    <3>1. row[j] \in Rows
      BY <1>3, Holding DEF StartStep
    <3>. QED
      BY <3>1 DEF Rows
  <2>2. RowTypeOK'
    BY <1>3, <2>1, Holding, WriteTyped DEF StartStep, TypeOK
  <2>3. WorkerTypeOK'
    BY <1>3, Holding DEF StartStep, Goto, TypeOK, WorkerTypeOK, Pcs, RunPcs
  <2>. QED
    BY <1>3, <2>2, <2>3, Stutters DEF StartStep, TypeOK
<1>4. ASSUME NEW usable \in BOOLEAN, GenerateKyc(w, usable) PROVE TypeOK'
  <2>0. row[j] \in Rows /\ view[w] \in Views
    BY <1>4, Holding DEF GenerateKyc
  <2>1. [row[j] EXCEPT !.kyc = usable \/ @,
                       !.kycCost = Emit(KycPrice, view[w].kycCost, @)] \in Rows
    BY <2>0 DEF Rows, Views, Emit
  <2>2. RowTypeOK'
    BY <1>4, <2>1, Holding, WriteTyped DEF GenerateKyc, TypeOK
  <2>3. WorkerTypeOK'
    BY <1>4, Holding DEF GenerateKyc, Goto, TypeOK, WorkerTypeOK, Pcs, RunPcs, Views
  <2>4. HistoryTypeOK'
    BY <1>4, Holding DEF GenerateKyc, TypeOK, HistoryTypeOK
  <2>. QED
    BY <1>4, <2>2, <2>3, <2>4, Stutters DEF GenerateKyc, TypeOK
<1>5. ASSUME RunMeasuredExecute(w) PROVE TypeOK'
  <2>1. WorkerTypeOK'
    BY <1>5, Holding DEF RunMeasuredExecute, Goto, TypeOK, WorkerTypeOK, Pcs, RunPcs
  <2>2. HistoryTypeOK'
    BY <1>5, Holding DEF RunMeasuredExecute, TypeOK, HistoryTypeOK
  <2>. QED
    BY <1>5, <2>1, <2>2, Stutters DEF RunMeasuredExecute, TypeOK
<1>6. ASSUME CompleteStep(w) PROVE TypeOK'
  <2>. DEFINE s == step[w]
  <2>0. row[j] \in Rows /\ view[w] \in Views /\ s \in Steps /\ due[w] \in Nat
    BY <1>6, Holding DEF CompleteStep
  <2>1. [row[j] EXCEPT
           !.progress = Emit(ProgressAfter[s], view[w].progress, @),
           !.fresh = TRUE,
           !.prompts = IF s = "prompts" THEN "generated" ELSE @,
           !.answers = IF s = "execute" THEN @ + due[w] ELSE @] \in Rows
    <3>. DEFINE p == Emit(ProgressAfter[s], view[w].progress, row[j].progress)
                q == IF s = "prompts" THEN "generated" ELSE row[j].prompts
                a == IF s = "execute" THEN row[j].answers + due[w] ELSE row[j].answers
    <3>1. p \in 0 .. 100 /\ q \in PromptSets /\ a \in Nat
      BY <2>0 DEF Rows, Views, PromptSets, Emit
    <3>. HIDE DEF p, q, a
    <3>2. [row[j] EXCEPT !.progress = p, !.fresh = TRUE, !.prompts = q, !.answers = a] \in Rows
      BY <2>0, <3>1 DEF Rows
    <3>. QED
      BY <3>2 DEF p, q, a
  <2>2. RowTypeOK'
    BY <1>6, <2>1, Holding, WriteTyped DEF CompleteStep, TypeOK
  <2>3. WorkerTypeOK'
    <3>1. pc' \in [Workers -> Pcs] /\ step' \in [Workers -> Steps]
      BY <1>6, Holding DEF CompleteStep, Goto, TypeOK, WorkerTypeOK, Pcs, RunPcs
    <3>2. view' \in [Workers -> Views] /\ due' \in [Workers -> Nat]
      BY <1>6, <2>0 DEF CompleteStep, TypeOK, WorkerTypeOK, Views
    <3>. QED
      BY <1>6, <3>1, <3>2, Holding DEF CompleteStep, Goto, TypeOK, WorkerTypeOK
  <2>. QED
    BY <1>6, <2>2, <2>3, Stutters DEF CompleteStep, TypeOK
<1>7. ASSUME AwaitReview(w) PROVE TypeOK'
  <2>0. row[j] \in Rows
    BY <1>7, Holding DEF AwaitReview
  <2>1. [row[j] EXCEPT !.status = "awaiting_review", !.fresh = TRUE] \in Rows
    BY <2>0 DEF Rows, Statuses
  <2>2. RowTypeOK'
    BY <1>7, <2>1, Holding, WriteTyped DEF AwaitReview, TypeOK
  <2>3. WorkerTypeOK'
    BY <1>7, Holding DEF AwaitReview, TypeOK, WorkerTypeOK, Pcs, AfterPcs, Outcomes
  <2>. QED
    BY <1>7, <2>2, <2>3, Stutters DEF AwaitReview, TypeOK
<1>8. ASSUME FinishRun(w) PROVE TypeOK'
  <2>0. row[j] \in Rows /\ view[w] \in Views
    BY <1>8, Holding DEF FinishRun
  <2>1. [row[j] EXCEPT
           !.status = "done",
           !.progress = Emit(ProgressAfter["scoring"], view[w].progress, @),
           !.fresh = TRUE] \in Rows
    BY <2>0 DEF Rows, Views, Statuses, Emit
  <2>2. RowTypeOK'
    BY <1>8, <2>1, Holding, WriteTyped DEF FinishRun, TypeOK
  <2>3. WorkerTypeOK'
    BY <1>8, Holding DEF FinishRun, TypeOK, WorkerTypeOK, Pcs, AfterPcs, Outcomes, Views
  <2>. QED
    BY <1>8, <2>2, <2>3, Stutters DEF FinishRun, TypeOK
<1>9. ASSUME StepRaises(w) PROVE TypeOK'
  <2>1. WorkerTypeOK'
    BY <1>9 DEF StepRaises, TypeOK, WorkerTypeOK, Pcs, RunPcs
  <2>. QED
    BY <1>9, <2>1, Stutters DEF StepRaises, TypeOK
<1>. QED
  BY <1>1, <1>2, <1>3, <1>4, <1>5, <1>6, <1>7, <1>8, <1>9 DEF PipelineStep

LEMMA TypeAfter ==
  ASSUME TypeOK, NEW w \in Workers, AfterStep(w) \/ Crash(w)
  PROVE  TypeOK'
<1>. USE QueueAssumption
<1>. DEFINE j == job[w]
<1>1. ASSUME RecordFailure(w) PROVE TypeOK'
  <2>1. [row[j] EXCEPT !.status = "failed"] \in Rows
    BY <1>1, Holding DEF RecordFailure, Rows, Statuses
  <2>2. CASE Live(j)
    <3>1. RowTypeOK'
      BY <1>1, <2>1, <2>2, Holding, WriteTyped DEF RecordFailure, TypeOK
    <3>2. WorkerTypeOK'
      BY <1>1, <2>2, Holding DEF RecordFailure, TypeOK, WorkerTypeOK, Pcs, AfterPcs, Outcomes
    <3>. QED
      BY <1>1, <3>1, <3>2, Stutters DEF RecordFailure, TypeOK
  <2>3. CASE ~Live(j)
    BY <1>1, <2>3, ReleaseTyped, Stutters DEF RecordFailure, TypeOK
  <2>. QED
    BY <2>2, <2>3
<1>2. ASSUME RecordTerminalEvent(w) PROVE TypeOK'
  <2>1. WorkerTypeOK'
    BY <1>2, Holding DEF RecordTerminalEvent, TypeOK, WorkerTypeOK, Pcs, AfterPcs
  <2>2. HistoryTypeOK'
    BY <1>2, Holding DEF RecordTerminalEvent, TypeOK, HistoryTypeOK
  <2>. QED
    BY <1>2, <2>1, <2>2, Stutters DEF RecordTerminalEvent, TypeOK
<1>3. ASSUME SettleCost(w) PROVE TypeOK'
  <2>1. SpendOn(j) \in Nat /\ ledger[j].charged \in Nat
    BY <1>3, Holding DEF SettleCost, SpendOn, Rows, TypeOK, HistoryTypeOK
  <2>2. Outstanding(j) \in Int
    BY <2>1 DEF Outstanding
  <2>3. WorkerTypeOK'
    <3>1. CASE j \notin Owned \/ (Outstanding(j) <= 0 /\ ledger[j].rows > 0)
      BY <1>3, <3>1, AfterSettleTyped DEF SettleCost, TypeOK
    <3>2. CASE ~(j \notin Owned \/ (Outstanding(j) <= 0 /\ ledger[j].rows > 0))
      BY <1>3, <2>2, <3>2, Holding DEF SettleCost, TypeOK, WorkerTypeOK, Pcs, AfterPcs
    <3>. QED
      BY <3>1, <3>2
  <2>. QED
    BY <1>3, <2>3, Stutters DEF SettleCost, TypeOK
<1>4. ASSUME RecordCharge(w) PROVE TypeOK'
  <2>1. WorkerTypeOK'
    BY <1>4, AfterSettleTyped DEF RecordCharge, TypeOK
  <2>2. Charge(ledger[j], due[w]) \in [rows : Nat, charged : Nat]
    BY <1>4, Holding DEF RecordCharge, Charge, TypeOK, HistoryTypeOK
  <2>3. HistoryTypeOK'
    BY <1>4, <2>2, Holding DEF RecordCharge, TypeOK, HistoryTypeOK
  <2>. QED
    BY <1>4, <2>1, <2>3, Stutters DEF RecordCharge, TypeOK
<1>5. ASSUME PurgeFailed(w) PROVE TypeOK'
  <2>1. RowTypeOK'
    BY <1>5, Holding, BlankRows, WriteTyped DEF PurgeFailed, TypeOK
  <2>. QED
    BY <1>5, <2>1, ReleaseTyped, Stutters DEF PurgeFailed, TypeOK
<1>6. ASSUME Crash(w) PROVE TypeOK'
  <2>1. HistoryTypeOK'
    BY <1>6 DEF Crash, TypeOK, HistoryTypeOK
  <2>. QED
    BY <1>6, <2>1, ReleaseTyped, Stutters DEF Crash, TypeOK
<1>. QED
  BY <1>1, <1>2, <1>3, <1>4, <1>5, <1>6 DEF AfterStep

\* Every variable keeps its type in every reachable state: in particular a
\* worker past its claim always holds a job, and no charge is negative.
THEOREM TypeCorrect == Spec => []TypeOK
<1>1. ASSUME TypeOK, [Next]_vars PROVE TypeOK'
  <2>1. CASE ApiStep \/ \E j \in Jobs : Age(j)
    BY <1>1, <2>1, TypeApi
  <2>2. CASE \E w \in Workers : WorkerStep(w) \/ Crash(w)
    BY <1>1, <2>2, TypeClaim, TypePipeline, TypeAfter DEF WorkerStep
  <2>3. CASE UNCHANGED vars
    BY <1>1, <2>3, Stutters DEF TypeOK, vars
  <2>. QED
    BY <1>1, <2>1, <2>2, <2>3 DEF Next
<1>. QED
  BY <1>1, TypeInit, PTL DEF Spec

-----------------------------------------------------------------------------
(***************************************************************************)
(* The attempts bound.                                                     *)
(***************************************************************************)

\* A step that starts no run preserves RunsInv if it gives no row fewer
\* attempts, unless the row goes away, and creates rows from absent ones only.
LEMMA RunsKept ==
  ASSUME TypeOK, RunsInv, UNCHANGED runs,
         \A k \in Jobs :
            /\ row'[k].status = "absent" => row[k].status = "absent"
            /\ \/ row'[k].status = "deleted"
               \/ row[k].status = "absent" /\ row'[k].attempts = 0
               \/ Live(k) /\ row'[k].attempts \in {row[k].attempts, row[k].attempts + 1}
               \/ row'[k] = row[k]
  PROVE  RunsInv'
<1>. SUFFICES ASSUME NEW k \in Jobs
              PROVE  /\ runs'[k] <= MaxAttempts
                     /\ row'[k].status \notin {"absent", "deleted"}
                           => runs'[k] <= row'[k].attempts
                     /\ row'[k].status = "absent" => runs'[k] = 0
  BY DEF RunsInv, Live
<1>1. row[k] \in Rows /\ runs[k] \in Nat
  BY DEF TypeOK, HistoryTypeOK, RowTypeOK
<1>2. row[k].attempts \in Nat
  BY <1>1 DEF Rows
<1>3. /\ runs[k] <= MaxAttempts
      /\ row[k].status \notin {"absent", "deleted"} => runs[k] <= row[k].attempts
      /\ row[k].status = "absent" => runs[k] = 0
  BY DEF RunsInv, Live
<1>4. runs'[k] = runs[k]
  OBVIOUS
<1>5. CASE row'[k].status = "deleted"
  BY <1>3, <1>4, <1>5
<1>6. CASE row[k].status = "absent" /\ row'[k].attempts = 0
  BY <1>1, <1>3, <1>4, <1>6
<1>7. CASE Live(k) /\ row'[k].attempts \in {row[k].attempts, row[k].attempts + 1}
  <2>1. runs[k] <= row[k].attempts /\ row'[k].status # "absent"
    BY <1>3, <1>7 DEF Live
  <2>2. row'[k].status # "deleted" => runs'[k] <= row'[k].attempts
    BY <1>1, <1>2, <1>4, <1>7, <2>1
  <2>. QED
    BY <1>3, <1>4, <2>1, <2>2
<1>8. CASE row'[k] = row[k]
  BY <1>3, <1>4, <1>8
<1>. QED
  BY <1>5, <1>6, <1>7, <1>8

\* In particular the write of one row that keeps its attempts.
LEMMA RunsKeptByWrite ==
  ASSUME TypeOK, RunsInv, UNCHANGED runs, NEW j \in Jobs, Live(j),
         NEW r, Write(j, r), r.attempts = row[j].attempts, r.status # "absent"
  PROVE  RunsInv'
<1>1. row'[j] = r /\ \A k \in Jobs \ {j} : row'[k] = row[k]
  BY DEF Write, TypeOK, RowTypeOK
<1>. QED
  BY <1>1, RunsKept

LEMMA RunsStep ==
  ASSUME TypeOK, RunsInv, [Next]_vars
  PROVE  RunsInv'
<1>. USE QueueAssumption
<1>1. ASSUME NEW j \in Jobs, Submit(j) PROVE RunsInv'
  BY <1>1, RunsKept DEF Submit, Write, BlankRow, TypeOK, RowTypeOK
<1>2. ASSUME NEW j \in Jobs, DeleteByOwner(j) PROVE RunsInv'
  BY <1>2, RunsKept DEF DeleteByOwner, Write, Removed, BlankRow, TypeOK, RowTypeOK
<1>3. ASSUME NEW j \in Jobs, Age(j) PROVE RunsInv'
  BY <1>3, RunsKept DEF Age, Write, TypeOK, RowTypeOK, Rows, Live
<1>4. ASSUME NEW r \in Requests, PatchKyc(r) \/ PatchPrompts(r) \/ RequestExecute(r)
      PROVE  RunsInv'
  <2>. DEFINE j == req[r].job
  <2>1. /\ j \in Jobs /\ row[j] \in Rows /\ Live(j)
        /\ UNCHANGED runs
    BY <1>4 DEF PatchKyc, PatchPrompts, RequestExecute, TypeOK, RequestTypeOK, RowTypeOK
  <2>. row[j].status # "absent"
    BY <2>1 DEF Live
  <2>2. CASE PatchKyc(r)
    <3>1. Write(j, [row[j] EXCEPT !.kyc = TRUE, !.prompts = "generated"])
      BY <2>2 DEF PatchKyc
    <3>. HIDE DEF j
    <3>. QED
      BY <2>1, <3>1, RunsKeptByWrite DEF Rows
  <2>3. CASE PatchPrompts(r)
    <3>1. Write(j, [row[j] EXCEPT !.prompts = "curated"])
      BY <2>3 DEF PatchPrompts
    <3>. HIDE DEF j
    <3>. QED
      BY <2>1, <3>1, RunsKeptByWrite DEF Rows
  <2>4. CASE RequestExecute(r)
    <3>1. Write(j, [row[j] EXCEPT !.status = "queued"])
      BY <2>4 DEF RequestExecute
    <3>. HIDE DEF j
    <3>. QED
      BY <2>1, <3>1, RunsKeptByWrite DEF Rows
  <2>. QED
    BY <1>4, <2>2, <2>3, <2>4
<1>5. ASSUME NEW w \in Workers, NEW j \in Jobs, Eligible(j),
             NEW exhausted \in {"idle", "claim_next"}, FinalizeClaim(w, j, exhausted)
      PROVE  RunsInv'
  <2>1. /\ row[j] \in Rows /\ runs[j] \in Nat
        /\ Live(j) /\ runs[j] <= row[j].attempts
    BY <1>5 DEF Eligible, Stale, Live, RunsInv, TypeOK, RowTypeOK, HistoryTypeOK
  <2>2. row[j].attempts \in Nat
    BY <2>1 DEF Rows
  <2>3. CASE Exhausted(j)
    <3>1. /\ row' = [row EXCEPT ![j] = [row[j] EXCEPT !.attempts = @ + 1,
                                        !.status = "failed", !.fresh = TRUE]]
          /\ UNCHANGED runs
      BY <1>5, <2>3 DEF FinalizeClaim, Write
    <3>2. row'[j].attempts = row[j].attempts + 1 /\ row'[j].status = "failed"
      BY <2>1, <3>1 DEF TypeOK, RowTypeOK, Rows
    <3>3. \A k \in Jobs \ {j} : row'[k] = row[k]
      BY <3>1 DEF TypeOK, RowTypeOK
    <3>. QED
      BY <2>1, <3>1, <3>2, <3>3, RunsKept
  <2>4. CASE ~Exhausted(j)
    <3>1. /\ row' = [row EXCEPT ![j] = [row[j] EXCEPT !.attempts = @ + 1,
                                        !.status = "running", !.fresh = TRUE]]
          /\ runs' = [runs EXCEPT ![j] = @ + 1]
      BY <1>5, <2>4 DEF FinalizeClaim, Write
    <3>2. row'[j].attempts = row[j].attempts + 1 /\ row'[j].status = "running"
      BY <2>1, <3>1 DEF TypeOK, RowTypeOK, Rows
    <3>3. runs'[j] = runs[j] + 1 /\ runs'[j] <= MaxAttempts
      BY <2>1, <2>2, <2>4, <3>1 DEF Exhausted, TypeOK, HistoryTypeOK
    <3>4. \A k \in Jobs \ {j} : row'[k] = row[k] /\ runs'[k] = runs[k]
      BY <3>1 DEF TypeOK, RowTypeOK, HistoryTypeOK
    <3>. QED
      BY <2>1, <2>2, <3>2, <3>3, <3>4 DEF RunsInv, Live
  <2>. QED
    BY <2>3, <2>4
<1>6. ASSUME NEW w \in Workers, ClaimStep(w) PROVE RunsInv'
  <2>1. pc[w] = "claim_hint" => job[w] \in Jobs
    BY DEF TypeOK, WorkerTypeOK
  <2>2. CASE UNCHANGED <<row, runs>>
    BY <2>2, RunsKept
  <2>. QED
    BY <1>5, <1>6, <2>1, <2>2
       DEF ClaimStep, PopHint, ClaimByHint, ClaimNext, NothingToClaim
<1>7. ASSUME NEW w \in Workers, PipelineStep(w) \/ RecordFailure(w) PROVE RunsInv'
  <2>. DEFINE j == job[w]
  <2>1. CASE UNCHANGED <<row, runs>>
    BY <2>1, RunsKept
  <2>2. CASE ~UNCHANGED <<row, runs>>
    <3>1. j \in Jobs /\ row[j] \in Rows
      BY <1>7, Holding DEF PipelineStep, RecordFailure, ResetRun, ResetMeasure,
         StartStep, GenerateKyc, RunMeasuredExecute, CompleteStep, AwaitReview,
         FinishRun, StepRaises, RunPcs
    <3>2. UNCHANGED runs /\ Live(j)
      BY <1>7, <2>2 DEF PipelineStep, RecordFailure, ResetRun, ResetMeasure,
         StartStep, GenerateKyc, RunMeasuredExecute, CompleteStep, AwaitReview,
         FinishRun, StepRaises
    <3>3. row[j].status # "absent"
      BY <3>2 DEF Live
    <3>4. CASE ResetRun(w)
      <4>. DEFINE c == Emit(0, view[w].kycCost, row[j].kycCost)
      <4>1. Write(j, [row[j] EXCEPT !.prompts = "none", !.answers = 0, !.kycCost = c])
        BY <3>4 DEF ResetRun
      <4>. HIDE DEF c
      <4>. QED
        BY <3>1, <3>2, <3>3, <4>1, RunsKeptByWrite DEF Rows
    <3>5. CASE ResetMeasure(w)
      <4>1. Write(j, [row[j] EXCEPT !.answers = 0])
        BY <3>5 DEF ResetMeasure
      <4>. QED
        BY <3>1, <3>2, <3>3, <4>1, RunsKeptByWrite DEF Rows
    <3>6. CASE StartStep(w)
      <4>1. Write(j, [row[j] EXCEPT !.fresh = TRUE])
        BY <3>6 DEF StartStep
      <4>. QED
        BY <3>1, <3>2, <3>3, <4>1, RunsKeptByWrite DEF Rows
    <3>7. ASSUME NEW usable \in BOOLEAN, GenerateKyc(w, usable) PROVE RunsInv'
      <4>. DEFINE u == usable \/ row[j].kyc
                  c == Emit(KycPrice, view[w].kycCost, row[j].kycCost)
      <4>1. Write(j, [row[j] EXCEPT !.kyc = u, !.kycCost = c])
        BY <3>7 DEF GenerateKyc
      <4>. HIDE DEF u, c
      <4>. QED
        BY <3>1, <3>2, <3>3, <4>1, RunsKeptByWrite DEF Rows
    <3>8. CASE CompleteStep(w)
      <4>. DEFINE p == Emit(ProgressAfter[step[w]], view[w].progress, row[j].progress)
                  q == IF step[w] = "prompts" THEN "generated" ELSE row[j].prompts
                  a == IF step[w] = "execute" THEN row[j].answers + due[w]
                                              ELSE row[j].answers
      <4>1. Write(j, [row[j] EXCEPT !.progress = p, !.fresh = TRUE, !.prompts = q,
                                    !.answers = a])
        BY <3>8 DEF CompleteStep
      <4>. HIDE DEF p, q, a
      <4>. QED
        BY <3>1, <3>2, <3>3, <4>1, RunsKeptByWrite DEF Rows
    <3>9. CASE AwaitReview(w)
      <4>1. Write(j, [row[j] EXCEPT !.status = "awaiting_review", !.fresh = TRUE])
        BY <3>9 DEF AwaitReview
      <4>. QED
        BY <3>1, <3>2, <4>1, RunsKeptByWrite DEF Rows
    <3>10. CASE FinishRun(w)
      <4>. DEFINE p == Emit(ProgressAfter["scoring"], view[w].progress, row[j].progress)
      <4>1. Write(j, [row[j] EXCEPT !.status = "done", !.progress = p, !.fresh = TRUE])
        BY <3>10 DEF FinishRun
      <4>. HIDE DEF p
      <4>. QED
        BY <3>1, <3>2, <4>1, RunsKeptByWrite DEF Rows
    <3>11. CASE RecordFailure(w)
      <4>1. Write(j, [row[j] EXCEPT !.status = "failed"])
        BY <3>2, <3>11 DEF RecordFailure
      <4>. QED
        BY <3>1, <3>2, <4>1, RunsKeptByWrite DEF Rows
    <3>12. ~RunMeasuredExecute(w) /\ ~StepRaises(w)
      BY <2>2, <3>2 DEF RunMeasuredExecute, StepRaises
    <3>. QED
      BY <1>7, <3>4, <3>5, <3>6, <3>7, <3>8, <3>9, <3>10, <3>11, <3>12
         DEF PipelineStep
  <2>. QED
    BY <2>1, <2>2
<1>8. ASSUME NEW w \in Workers, PurgeFailed(w) PROVE RunsInv'
  BY <1>8, Holding, RunsKept DEF PurgeFailed, Write, Removed, BlankRow, TypeOK, RowTypeOK
<1>9. CASE UNCHANGED <<row, runs>>
  BY <1>9, RunsKept
<1>. QED
  BY <1>1, <1>2, <1>3, <1>4, <1>6, <1>7, <1>8, <1>9
     DEF Next, ApiStep, WorkerStep, AfterStep, Notify, RedisFails, RedisReturns, OpenRequest,
         DropRequest, RecordTerminalEvent, SettleCost, RecordCharge, Crash, vars

LEMMA RunsInvariant == Spec => []RunsInv
<1>1. Init => RunsInv
  BY QueueAssumption DEF Init, RunsInv, BlankRow, Live
<1>. QED
  BY <1>1, RunsStep, TypeCorrect, PTL DEF Spec

\* No job is run more than MaxAttempts times, for any number of workers, review
\* clients, crashes, expired leases, duplicate hints and overtaken requests.
THEOREM AttemptsAreBounded == Spec => []RunsBounded
<1>1. RunsInv => RunsBounded
  BY DEF RunsInv, RunsBounded
<1>. QED
  BY <1>1, RunsInvariant, PTL

-----------------------------------------------------------------------------
(***************************************************************************)
(* Exclusive claims.                                                       *)
(***************************************************************************)
Failing(w, j) == job[w] = j /\ pc[w] \in AfterPcs /\ outcome[w] = "failed"

\* A step that sets nobody to work preserves ClaimInv if, of every job that
\* stays undisturbed, it moves the row away from "running" only when nobody is
\* left working on it and never away from a recorded failure.
LEMMA ClaimKept ==
  ASSUME ClaimInv,
         lapsed \subseteq lapsed', late \subseteq late',
         \A w \in Workers : pc'[w] = "purge" => outcome'[w] = "failed",
         \A w \in Workers, k \in Jobs :
            /\ Working(w, k)' => Working(w, k)
            /\ Failing(w, k)' => \/ Failing(w, k)
                                 \/ row'[k].status \in {"failed", "deleted"},
         \A k \in Jobs :
            \/ row'[k].status = row[k].status
            \/ k \in lapsed' \cup late'
            \/ row[k].status = "running" /\ \A w \in Workers : ~Working(w, k)'
            \/ row[k].status \notin {"running", "failed", "deleted"}
            \/ /\ row[k].status \in {"failed", "deleted"}
               /\ row'[k].status \in {"failed", "deleted"}
  PROVE  ClaimInv'
<1>1. \A k \in Jobs : Undisturbed(k)' => Undisturbed(k)
  BY DEF Undisturbed
<1>2. ClaimExclusive'
  BY <1>1 DEF ClaimInv, ClaimExclusive
<1>3. WorkingRuns'
  <2>. SUFFICES ASSUME NEW w \in Workers, NEW k \in Jobs, Working(w, k)', Undisturbed(k)'
                PROVE  row'[k].status = "running"
    BY DEF WorkingRuns
  <2>1. Working(w, k) /\ row[k].status = "running"
    BY <1>1 DEF ClaimInv, WorkingRuns
  <2>2. k \notin lapsed' \cup late'
    BY DEF Undisturbed
  <2>. QED
    BY <2>1, <2>2
<1>4. FailureStands'
  <2>. SUFFICES ASSUME NEW w \in Workers, NEW k \in Jobs, Failing(w, k)', Undisturbed(k)'
                PROVE  row'[k].status \in {"failed", "deleted"}
    BY DEF FailureStands, Failing
  <2>1. k \notin lapsed' \cup late'
    BY DEF Undisturbed
  <2>2. CASE Failing(w, k)
    <3>1. row[k].status \in {"failed", "deleted"}
      BY <1>1, <2>2 DEF ClaimInv, FailureStands, Failing
    <3>. QED
      BY <2>1, <3>1
  <2>. QED
    BY <2>2
<1>5. PurgeIsOfFailure'
  BY DEF PurgeIsOfFailure
<1>. QED
  BY <1>2, <1>3, <1>4, <1>5 DEF ClaimInv

LEMMA StatusKept ==
  ASSUME TypeOK, NEW j \in Jobs, NEW r, Write(j, r), r.status = row[j].status
  PROVE  \A k \in Jobs : row'[k].status = row[k].status
  BY DEF Write, TypeOK, RowTypeOK

\* A worker that goes on with its run sets nobody else to work.
LEMMA WorkGoesOn ==
  ASSUME TypeOK, ClaimInv, NEW w \in Workers, pc[w] \in RunPcs,
         NEW l \in RunPcs, pc' = [pc EXCEPT ![w] = l],
         UNCHANGED <<job, outcome, lapsed, late>>,
         \A k \in Jobs : row'[k].status = row[k].status
  PROVE  ClaimInv'
<1>1. pc \in [Workers -> Pcs]
  BY DEF TypeOK, WorkerTypeOK
<1>2. l \notin AfterPcs
  BY DEF RunPcs, AfterPcs
<1>3. \A v \in Workers : pc'[v] = "purge" => outcome'[v] = "failed"
  BY <1>1, <1>2 DEF ClaimInv, PurgeIsOfFailure, AfterPcs
<1>4. \A v \in Workers, k \in Jobs :
         /\ Working(v, k)' => Working(v, k)
         /\ Failing(v, k)' => Failing(v, k)
  BY <1>1, <1>2 DEF Working, Failing
<1>5. lapsed \subseteq lapsed' /\ late \subseteq late'
  OBVIOUS
<1>. QED
  BY <1>3, <1>4, <1>5, ClaimKept DEF Working, Failing

\* A worker that releases its job works for nobody.
LEMMA ReleaseIdles ==
  ASSUME TypeOK, ClaimInv, NEW w \in Workers, Release(w)
  PROVE  /\ \A v \in Workers : pc'[v] = "purge" => outcome'[v] = "failed"
         /\ \A v \in Workers, k \in Jobs :
               /\ Working(v, k)' => Working(v, k)
               /\ Failing(v, k)' => Failing(v, k)
         /\ \A k \in Jobs : job'[w] # k
<1>1. /\ pc \in [Workers -> Pcs] /\ outcome \in [Workers -> Outcomes]
      /\ job \in [Workers -> Jobs \cup {NoJob}]
  BY DEF TypeOK, WorkerTypeOK
<1>2. pc'[w] = "idle" /\ job'[w] = NoJob
  BY <1>1 DEF Release
<1>3. \A v \in Workers \ {w} :
         pc'[v] = pc[v] /\ job'[v] = job[v] /\ outcome'[v] = outcome[v]
  BY <1>1 DEF Release
<1>4. \A v \in Workers : pc'[v] = "purge" => outcome'[v] = "failed"
  BY <1>2, <1>3 DEF ClaimInv, PurgeIsOfFailure
<1>5. \A k \in Jobs : job'[w] # k
  BY <1>2, QueueAssumption
<1>. QED
  BY <1>3, <1>4, <1>5 DEF Working, Failing

\* A step taken without any worker.
LEMMA WorkersRest ==
  ASSUME TypeOK, ClaimInv, UNCHANGED <<worker, lapsed>>, late \subseteq late',
         \A k \in Jobs :
            \/ row'[k].status = row[k].status
            \/ k \in late'
            \/ row[k].status \notin {"running", "failed", "deleted"}
  PROVE  ClaimInv'
<1>1. UNCHANGED <<pc, job, outcome>> /\ lapsed \subseteq lapsed'
  BY DEF worker
<1>2. \A w \in Workers : pc'[w] = "purge" => outcome'[w] = "failed"
  BY <1>1 DEF ClaimInv, PurgeIsOfFailure
<1>. QED
  BY <1>1, <1>2, ClaimKept DEF Working, Failing

LEMMA ClaimApi ==
  ASSUME TypeOK, ClaimInv, ApiStep \/ \E j \in Jobs : Age(j)
  PROVE  ClaimInv'
<1>1. ASSUME NEW j \in Jobs, Submit(j) \/ DeleteByOwner(j) PROVE ClaimInv'
  <2>1. /\ row[j].status \in {"absent", "done"}
        /\ UNCHANGED <<worker, lapsed, late>>
    BY <1>1 DEF Submit, DeleteByOwner, history
  <2>2. \A k \in Jobs \ {j} : row'[k] = row[k]
    BY <1>1 DEF Submit, DeleteByOwner, Write, TypeOK, RowTypeOK
  <2>. QED
    BY <2>1, <2>2, WorkersRest
<1>2. ASSUME NEW j \in Jobs, Age(j) PROVE ClaimInv'
  <2>1. /\ row[j] \in Rows
        /\ Write(j, [row[j] EXCEPT !.fresh = FALSE])
        /\ UNCHANGED <<worker, lapsed, late>>
    BY <1>2 DEF Age, history, TypeOK, RowTypeOK
  <2>2. \A k \in Jobs : row'[k].status = row[k].status
    BY <2>1, StatusKept DEF Rows
  <2>. QED
    BY <2>1, <2>2, WorkersRest
<1>3. CASE UNCHANGED <<table, worker, lapsed, late>>
  BY <1>3, WorkersRest DEF table
<1>4. ASSUME NEW r \in Requests, PatchKyc(r) \/ PatchPrompts(r) \/ RequestExecute(r)
      PROVE  ClaimInv'
  <2>. DEFINE j == req[r].job
  <2>0. \E t : Write(j, t)
    BY <1>4, Zenon DEF PatchKyc, PatchPrompts, RequestExecute
  <2>1. j \in Jobs /\ UNCHANGED <<worker, lapsed>> /\ late' = Overtaken(j)
    BY <1>4, QueueAssumption
       DEF PatchKyc, PatchPrompts, RequestExecute, TypeOK, RequestTypeOK
  <2>2. late \subseteq late' /\ (j \in late' \/ row[j].status = "awaiting_review")
    BY <2>1 DEF Overtaken
  <2>3. \A k \in Jobs \ {j} : row'[k] = row[k]
    BY <2>0, <2>1 DEF Write, TypeOK, RowTypeOK
  <2>. HIDE DEF j
  <2>. QED
    BY <2>1, <2>2, <2>3, WorkersRest
<1>. QED
  BY <1>1, <1>2, <1>3, <1>4
     DEF ApiStep, Notify, RedisFails, RedisReturns, OpenRequest, DropRequest, history

LEMMA FinalizeClaimExclusive ==
  ASSUME TypeOK, ClaimInv, NEW w \in Workers,
         pc[w] \in {"idle", "claim_hint", "claim_next"},
         NEW j \in Jobs, Eligible(j), NEW exhausted \in {"idle", "claim_next"},
         FinalizeClaim(w, j, exhausted), UNCHANGED <<outcome, late>>
  PROVE  ClaimInv'
<1>1. /\ row[j] \in Rows
      /\ pc \in [Workers -> Pcs] /\ job \in [Workers -> Jobs \cup {NoJob}]
      /\ NoJob \notin Jobs
  BY QueueAssumption DEF TypeOK, RowTypeOK, WorkerTypeOK
<1>2. row[j].status \in {"queued", "running"}
  BY DEF Eligible, Stale
<1>3. lapsed \subseteq lapsed' /\ late' = late
  BY DEF FinalizeClaim
<1>4. Undisturbed(j)' => \A v \in Workers : ~Working(v, j)
  <2>1. Undisturbed(j)' => Undisturbed(j)
    BY <1>3 DEF Undisturbed
  <2>2. CASE Stale(j)
    BY <2>2 DEF FinalizeClaim, Undisturbed
  <2>3. CASE row[j].status = "queued"
    BY <2>1, <2>3 DEF ClaimInv, WorkingRuns
  <2>. QED
    BY <2>2, <2>3 DEF Eligible
<1>5. \A k \in Jobs : Undisturbed(k)' => Undisturbed(k)
  BY <1>3 DEF Undisturbed
<1>6. CASE Exhausted(j)
  <2>1. /\ row' = [row EXCEPT ![j] = [row[j] EXCEPT !.attempts = @ + 1,
                                      !.status = "failed", !.fresh = TRUE]]
        /\ pc' = [pc EXCEPT ![w] = exhausted]
        /\ job' = [job EXCEPT ![w] = NoJob]
    BY <1>6 DEF FinalizeClaim, Write
  <2>2. row'[j].status = "failed" /\ \A k \in Jobs \ {j} : row'[k] = row[k]
    BY <1>1, <2>1 DEF TypeOK, RowTypeOK, Rows
  <2>3. \A v \in Workers, k \in Jobs :
           /\ Working(v, k)' => Working(v, k)
           /\ Failing(v, k)' => Failing(v, k)
    BY <1>1, <2>1 DEF Working, Failing
  <2>4. \A v \in Workers : pc'[v] = "purge" => outcome'[v] = "failed"
    BY <1>1, <2>1 DEF ClaimInv, PurgeIsOfFailure
  <2>5. j \in lapsed' \cup late' \/ \A v \in Workers : ~Working(v, j)'
    BY <1>4, <2>3 DEF Undisturbed, Working
  <2>. QED
    BY <1>2, <1>3, <2>2, <2>3, <2>4, <2>5, ClaimKept DEF Working, Failing
<1>7. CASE ~Exhausted(j)
  <2>1. /\ row' = [row EXCEPT ![j] = [row[j] EXCEPT !.attempts = @ + 1,
                                      !.status = "running", !.fresh = TRUE]]
        /\ pc' = [pc EXCEPT ![w] = IF IsGuidedMeasureJob(j)
                                   THEN "measure_reset" ELSE "reset"]
        /\ job' = [job EXCEPT ![w] = j]
    BY <1>7 DEF FinalizeClaim, Write
  <2>2. row'[j].status = "running" /\ \A k \in Jobs \ {j} : row'[k] = row[k]
    BY <1>1, <2>1 DEF TypeOK, RowTypeOK, Rows
  <2>3. /\ pc'[w] \in {"reset", "measure_reset"} /\ job'[w] = j
        /\ \A v \in Workers \ {w} : pc'[v] = pc[v] /\ job'[v] = job[v]
    BY <1>1, <2>1
  <2>4. \A k \in Jobs : ~Working(w, k)
    BY DEF Working, RunPcs
  <2>5. \A v \in Workers \ {w}, k \in Jobs : Working(v, k)' => Working(v, k)
    BY <2>3 DEF Working
  <2>6. \A k \in Jobs : Working(w, k)' => k = j
    BY <2>3 DEF Working
  <2>7. ClaimExclusive'
    BY <1>4, <1>5, <2>5, <2>6 DEF ClaimInv, ClaimExclusive, Working, Undisturbed
  <2>8. WorkingRuns'
    BY <1>5, <2>2, <2>5, <2>6 DEF ClaimInv, WorkingRuns, Working, Undisturbed
  <2>9. \A v \in Workers, k \in Jobs : Failing(v, k)' => Failing(v, k)
    BY <2>3 DEF Failing, AfterPcs
  <2>10. FailureStands'
    BY <1>2, <1>5, <2>2, <2>9 DEF ClaimInv, FailureStands, Failing, Undisturbed
  <2>11. PurgeIsOfFailure'
    BY <2>3 DEF ClaimInv, PurgeIsOfFailure
  <2>. QED
    BY <2>7, <2>8, <2>10, <2>11 DEF ClaimInv
<1>. QED
  BY <1>6, <1>7

LEMMA ClaimClaim ==
  ASSUME TypeOK, ClaimInv, NEW w \in Workers, ClaimStep(w)
  PROVE  ClaimInv'
<1>1. /\ pc \in [Workers -> Pcs] /\ job \in [Workers -> Jobs \cup {NoJob}]
      /\ pc[w] = "claim_hint" => job[w] \in Jobs
  BY DEF TypeOK, WorkerTypeOK
<1>2. CASE PopHint(w) \/ NothingToClaim(w) \/ (ClaimByHint(w) /\ ~Eligible(job[w]))
  <2>1. /\ UNCHANGED <<row, outcome, lapsed, late>>
        /\ \E l \in {"idle", "claim_hint", "claim_next"} : pc' = [pc EXCEPT ![w] = l]
        /\ \E h : job' = [job EXCEPT ![w] = h]
    BY <1>1, <1>2 DEF PopHint, NothingToClaim, ClaimByHint, table, history
  <2>2. /\ pc'[w] \in {"idle", "claim_hint", "claim_next"}
        /\ \A v \in Workers \ {w} : pc'[v] = pc[v] /\ job'[v] = job[v]
    BY <1>1, <2>1
  <2>3. \A v \in Workers : pc'[v] = "purge" => outcome'[v] = "failed"
    BY <2>1, <2>2 DEF ClaimInv, PurgeIsOfFailure
  <2>4. \A v \in Workers, k \in Jobs :
           /\ Working(v, k)' => Working(v, k)
           /\ Failing(v, k)' => Failing(v, k)
    BY <2>1, <2>2 DEF Working, Failing, RunPcs, AfterPcs
  <2>5. \A k \in Jobs : row'[k].status = row[k].status
    BY <2>1
  <2>6. lapsed \subseteq lapsed' /\ late \subseteq late'
    BY <2>1
  <2>. QED
    BY <2>3, <2>4, <2>5, <2>6, ClaimKept DEF Working, Failing
<1>3. CASE ClaimByHint(w) /\ Eligible(job[w])
  <2>1. FinalizeClaim(w, job[w], "claim_next") /\ UNCHANGED <<outcome, late>>
        /\ pc[w] = "claim_hint"
    BY <1>3 DEF ClaimByHint
  <2>. QED
    BY <1>1, <1>3, <2>1, FinalizeClaimExclusive
<1>4. CASE ClaimNext(w)
  <2>1. PICK j \in Jobs : Eligible(j) /\ FinalizeClaim(w, j, "idle")
    BY <1>4 DEF ClaimNext
  <2>2. UNCHANGED <<outcome, late>> /\ pc[w] \in {"idle", "claim_next"}
    BY <1>4 DEF ClaimNext, Polls
  <2>. QED
    BY <2>1, <2>2, FinalizeClaimExclusive
<1>5. CASE ClaimByHint(w)
  BY <1>2, <1>3, <1>5
<1>. QED
  BY <1>2, <1>4, <1>5 DEF ClaimStep

\* A worker that ends its run leaves a row nobody else is working on, unless
\* the job was disturbed.
LEMMA RunEnds ==
  ASSUME TypeOK, ClaimInv, NEW w \in Workers, pc[w] \in RunPcs,
         UNCHANGED <<job, lapsed, late>>,
         \E l \in {"settle", "record"} : pc' = [pc EXCEPT ![w] = l],
         \E o \in Outcomes : outcome' = [outcome EXCEPT ![w] = o],
         \E t : Write(job[w], t),
         outcome'[w] = "failed" => row'[job[w]].status = "failed"
  PROVE  ClaimInv'
<1>. DEFINE j == job[w]
<1>1. /\ pc \in [Workers -> Pcs] /\ outcome \in [Workers -> Outcomes] /\ j \in Jobs
  BY DEF TypeOK, WorkerTypeOK, RunPcs
<1>2. /\ pc'[w] \in {"settle", "record"}
      /\ \A v \in Workers \ {w} : pc'[v] = pc[v] /\ outcome'[v] = outcome[v]
  BY <1>1
<1>3. \A k \in Jobs \ {j} : row'[k] = row[k]
  BY <1>1 DEF Write, TypeOK, RowTypeOK
<1>4. \A v \in Workers : pc'[v] = "purge" => outcome'[v] = "failed"
  BY <1>2 DEF ClaimInv, PurgeIsOfFailure
<1>5. \A v \in Workers, k \in Jobs :
         /\ Working(v, k)' => Working(v, k) /\ v # w
         /\ Failing(v, k)' => \/ Failing(v, k)
                              \/ row'[k].status \in {"failed", "deleted"}
  BY <1>2 DEF Working, Failing, RunPcs, AfterPcs
<1>6. CASE j \in lapsed \cup late
  <2>1. lapsed \subseteq lapsed' /\ late \subseteq late' /\ j \in lapsed' \cup late'
    BY <1>6
  <2>. QED
    BY <1>3, <1>4, <1>5, <2>1, ClaimKept DEF Working, Failing
<1>7. CASE j \notin lapsed \cup late
  <2>1. row[j].status = "running"
    BY <1>1, <1>7 DEF ClaimInv, WorkingRuns, Working, Undisturbed
  <2>2. \A v \in Workers : ~Working(v, j)'
    BY <1>1, <1>5, <1>7 DEF ClaimInv, ClaimExclusive, Working, Undisturbed
  <2>3. lapsed \subseteq lapsed' /\ late \subseteq late'
    OBVIOUS
  <2>. QED
    BY <1>3, <1>4, <1>5, <2>1, <2>2, <2>3, ClaimKept DEF Working, Failing
<1>. QED
  BY <1>6, <1>7

LEMMA ClaimPipeline ==
  ASSUME TypeOK, ClaimInv, NEW w \in Workers, PipelineStep(w)
  PROVE  ClaimInv'
<1>. DEFINE j == job[w]
<1>1. /\ pc \in [Workers -> Pcs] /\ job \in [Workers -> Jobs \cup {NoJob}]
      /\ outcome \in [Workers -> Outcomes]
  BY DEF TypeOK, WorkerTypeOK
<1>2. /\ pc[w] \in RunPcs /\ j \in Jobs /\ row[j] \in Rows
      /\ UNCHANGED <<job, lapsed, late>>
  <2>1. pc[w] \in RunPcs
    BY DEF PipelineStep, ResetRun, ResetMeasure, StartStep, GenerateKyc,
           RunMeasuredExecute, CompleteStep, AwaitReview, FinishRun, StepRaises, RunPcs
  <2>2. UNCHANGED <<job, lapsed, late>>
    BY DEF PipelineStep, ResetRun, ResetMeasure, StartStep, GenerateKyc,
           RunMeasuredExecute, CompleteStep, AwaitReview, FinishRun, StepRaises, history
  <2>. QED
    BY <2>1, <2>2, Holding DEF RunPcs
<1>3. ASSUME UNCHANGED outcome,
             \E l \in RunPcs : pc' = [pc EXCEPT ![w] = l],
             \A k \in Jobs : row'[k].status = row[k].status
      PROVE  ClaimInv'
  BY <1>2, <1>3, WorkGoesOn
<1>4. CASE ResetRun(w)
  <2>. DEFINE c == Emit(0, view[w].kycCost, row[j].kycCost)
  <2>1. Write(j, [row[j] EXCEPT !.prompts = "none", !.answers = 0, !.kycCost = c])
    BY <1>4 DEF ResetRun
  <2>2. UNCHANGED outcome /\ \E l \in RunPcs : pc' = [pc EXCEPT ![w] = l]
    BY <1>4 DEF ResetRun, Goto, RunPcs
  <2>. HIDE DEF c, j
  <2>. QED
    BY <1>2, <1>3, <2>1, <2>2, StatusKept DEF Rows
<1>5. CASE ResetMeasure(w)
  <2>1. Write(j, [row[j] EXCEPT !.answers = 0])
    BY <1>5 DEF ResetMeasure
  <2>2. UNCHANGED outcome /\ \E l \in RunPcs : pc' = [pc EXCEPT ![w] = l]
    BY <1>5 DEF ResetMeasure, Goto, RunPcs
  <2>. HIDE DEF j
  <2>. QED
    BY <1>2, <1>3, <2>1, <2>2, StatusKept DEF Rows
<1>6. CASE StartStep(w)
  <2>1. Write(j, [row[j] EXCEPT !.fresh = TRUE])
    BY <1>6 DEF StartStep
  <2>2. UNCHANGED outcome /\ \E l \in RunPcs : pc' = [pc EXCEPT ![w] = l]
    BY <1>6 DEF StartStep, Goto, RunPcs
  <2>. HIDE DEF j
  <2>. QED
    BY <1>2, <1>3, <2>1, <2>2, StatusKept DEF Rows
<1>7. ASSUME NEW usable \in BOOLEAN, GenerateKyc(w, usable) PROVE ClaimInv'
  <2>. DEFINE u == usable \/ row[j].kyc
              c == Emit(KycPrice, view[w].kycCost, row[j].kycCost)
  <2>1. Write(j, [row[j] EXCEPT !.kyc = u, !.kycCost = c])
    BY <1>7 DEF GenerateKyc
  <2>2. UNCHANGED outcome /\ \E l \in RunPcs : pc' = [pc EXCEPT ![w] = l]
    BY <1>7 DEF GenerateKyc, Goto, RunPcs
  <2>. HIDE DEF u, c, j
  <2>. QED
    BY <1>2, <1>3, <2>1, <2>2, StatusKept DEF Rows
<1>8. CASE CompleteStep(w)
  <2>. DEFINE p == Emit(ProgressAfter[step[w]], view[w].progress, row[j].progress)
              q == IF step[w] = "prompts" THEN "generated" ELSE row[j].prompts
              a == IF step[w] = "execute" THEN row[j].answers + due[w]
                                          ELSE row[j].answers
  <2>1. Write(j, [row[j] EXCEPT !.progress = p, !.fresh = TRUE, !.prompts = q,
                                !.answers = a])
    BY <1>8 DEF CompleteStep
  <2>2. UNCHANGED outcome /\ \E l \in RunPcs : pc' = [pc EXCEPT ![w] = l]
    BY <1>8 DEF CompleteStep, Goto, RunPcs
  <2>. HIDE DEF p, q, a, j
  <2>. QED
    BY <1>2, <1>3, <2>1, <2>2, StatusKept DEF Rows
<1>9. CASE RunMeasuredExecute(w) \/ StepRaises(w)
  <2>1. UNCHANGED row /\ UNCHANGED outcome /\ \E l \in RunPcs : pc' = [pc EXCEPT ![w] = l]
    BY <1>9 DEF RunMeasuredExecute, StepRaises, Goto, RunPcs, table
  <2>. QED
    BY <1>3, <2>1
<1>10. CASE AwaitReview(w) \/ FinishRun(w)
  <2>1. /\ \E l \in {"settle", "record"} : pc' = [pc EXCEPT ![w] = l]
        /\ \E o \in {"awaiting_review", "done"} : outcome' = [outcome EXCEPT ![w] = o]
    BY <1>1, <1>10 DEF AwaitReview, FinishRun
  <2>2. \E t : Write(j, t)
    BY <1>10, Zenon DEF AwaitReview, FinishRun
  <2>3. outcome'[w] # "failed" /\ \E o \in Outcomes : outcome' = [outcome EXCEPT ![w] = o]
    BY <1>1, <2>1 DEF Outcomes
  <2>. QED
    BY <1>2, <2>1, <2>2, <2>3, RunEnds
<1>. QED
  BY <1>4, <1>5, <1>6, <1>7, <1>8, <1>9, <1>10 DEF PipelineStep

LEMMA ClaimAfter ==
  ASSUME TypeOK, ClaimInv, NEW w \in Workers, AfterStep(w) \/ Crash(w)
  PROVE  ClaimInv'
<1>. DEFINE j == job[w]
<1>1. /\ pc \in [Workers -> Pcs] /\ job \in [Workers -> Jobs \cup {NoJob}]
      /\ outcome \in [Workers -> Outcomes]
  BY DEF TypeOK, WorkerTypeOK
<1>2. lapsed \subseteq lapsed' /\ late \subseteq late'
  BY DEF AfterStep, RecordFailure, RecordTerminalEvent, SettleCost, RecordCharge,
         PurgeFailed, Crash, history
<1>3. ASSUME UNCHANGED row, Release(w) PROVE ClaimInv'
  BY <1>2, <1>3, ReleaseIdles, ClaimKept DEF Working, Failing
\* Going on with the bookkeeping.
<1>4. ASSUME UNCHANGED <<row, job, outcome>>, pc[w] \in AfterPcs,
             NEW l \in AfterPcs, pc' = [pc EXCEPT ![w] = l],
             l = "purge" => outcome[w] = "failed"
      PROVE  ClaimInv'
  <2>1. \A v \in Workers : pc'[v] = "purge" => outcome'[v] = "failed"
    BY <1>1, <1>4 DEF ClaimInv, PurgeIsOfFailure
  <2>2. \A v \in Workers, k \in Jobs :
           /\ Working(v, k)' => Working(v, k)
           /\ Failing(v, k)' => Failing(v, k)
    BY <1>1, <1>4 DEF Working, Failing, RunPcs, AfterPcs
  <2>. QED
    BY <1>2, <1>4, <2>1, <2>2, ClaimKept DEF Working, Failing
<1>5. CASE RecordFailure(w)
  <2>1. CASE ~Live(j)
    BY <1>3, <1>5, <2>1 DEF RecordFailure, table
  <2>2. CASE Live(j)
    <3>1. /\ row' = [row EXCEPT ![j] = [row[j] EXCEPT !.status = "failed"]]
          /\ outcome' = [outcome EXCEPT ![w] = "failed"]
          /\ pc' = [pc EXCEPT ![w] = "record"]
          /\ UNCHANGED <<job, lapsed, late>> /\ pc[w] \in RunPcs
      BY <1>5, <2>2 DEF RecordFailure, history, Write, RunPcs
    <3>2. j \in Jobs /\ row[j] \in Rows
      BY <3>1, Holding DEF RunPcs
    <3>3. row'[j].status = "failed"
      BY <3>1, <3>2 DEF TypeOK, RowTypeOK, Rows
    <3>. QED
      BY <1>1, <3>1, <3>3, RunEnds DEF Write, Outcomes
  <2>. QED
    BY <2>1, <2>2
<1>6. CASE RecordTerminalEvent(w)
  <2>1. /\ UNCHANGED <<row, job, outcome>> /\ pc[w] \in AfterPcs
        /\ pc' = [pc EXCEPT ![w] = "settle"]
    BY <1>6 DEF RecordTerminalEvent, table, AfterPcs
  <2>. QED
    BY <1>4, <2>1 DEF AfterPcs
<1>7. ASSUME AfterSettle(w), UNCHANGED row, pc[w] \in AfterPcs PROVE ClaimInv'
  <2>1. CASE outcome[w] = "failed" /\ job[w] \in Owned
    <3>1. pc' = [pc EXCEPT ![w] = "purge"] /\ UNCHANGED <<job, outcome>>
      BY <1>7, <2>1 DEF AfterSettle
    <3>. QED
      BY <1>4, <1>7, <2>1, <3>1 DEF AfterPcs
  <2>2. CASE ~(outcome[w] = "failed" /\ job[w] \in Owned)
    BY <1>3, <1>7, <2>2 DEF AfterSettle
  <2>. QED
    BY <2>1, <2>2
<1>8. CASE SettleCost(w)
  <2>1. /\ UNCHANGED row /\ pc[w] \in AfterPcs
        /\ \/ AfterSettle(w)
           \/ pc' = [pc EXCEPT ![w] = "charge"] /\ UNCHANGED <<job, outcome>>
    BY <1>8 DEF SettleCost, table, AfterPcs
  <2>. QED
    BY <1>4, <1>7, <2>1 DEF AfterPcs
<1>9. CASE RecordCharge(w)
  <2>1. UNCHANGED row /\ pc[w] \in AfterPcs /\ AfterSettle(w)
    BY <1>9 DEF RecordCharge, table, AfterPcs
  <2>. QED
    BY <1>7, <2>1
<1>10. CASE PurgeFailed(w)
  <2>1. /\ row' = [row EXCEPT ![j] = Removed(j)] /\ Release(w)
        /\ pc[w] = "purge" /\ UNCHANGED <<lapsed, late>>
    BY <1>10 DEF PurgeFailed, Write, history
  <2>2. j \in Jobs
    BY <2>1, Holding
  <2>3. row'[j].status = "deleted" /\ \A k \in Jobs \ {j} : row'[k] = row[k]
    BY <2>1, <2>2 DEF TypeOK, RowTypeOK, Removed, BlankRow
  <2>4. j \in lapsed' \cup late' \/ row[j].status \in {"failed", "deleted"}
    BY <2>1, <2>2 DEF ClaimInv, PurgeIsOfFailure, FailureStands, Undisturbed, AfterPcs
  <2>. HIDE DEF j
  <2>. QED
    BY <1>2, <2>1, <2>3, <2>4, ReleaseIdles, ClaimKept DEF Working, Failing
<1>11. CASE Crash(w)
  BY <1>3, <1>11 DEF Crash, table
<1>. QED
  BY <1>5, <1>6, <1>8, <1>9, <1>10, <1>11 DEF AfterStep

LEMMA ClaimInvariant == Spec => []ClaimInv
<1>1. Init => ClaimInv
  BY DEF Init, ClaimInv, ClaimExclusive, WorkingRuns, FailureStands, PurgeIsOfFailure,
         Working, RunPcs, AfterPcs
<1>2. TypeOK /\ ClaimInv /\ [Next]_vars => ClaimInv'
  <2>. SUFFICES ASSUME TypeOK, ClaimInv, [Next]_vars PROVE ClaimInv'
    OBVIOUS
  <2>1. CASE UNCHANGED vars
    BY <2>1, WorkersRest DEF vars, table, history
  <2>2. CASE Next
    BY <2>2, ClaimApi, ClaimClaim, ClaimPipeline, ClaimAfter DEF Next, WorkerStep
  <2>. QED
    BY <2>1, <2>2
<1>. QED
  BY <1>1, <1>2, TypeCorrect, PTL DEF Spec

\* Two workers run one job only after a lease expired under a live worker or a
\* review request was overtaken, for any number of workers, jobs and clients:
\* the hint claim, the FIFO claim, crashes and the purge never cause it.
THEOREM ClaimsAreExclusive == Spec => []ClaimExclusive
<1>1. ClaimInv => ClaimExclusive
  BY DEF ClaimInv
<1>. QED
  BY <1>1, ClaimInvariant, PTL

-----------------------------------------------------------------------------
(***************************************************************************)
(* One run of an analysis: its phases, its outcome, its money, and the     *)
(* lifecycle the queue implements.                                         *)
(***************************************************************************)
-----------------------------------------------------------------------------
(***************************************************************************)
(* What each step writes, field by field, so that no later proof opens the *)
(* records.                                                                *)
(***************************************************************************)
OtherRows(j) == \A k \in Jobs \ {j} : row'[k] = row[k]

\* The columns of the row of j after a step that leaves its attempts alone.
Becomes(j, status, progress, kyc, kycCost, prompts, answers) ==
    /\ row'[j].status = status
    /\ row'[j].progress = progress
    /\ row'[j].kyc = kyc
    /\ row'[j].kycCost = kycCost
    /\ row'[j].prompts = prompts
    /\ row'[j].answers = answers
    /\ row'[j].attempts = row[j].attempts

Same(j) == Becomes(j, row[j].status, row[j].progress, row[j].kyc, row[j].kycCost,
                   row[j].prompts, row[j].answers)

\* Nothing of worker v changes.
Rests(v) ==
    /\ pc'[v] = pc[v] /\ job'[v] = job[v] /\ step'[v] = step[v]
    /\ outcome'[v] = outcome[v] /\ view'[v] = view[v] /\ due'[v] = due[v]
OthersRest(w) == \A v \in Workers \ {w} : Rests(v)

\* Worker w keeps its job and moves to a label and a step.
GoesTo(w, l, s) ==
    /\ pc'[w] = l /\ step'[w] = s /\ job'[w] = job[w] /\ OthersRest(w)

LEMMA RowFields ==
  ASSUME TypeOK, NEW j \in Jobs
  PROVE  /\ row[j] \in Rows
         /\ row[j].progress \in 0 .. 100 /\ row[j].attempts \in Nat
         /\ row[j].kyc \in BOOLEAN /\ row[j].kycCost \in Nat
         /\ row[j].prompts \in PromptSets /\ row[j].answers \in Nat
         /\ row[j].status \in Statuses
  BY DEF TypeOK, RowTypeOK, Rows

LEMMA WriteDoes ==
  ASSUME TypeOK, NEW j \in Jobs, NEW r, Write(j, r)
  PROVE  row'[j] = r /\ OtherRows(j)
  BY DEF Write, OtherRows, TypeOK, RowTypeOK

LEMMA ResetRunDoes ==
  ASSUME TypeOK, NEW w \in Workers, ResetRun(w)
  PROVE  LET j == job[w] IN
         /\ Becomes(j, row[j].status, row[j].progress, row[j].kyc,
                    Emit(0, view[w].kycCost, row[j].kycCost), "none", 0)
         /\ OtherRows(j)
         /\ GoesTo(w, "start", "discovery")
         /\ view'[w].progress = view[w].progress /\ view'[w].kycCost = 0
         /\ due'[w] = due[w]
<1>. DEFINE j == job[w]
            c == Emit(0, view[w].kycCost, row[j].kycCost)
            r == [row[j] EXCEPT !.prompts = "none", !.answers = 0, !.kycCost = c]
<1>1. j \in Jobs /\ row[j] \in Rows /\ view[w] \in Views
  BY Holding DEF ResetRun
<1>2. row'[j] = r /\ OtherRows(j)
  BY <1>1, WriteDoes DEF ResetRun
<1>3. GoesTo(w, "start", "discovery") /\ due'[w] = due[w]
  BY DEF ResetRun, Goto, GoesTo, OthersRest, Rests, TypeOK, WorkerTypeOK
<1>4. view'[w].progress = view[w].progress /\ view'[w].kycCost = 0
  BY <1>1 DEF ResetRun, TypeOK, WorkerTypeOK, Views
<1>5. Becomes(j, row[j].status, row[j].progress, row[j].kyc, c, "none", 0)
  <2>. HIDE DEF c, j
  <2>. QED
    BY <1>1, <1>2 DEF Becomes, Rows
<1>. QED
  BY <1>2, <1>3, <1>4, <1>5

LEMMA ResetMeasureDoes ==
  ASSUME TypeOK, NEW w \in Workers, ResetMeasure(w)
  PROVE  LET j == job[w] IN
         /\ Becomes(j, row[j].status, row[j].progress, row[j].kyc, row[j].kycCost,
                    row[j].prompts, 0)
         /\ OtherRows(j)
         /\ IF row[j].prompts = "none" THEN GoesTo(w, "fail", step[w])
                                       ELSE GoesTo(w, "start", "execute")
         /\ view'[w] = view[w] /\ due'[w] = due[w]
<1>. DEFINE j == job[w]
            r == [row[j] EXCEPT !.answers = 0]
<1>1. j \in Jobs /\ row[j] \in Rows
  BY Holding DEF ResetMeasure
<1>2. row'[j] = r /\ OtherRows(j)
  BY <1>1, WriteDoes DEF ResetMeasure
<1>3. /\ IF row[j].prompts = "none" THEN GoesTo(w, "fail", step[w])
                                    ELSE GoesTo(w, "start", "execute")
      /\ view'[w] = view[w] /\ due'[w] = due[w]
  BY DEF ResetMeasure, Goto, GoesTo, OthersRest, Rests, TypeOK, WorkerTypeOK
<1>4. Becomes(j, row[j].status, row[j].progress, row[j].kyc, row[j].kycCost,
              row[j].prompts, 0)
  <2>. HIDE DEF j
  <2>. QED
    BY <1>1, <1>2 DEF Becomes, Rows
<1>. QED
  BY <1>2, <1>3, <1>4

LEMMA StartStepDoes ==
  ASSUME TypeOK, NEW w \in Workers, StartStep(w)
  PROVE  LET j == job[w] IN
         /\ Same(j) /\ OtherRows(j)
         /\ GoesTo(w, IF step[w] \in {"kyc", "execute"} THEN "work" ELSE "complete",
                   step[w])
         /\ view'[w] = view[w] /\ due'[w] = due[w]
<1>. DEFINE j == job[w]
            r == [row[j] EXCEPT !.fresh = TRUE]
<1>1. j \in Jobs /\ row[j] \in Rows
  BY Holding DEF StartStep
<1>2. row'[j] = r /\ OtherRows(j)
  BY <1>1, WriteDoes DEF StartStep
<1>3. /\ GoesTo(w, IF step[w] \in {"kyc", "execute"} THEN "work" ELSE "complete",
                step[w])
      /\ view'[w] = view[w] /\ due'[w] = due[w]
  BY DEF StartStep, Goto, GoesTo, OthersRest, Rests, TypeOK, WorkerTypeOK
<1>4. Same(j)
  <2>. HIDE DEF j
  <2>. QED
    BY <1>1, <1>2 DEF Same, Becomes, Rows
<1>. QED
  BY <1>2, <1>3, <1>4

LEMMA GenerateKycDoes ==
  ASSUME TypeOK, NEW w \in Workers, NEW usable \in BOOLEAN, GenerateKyc(w, usable)
  PROVE  LET j == job[w] IN
         /\ Becomes(j, row[j].status, row[j].progress, usable \/ row[j].kyc,
                    Emit(KycPrice, view[w].kycCost, row[j].kycCost),
                    row[j].prompts, row[j].answers)
         /\ OtherRows(j)
         /\ GoesTo(w, IF usable THEN "complete" ELSE "fail", "kyc")
         /\ view'[w].progress = view[w].progress /\ view'[w].kycCost = KycPrice
         /\ due'[w] = due[w]
<1>. DEFINE j == job[w]
            u == usable \/ row[j].kyc
            c == Emit(KycPrice, view[w].kycCost, row[j].kycCost)
            r == [row[j] EXCEPT !.kyc = u, !.kycCost = c]
<1>1. j \in Jobs /\ row[j] \in Rows /\ view[w] \in Views
  BY Holding DEF GenerateKyc
<1>2. row'[j] = r /\ OtherRows(j)
  BY <1>1, WriteDoes DEF GenerateKyc
<1>3. GoesTo(w, IF usable THEN "complete" ELSE "fail", "kyc") /\ due'[w] = due[w]
  BY DEF GenerateKyc, Goto, GoesTo, OthersRest, Rests, TypeOK, WorkerTypeOK
<1>4. view'[w].progress = view[w].progress /\ view'[w].kycCost = KycPrice
  BY <1>1 DEF GenerateKyc, TypeOK, WorkerTypeOK, Views
<1>5. Becomes(j, row[j].status, row[j].progress, u, c, row[j].prompts, row[j].answers)
  <2>. HIDE DEF u, c, j
  <2>. QED
    BY <1>1, <1>2 DEF Becomes, Rows
<1>. QED
  BY <1>2, <1>3, <1>4, <1>5

LEMMA RunMeasuredExecuteDoes ==
  ASSUME TypeOK, NEW w \in Workers, RunMeasuredExecute(w)
  PROVE  /\ UNCHANGED row
         /\ GoesTo(w, "complete", "execute")
         /\ view'[w] = view[w] /\ due'[w] = AnswersPrice
  BY DEF RunMeasuredExecute, Goto, GoesTo, OthersRest, Rests, TypeOK, WorkerTypeOK

LEMMA CompleteStepDoes ==
  ASSUME TypeOK, NEW w \in Workers, CompleteStep(w)
  PROVE  LET j == job[w]
             s == step[w] IN
         /\ Becomes(j, row[j].status,
                    Emit(ProgressAfter[s], view[w].progress, row[j].progress),
                    row[j].kyc, row[j].kycCost,
                    IF s = "prompts" THEN "generated" ELSE row[j].prompts,
                    IF s = "execute" THEN row[j].answers + due[w] ELSE row[j].answers)
         /\ OtherRows(j)
         /\ IF Pauses(j, s) THEN GoesTo(w, "pause", s) ELSE GoesTo(w, "start", NextStep[s])
         /\ view'[w].progress = ProgressAfter[s] /\ view'[w].kycCost = view[w].kycCost
         /\ due'[w] = 0
<1>. DEFINE j == job[w]
            s == step[w]
            p == Emit(ProgressAfter[s], view[w].progress, row[j].progress)
            q == IF s = "prompts" THEN "generated" ELSE row[j].prompts
            a == IF s = "execute" THEN row[j].answers + due[w] ELSE row[j].answers
            r == [row[j] EXCEPT !.progress = p, !.fresh = TRUE, !.prompts = q,
                                !.answers = a]
<1>1. j \in Jobs /\ row[j] \in Rows /\ view[w] \in Views
  BY Holding DEF CompleteStep
<1>2. row'[j] = r /\ OtherRows(j)
  BY <1>1, WriteDoes DEF CompleteStep
<1>3. /\ IF Pauses(j, s) THEN GoesTo(w, "pause", s) ELSE GoesTo(w, "start", NextStep[s])
      /\ due'[w] = 0
  BY DEF CompleteStep, Goto, GoesTo, OthersRest, Rests, TypeOK, WorkerTypeOK
<1>4. view'[w].progress = ProgressAfter[s] /\ view'[w].kycCost = view[w].kycCost
  BY <1>1 DEF CompleteStep, TypeOK, WorkerTypeOK, Views
<1>5. Becomes(j, row[j].status, p, row[j].kyc, row[j].kycCost, q, a)
  <2>. HIDE DEF p, q, a, j
  <2>. QED
    BY <1>1, <1>2 DEF Becomes, Rows
<1>. QED
  BY <1>2, <1>3, <1>4, <1>5

LEMMA AwaitReviewDoes ==
  ASSUME TypeOK, NEW w \in Workers, AwaitReview(w)
  PROVE  LET j == job[w] IN
         /\ Becomes(j, "awaiting_review", row[j].progress, row[j].kyc, row[j].kycCost,
                    row[j].prompts, row[j].answers)
         /\ OtherRows(j)
         /\ GoesTo(w, "settle", step[w])
         /\ outcome'[w] = "awaiting_review" /\ due'[w] = due[w]
<1>. DEFINE j == job[w]
            r == [row[j] EXCEPT !.status = "awaiting_review", !.fresh = TRUE]
<1>1. j \in Jobs /\ row[j] \in Rows
  BY Holding DEF AwaitReview
<1>2. row'[j] = r /\ OtherRows(j)
  BY <1>1, WriteDoes DEF AwaitReview
<1>3. GoesTo(w, "settle", step[w]) /\ outcome'[w] = "awaiting_review" /\ due'[w] = due[w]
  BY DEF AwaitReview, GoesTo, OthersRest, Rests, TypeOK, WorkerTypeOK
<1>4. Becomes(j, "awaiting_review", row[j].progress, row[j].kyc, row[j].kycCost,
              row[j].prompts, row[j].answers)
  <2>. HIDE DEF j
  <2>. QED
    BY <1>1, <1>2 DEF Becomes, Rows
<1>. QED
  BY <1>2, <1>3, <1>4

LEMMA FinishRunDoes ==
  ASSUME TypeOK, NEW w \in Workers, FinishRun(w)
  PROVE  LET j == job[w] IN
         /\ Becomes(j, "done", Emit(100, view[w].progress, row[j].progress),
                    row[j].kyc, row[j].kycCost, row[j].prompts, row[j].answers)
         /\ OtherRows(j)
         /\ GoesTo(w, "record", "scoring")
         /\ outcome'[w] = "done" /\ due'[w] = due[w]
<1>. DEFINE j == job[w]
            p == Emit(ProgressAfter["scoring"], view[w].progress, row[j].progress)
            r == [row[j] EXCEPT !.status = "done", !.progress = p, !.fresh = TRUE]
<1>1. j \in Jobs /\ row[j] \in Rows
  BY Holding DEF FinishRun
<1>2. row'[j] = r /\ OtherRows(j)
  BY <1>1, WriteDoes DEF FinishRun
<1>3. GoesTo(w, "record", "scoring") /\ outcome'[w] = "done" /\ due'[w] = due[w]
  BY DEF FinishRun, GoesTo, OthersRest, Rests, TypeOK, WorkerTypeOK
<1>4. Becomes(j, "done", p, row[j].kyc, row[j].kycCost, row[j].prompts, row[j].answers)
  <2>. HIDE DEF p, j
  <2>. QED
    BY <1>1, <1>2 DEF Becomes, Rows
<1>5. ProgressAfter["scoring"] = 100
  BY DEF ProgressAfter
<1>. QED
  BY <1>2, <1>3, <1>4, <1>5

LEMMA StepRaisesDoes ==
  ASSUME TypeOK, NEW w \in Workers, StepRaises(w)
  PROVE  UNCHANGED row /\ GoesTo(w, "fail", step[w]) /\ view'[w] = view[w] /\ due'[w] = 0
  BY DEF StepRaises, GoesTo, OthersRest, Rests, TypeOK, WorkerTypeOK

\* A released worker is as it was started.
LEMMA ReleaseDoes ==
  ASSUME TypeOK, NEW w \in Workers, Release(w)
  PROVE  /\ pc'[w] = "idle" /\ job'[w] = NoJob /\ step'[w] = "discovery"
         /\ OthersRest(w)
  BY DEF Release, OthersRest, Rests, TypeOK, WorkerTypeOK

LEMMA RecordFailureDoes ==
  ASSUME TypeOK, NEW w \in Workers, RecordFailure(w)
  PROVE  LET j == job[w] IN
         /\ OthersRest(w)
         /\ \/ /\ Live(j)
               /\ Becomes(j, "failed", row[j].progress, row[j].kyc, row[j].kycCost,
                          row[j].prompts, row[j].answers)
               /\ OtherRows(j)
               /\ GoesTo(w, "record", step[w]) /\ outcome'[w] = "failed"
               /\ due'[w] = due[w]
            \/ ~Live(j) /\ UNCHANGED row /\ Release(w)
<1>. DEFINE j == job[w]
            r == [row[j] EXCEPT !.status = "failed"]
<1>1. j \in Jobs /\ row[j] \in Rows
  BY Holding DEF RecordFailure
<1>2. CASE ~Live(j)
  BY <1>2, ReleaseDoes DEF RecordFailure
<1>3. CASE Live(j)
  <2>1. row'[j] = r /\ OtherRows(j)
    BY <1>1, <1>3, WriteDoes DEF RecordFailure
  <2>2. GoesTo(w, "record", step[w]) /\ outcome'[w] = "failed" /\ due'[w] = due[w]
    BY <1>3 DEF RecordFailure, GoesTo, OthersRest, Rests, TypeOK, WorkerTypeOK
  <2>3. Becomes(j, "failed", row[j].progress, row[j].kyc, row[j].kycCost,
                row[j].prompts, row[j].answers)
    <3>. HIDE DEF j
    <3>. QED
      BY <1>1, <2>1 DEF Becomes, Rows
  <2>. QED
    BY <1>3, <2>1, <2>2, <2>3 DEF GoesTo
<1>. QED
  BY <1>2, <1>3

\* Worker w claims job j: the row fails where it stands or starts to run.
Claims(w, j) ==
    /\ Eligible(j)
    /\ pc[w] \in {"idle", "claim_hint", "claim_next"}
    /\ OtherRows(j)
    /\ OthersRest(w)
    /\ step'[w] = step[w]
    /\ lapsed' = IF Stale(j) /\ \E v \in Workers : Working(v, j)
                 THEN lapsed \cup {j} ELSE lapsed
    /\ row'[j].attempts = row[j].attempts + 1
    /\ row'[j].progress = row[j].progress
    /\ row'[j].kyc = row[j].kyc
    /\ row'[j].kycCost = row[j].kycCost
    /\ row'[j].prompts = row[j].prompts
    /\ row'[j].answers = row[j].answers
    /\ \/ /\ Exhausted(j)
          /\ row'[j].status = "failed"
          /\ pc'[w] \in {"idle", "claim_next"} /\ job'[w] = NoJob
          /\ UNCHANGED runs
       \/ /\ ~Exhausted(j)
          /\ row'[j].status = "running"
          /\ pc'[w] = IF IsGuidedMeasureJob(j) THEN "measure_reset" ELSE "reset"
          /\ job'[w] = j
          /\ view'[w].progress = row[j].progress /\ view'[w].kycCost = row[j].kycCost
          /\ runs' = [runs EXCEPT ![j] = @ + 1]

LEMMA FinalizeClaimDoes ==
  ASSUME TypeOK, NEW w \in Workers, pc[w] \in {"idle", "claim_hint", "claim_next"},
         NEW j \in Jobs, Eligible(j), NEW exhausted \in {"idle", "claim_next"},
         FinalizeClaim(w, j, exhausted), UNCHANGED <<step, outcome, due>>
  PROVE  Claims(w, j)
<1>. DEFINE f == [row[j] EXCEPT !.attempts = @ + 1, !.status = "failed", !.fresh = TRUE]
            g == [row[j] EXCEPT !.attempts = @ + 1, !.status = "running", !.fresh = TRUE]
<1>1. row[j] \in Rows
  BY RowFields
<1>2. OthersRest(w) /\ step'[w] = step[w]
  BY DEF FinalizeClaim, OthersRest, Rests, TypeOK, WorkerTypeOK
<1>3. CASE Exhausted(j)
  <2>1. row'[j] = f /\ OtherRows(j)
    BY <1>3, WriteDoes DEF FinalizeClaim
  <2>2. pc'[w] \in {"idle", "claim_next"} /\ job'[w] = NoJob /\ UNCHANGED runs
    BY <1>3 DEF FinalizeClaim, TypeOK, WorkerTypeOK
  <2>. QED
    BY <1>1, <1>2, <1>3, <2>1, <2>2 DEF Claims, Rows, FinalizeClaim
<1>4. CASE ~Exhausted(j)
  <2>1. row'[j] = g /\ OtherRows(j)
    BY <1>4, WriteDoes DEF FinalizeClaim
  <2>2. /\ pc'[w] = IF IsGuidedMeasureJob(j) THEN "measure_reset" ELSE "reset"
        /\ job'[w] = j
        /\ view'[w].progress = row[j].progress /\ view'[w].kycCost = row[j].kycCost
        /\ runs' = [runs EXCEPT ![j] = @ + 1]
    BY <1>4 DEF FinalizeClaim, TypeOK, WorkerTypeOK
  <2>. QED
    BY <1>1, <1>2, <1>4, <2>1, <2>2 DEF Claims, Rows, FinalizeClaim
<1>. QED
  BY <1>3, <1>4

LEMMA ClaimStepDoes ==
  ASSUME TypeOK, NEW w \in Workers, ClaimStep(w)
  PROVE  /\ UNCHANGED <<spent, ledger, events, approved, late, mishap, due, outcome>>
         /\ \/ /\ UNCHANGED <<row, runs, lapsed>>
               /\ pc'[w] \in {"idle", "claim_hint", "claim_next"}
               /\ pc[w] \in {"idle", "claim_hint", "claim_next"}
               /\ step'[w] = step[w] /\ OthersRest(w)
            \/ \E j \in Jobs : Claims(w, j)
<1>1. CASE PopHint(w) \/ NothingToClaim(w) \/ (ClaimByHint(w) /\ ~Eligible(job[w]))
  BY <1>1 DEF PopHint, Polls, NothingToClaim, ClaimByHint, OthersRest, Rests, TypeOK, WorkerTypeOK
<1>2. CASE ClaimByHint(w) /\ Eligible(job[w])
  <2>1. job[w] \in Jobs
    BY <1>2, Holding DEF ClaimByHint
  <2>. QED
    BY <1>2, <2>1, FinalizeClaimDoes DEF ClaimByHint
<1>3. CASE ClaimNext(w)
  BY <1>3, FinalizeClaimDoes DEF ClaimNext, Polls
<1>. QED
  BY <1>1, <1>2, <1>3 DEF ClaimStep

\* What the users and time do to one row. A review request that finds its job
\* outside the review window is counted in late.
Entered(k) ==
    /\ row[k].status = "absent"
    /\ row'[k].status = "queued" /\ row'[k].progress = 0 /\ row'[k].attempts = 0
    /\ row'[k].kyc = FALSE /\ row'[k].kycCost = 0
    /\ row'[k].prompts = "none" /\ row'[k].answers = 0
    /\ approved'[k] = approved[k]
Reviewed(k) ==
    /\ k \in Guided /\ Live(k)
    /\ row[k].status = "awaiting_review" \/ k \in late'
    /\ \/ \E p \in {"generated", "curated"}, c \in {TRUE, row[k].kyc} :
             /\ Becomes(k, row[k].status, row[k].progress, c, row[k].kycCost, p,
                        row[k].answers)
             /\ approved'[k] = approved[k]
       \/ /\ Becomes(k, "queued", row[k].progress, row[k].kyc, row[k].kycCost,
                     row[k].prompts, row[k].answers)
          /\ approved'[k] = row[k].prompts

LEMMA ApiDoes ==
  ASSUME TypeOK, ApiStep \/ \E j \in Jobs : Age(j)
  PROVE  /\ UNCHANGED <<pc, job, step, outcome, view, due, spent, ledger, events, runs,
                        lapsed, mishap>>
         /\ late \subseteq late'
         /\ \A k \in Jobs :
               \/ Same(k) /\ approved'[k] = approved[k]
               \/ Entered(k)
               \/ /\ row[k].status = "done" /\ row'[k].status = "deleted"
                  /\ row'[k].attempts = 0 /\ row'[k].answers = 0 /\ row'[k].kycCost = 0
               \/ Reviewed(k)
<1>. USE QueueAssumption
<1>0. UNCHANGED row => \A k \in Jobs : Same(k)
  BY DEF Same, Becomes
<1>1. ASSUME NEW j \in Jobs, Submit(j)
      PROVE  /\ UNCHANGED <<worker, history>>
             /\ OtherRows(j) /\ Entered(j)
  BY <1>1, WriteDoes DEF Submit, BlankRow, Entered
<1>2. ASSUME NEW j \in Jobs, DeleteByOwner(j)
      PROVE  /\ UNCHANGED <<worker, history>>
             /\ OtherRows(j)
             /\ row[j].status = "done" /\ row'[j].status = "deleted"
             /\ row'[j].attempts = 0 /\ row'[j].answers = 0 /\ row'[j].kycCost = 0
  BY <1>2, WriteDoes DEF DeleteByOwner, Removed, BlankRow
<1>3. ASSUME NEW j \in Jobs, Age(j)
      PROVE  UNCHANGED <<worker, history>> /\ OtherRows(j) /\ Same(j)
  BY <1>3, WriteDoes, RowFields DEF Age, Same, Becomes, Rows
<1>4. ASSUME NEW r \in Requests, PatchKyc(r) \/ PatchPrompts(r) \/ RequestExecute(r)
      PROVE  LET j == req[r].job IN
             /\ UNCHANGED <<worker, spent, ledger, events, runs, lapsed, mishap>>
             /\ late \subseteq late'
             /\ OtherRows(j) /\ Reviewed(j)
             /\ \A k \in Jobs \ {j} : approved'[k] = approved[k]
  <2>. DEFINE j == req[r].job
  <2>1. /\ j \in Guided /\ j \in Jobs /\ Live(j) /\ row[j] \in Rows
        /\ late' = Overtaken(j)
    BY <1>4, RowFields
       DEF PatchKyc, PatchPrompts, RequestExecute, TypeOK, RequestTypeOK
  <2>2. late \subseteq late' /\ (row[j].status = "awaiting_review" \/ j \in late')
    BY <2>1 DEF Overtaken
  <2>3. /\ UNCHANGED <<worker, spent, ledger, events, runs, lapsed, mishap>>
        /\ \A k \in Jobs \ {j} : approved'[k] = approved[k]
    BY <1>4, <2>1
       DEF PatchKyc, PatchPrompts, RequestExecute, TypeOK, HistoryTypeOK
  <2>4. CASE PatchKyc(r)
    <3>1. /\ row'[j] = [row[j] EXCEPT !.kyc = TRUE, !.prompts = "generated"]
          /\ OtherRows(j) /\ approved' = approved
      BY <2>1, <2>4, WriteDoes DEF PatchKyc
    <3>2. Becomes(j, row[j].status, row[j].progress, TRUE, row[j].kycCost, "generated",
                  row[j].answers)
      BY <2>1, <3>1 DEF Becomes, Rows
    <3>. HIDE DEF j
    <3>. QED
      BY <2>1, <2>2, <2>3, <3>1, <3>2 DEF Reviewed, j
  <2>5. CASE PatchPrompts(r)
    <3>1. /\ row'[j] = [row[j] EXCEPT !.prompts = "curated"]
          /\ OtherRows(j) /\ approved' = approved
      BY <2>1, <2>5, WriteDoes DEF PatchPrompts
    <3>2. Becomes(j, row[j].status, row[j].progress, row[j].kyc, row[j].kycCost,
                  "curated", row[j].answers)
      BY <2>1, <3>1 DEF Becomes, Rows
    <3>. HIDE DEF j
    <3>. QED
      BY <2>1, <2>2, <2>3, <3>1, <3>2 DEF Reviewed, j
  <2>6. CASE RequestExecute(r)
    <3>1. /\ row'[j] = [row[j] EXCEPT !.status = "queued"]
          /\ OtherRows(j) /\ approved'[j] = row[j].prompts
      BY <2>1, <2>6, WriteDoes DEF RequestExecute, TypeOK, HistoryTypeOK
    <3>2. Becomes(j, "queued", row[j].progress, row[j].kyc, row[j].kycCost,
                  row[j].prompts, row[j].answers)
      BY <2>1, <3>1 DEF Becomes, Rows
    <3>. HIDE DEF j
    <3>. QED
      BY <2>1, <2>2, <2>3, <3>1, <3>2 DEF Reviewed, j
  <2>. QED
    BY <1>4, <2>4, <2>5, <2>6
<1>5. CASE UNCHANGED <<table, worker, history>>
  BY <1>0, <1>5
<1>6. ASSUME NEW j \in Jobs, OtherRows(j) PROVE \A k \in Jobs \ {j} : Same(k)
  BY <1>6 DEF OtherRows, Same, Becomes
<1>7. CASE \E j \in Jobs : Submit(j) \/ DeleteByOwner(j) \/ Age(j)
  BY <1>1, <1>2, <1>3, <1>6, <1>7
<1>8. CASE \E r \in Requests : PatchKyc(r) \/ PatchPrompts(r) \/ RequestExecute(r)
  <2>1. PICK r \in Requests : PatchKyc(r) \/ PatchPrompts(r) \/ RequestExecute(r)
    BY <1>8
  <2>2. req[r].job \in Jobs
    BY <2>1 DEF PatchKyc, PatchPrompts, RequestExecute, TypeOK, RequestTypeOK
  <2>. QED
    BY <1>4, <1>6, <2>1, <2>2
<1>. QED
  BY <1>5, <1>7, <1>8 DEF ApiStep, Notify, RedisFails, RedisReturns, OpenRequest, DropRequest

\* The pipeline of worker w writes the row of its own job only.
LEMMA PipelineFrame ==
  ASSUME TypeOK, NEW w \in Workers, PipelineStep(w)
  PROVE  /\ job[w] \in Jobs /\ pc[w] \in RunPcs /\ Working(w, job[w])
         /\ job'[w] = job[w] /\ OthersRest(w) /\ OtherRows(job[w])
         /\ row'[job[w]].attempts = row[job[w]].attempts
         /\ UNCHANGED <<ledger, events, runs, approved, lapsed, late, mishap>>
         /\ Live(job[w]) \/ UNCHANGED row
<1>1. pc[w] \in RunPcs
  BY DEF PipelineStep, ResetRun, ResetMeasure, StartStep, GenerateKyc,
         RunMeasuredExecute, CompleteStep, AwaitReview, FinishRun, StepRaises, RunPcs
<1>2. job[w] \in Jobs
  BY <1>1, Holding DEF RunPcs
<1>3. UNCHANGED <<ledger, events, runs, approved, lapsed, late, mishap>>
  BY DEF PipelineStep, ResetRun, ResetMeasure, StartStep, GenerateKyc,
         RunMeasuredExecute, CompleteStep, AwaitReview, FinishRun, StepRaises
<1>4. Live(job[w]) \/ UNCHANGED row
  BY DEF PipelineStep, ResetRun, ResetMeasure, StartStep, GenerateKyc,
         RunMeasuredExecute, CompleteStep, AwaitReview, FinishRun, StepRaises
<1>5. /\ job'[w] = job[w] /\ OthersRest(w) /\ OtherRows(job[w])
      /\ row'[job[w]].attempts = row[job[w]].attempts
  <2>1. CASE ResetRun(w)
    BY <2>1, ResetRunDoes DEF GoesTo, Becomes
  <2>2. CASE ResetMeasure(w)
    BY <2>2, ResetMeasureDoes DEF GoesTo, Becomes
  <2>3. CASE StartStep(w)
    BY <2>3, StartStepDoes DEF GoesTo, Same, Becomes
  <2>4. CASE \E usable \in BOOLEAN : GenerateKyc(w, usable)
    BY <2>4, GenerateKycDoes DEF GoesTo, Becomes
  <2>5. CASE RunMeasuredExecute(w)
    BY <2>5, RunMeasuredExecuteDoes DEF GoesTo, OtherRows
  <2>6. CASE CompleteStep(w)
    BY <2>6, CompleteStepDoes DEF GoesTo, Becomes
  <2>7. CASE AwaitReview(w)
    BY <2>7, AwaitReviewDoes DEF GoesTo, Becomes
  <2>8. CASE FinishRun(w)
    BY <2>8, FinishRunDoes DEF GoesTo, Becomes
  <2>9. CASE StepRaises(w)
    BY <2>9, StepRaisesDoes DEF GoesTo, OtherRows
  <2>. QED
    BY <2>1, <2>2, <2>3, <2>4, <2>5, <2>6, <2>7, <2>8, <2>9 DEF PipelineStep
<1>. QED
  BY <1>1, <1>2, <1>3, <1>4, <1>5 DEF Working

\* Once the run is over, worker w works for nobody; only a failure it records
\* and a purge write a row.
LEMMA AfterFrame ==
  ASSUME TypeOK, NEW w \in Workers, AfterStep(w) \/ Crash(w)
  PROVE  /\ OthersRest(w)
         /\ \/ pc'[w] = "idle" /\ step'[w] = "discovery" /\ job'[w] = NoJob
            \/ pc'[w] \in AfterPcs /\ job'[w] = job[w] /\ step'[w] = step[w]
         /\ \A k \in Jobs : ~Working(w, k)'
         /\ UNCHANGED <<spent, runs, approved, lapsed, late>>
         /\ mishap \subseteq mishap'
         /\ \/ UNCHANGED row
            \/ RecordFailure(w) /\ job[w] \in Jobs /\ OtherRows(job[w])
            \/ /\ pc[w] = "purge" /\ job[w] \in Jobs /\ OtherRows(job[w])
               /\ row'[job[w]].status = "deleted" /\ row'[job[w]].attempts = 0
               /\ row'[job[w]].answers = 0 /\ row'[job[w]].kycCost = 0
               /\ pc'[w] = "idle"
<1>. DEFINE Parks ==
        \/ pc'[w] = "idle" /\ step'[w] = "discovery" /\ job'[w] = NoJob
        \/ pc'[w] \in AfterPcs /\ job'[w] = job[w] /\ step'[w] = step[w]
<1>1. Parks => \A k \in Jobs : ~Working(w, k)'
  BY QueueAssumption DEF Working, AfterPcs, RunPcs
<1>2. UNCHANGED <<spent, runs, approved, lapsed, late>> /\ mishap \subseteq mishap'
  BY DEF AfterStep, RecordFailure, RecordTerminalEvent, SettleCost, RecordCharge,
         PurgeFailed, Crash
<1>3. Release(w) => Parks /\ OthersRest(w)
  BY ReleaseDoes
<1>4. AfterSettle(w) => Parks /\ OthersRest(w)
  <2>1. CASE outcome[w] = "failed" /\ job[w] \in Owned
    BY <2>1 DEF AfterSettle, OthersRest, Rests, TypeOK, WorkerTypeOK, AfterPcs
  <2>2. CASE ~(outcome[w] = "failed" /\ job[w] \in Owned)
    BY <1>3, <2>2 DEF AfterSettle
  <2>. QED
    BY <2>1, <2>2
<1>. DEFINE Goal == /\ Parks /\ OthersRest(w)
                    /\ \/ UNCHANGED row
                       \/ RecordFailure(w) /\ job[w] \in Jobs /\ OtherRows(job[w])
                       \/ /\ pc[w] = "purge" /\ job[w] \in Jobs /\ OtherRows(job[w])
                          /\ row'[job[w]].status = "deleted"
                          /\ row'[job[w]].attempts = 0
                          /\ row'[job[w]].answers = 0 /\ row'[job[w]].kycCost = 0
                          /\ pc'[w] = "idle"
<1>. SUFFICES Goal
  BY <1>1, <1>2
<1>5. CASE RecordFailure(w)
  <2>1. job[w] \in Jobs
    BY <1>5, Holding DEF RecordFailure
  <2>. QED
    BY <1>3, <1>5, <2>1, RecordFailureDoes DEF GoesTo, AfterPcs
<1>6. CASE RecordTerminalEvent(w)
  BY <1>6 DEF RecordTerminalEvent, OthersRest, Rests, TypeOK, WorkerTypeOK, AfterPcs
<1>7. CASE SettleCost(w)
  <2>1. CASE AfterSettle(w)
    BY <1>4, <1>7, <2>1 DEF SettleCost
  <2>2. CASE ~AfterSettle(w)
    BY <1>7, <2>2 DEF SettleCost, OthersRest, Rests, TypeOK, WorkerTypeOK, AfterPcs
  <2>. QED
    BY <2>1, <2>2
<1>8. CASE RecordCharge(w)
  BY <1>4, <1>8 DEF RecordCharge
<1>9. CASE PurgeFailed(w)
  <2>1. job[w] \in Jobs
    BY <1>9, Holding DEF PurgeFailed
  <2>2. /\ row'[job[w]] = Removed(job[w]) /\ OtherRows(job[w])
        /\ pc[w] = "purge" /\ Release(w)
    BY <1>9, <2>1, WriteDoes DEF PurgeFailed
  <2>3. /\ row'[job[w]].status = "deleted" /\ row'[job[w]].attempts = 0
        /\ row'[job[w]].answers = 0 /\ row'[job[w]].kycCost = 0
    BY <2>2 DEF Removed, BlankRow
  <2>. QED
    BY <1>3, <2>1, <2>2, <2>3, ReleaseDoes
<1>10. CASE Crash(w)
  BY <1>3, <1>10 DEF Crash
<1>. QED
  BY <1>5, <1>6, <1>7, <1>8, <1>9, <1>10 DEF AfterStep

\* The job of a worker is its own: as long as it stays undisturbed, a step that
\* is not the worker's leaves the row, the approval and the worker alone.
Acts(w) == WorkerStep(w) \/ Crash(w)

LEMMA Untouched ==
  ASSUME TypeOK, ClaimInv, [Next]_vars, NEW w \in Workers, NEW j \in Jobs,
         Working(w, j), Undisturbed(j)', ~Acts(w)
  PROVE  Same(j) /\ Rests(w) /\ approved'[j] = approved[j]
<1>1. CASE UNCHANGED vars
  BY <1>1 DEF vars, Same, Becomes, Rests
<1>2. CASE ApiStep \/ \E k \in Jobs : Age(k)
  <2>1. late \subseteq late' /\ UNCHANGED lapsed /\ Rests(w)
    BY <1>2, ApiDoes DEF Rests
  <2>2. row[j].status = "running" /\ j \notin late'
    BY <2>1 DEF ClaimInv, WorkingRuns, Undisturbed
  <2>3. Same(j) /\ approved'[j] = approved[j]
    BY <1>2, <2>2, ApiDoes DEF Reviewed, Entered
  <2>. QED
    BY <2>1, <2>3
<1>3. ASSUME NEW u \in Workers, Acts(u), u # w
      PROVE  Same(j) /\ Rests(w) /\ approved'[j] = approved[j]
  <2>1. CASE ClaimStep(u)
    <3>1. UNCHANGED <<approved, late>> /\ OthersRest(u) /\ lapsed \subseteq lapsed'
      BY <2>1, ClaimStepDoes DEF Claims
    <3>2. row[j].status = "running"
      BY <3>1 DEF ClaimInv, WorkingRuns, Undisturbed
    <3>3. ~Claims(u, j)
      BY <3>2 DEF Claims, Eligible, Stale, Undisturbed
    <3>4. Same(j)
      BY <2>1, <3>3, ClaimStepDoes DEF Claims, OtherRows, Same, Becomes
    <3>. QED
      BY <1>3, <3>1, <3>4 DEF OthersRest
  <2>2. CASE PipelineStep(u)
    <3>1. /\ UNCHANGED <<approved, late, lapsed>> /\ OthersRest(u)
          /\ Working(u, job[u]) /\ OtherRows(job[u])
      BY <2>2, PipelineFrame
    <3>2. j # job[u]
      BY <1>3, <3>1 DEF ClaimInv, ClaimExclusive, Undisturbed
    <3>. QED
      BY <1>3, <3>1, <3>2 DEF OthersRest, OtherRows, Same, Becomes
  <2>3. CASE AfterStep(u) \/ Crash(u)
    <3>1. UNCHANGED <<approved, late, lapsed>> /\ OthersRest(u)
      BY <2>3, AfterFrame
    <3>2. row[j].status = "running"
      BY <3>1 DEF ClaimInv, WorkingRuns, Undisturbed
    <3>3. RecordFailure(u) => j # job[u]
      BY <1>3, <3>1
         DEF RecordFailure, ClaimInv, ClaimExclusive, Undisturbed, Working, RunPcs
    <3>4. pc[u] = "purge" => j # job[u]
      BY <3>1, <3>2
         DEF ClaimInv, PurgeIsOfFailure, FailureStands, Undisturbed, AfterPcs
    <3>5. Same(j)
      BY <2>3, <3>3, <3>4, AfterFrame DEF OtherRows, Same, Becomes
    <3>. QED
      BY <1>3, <3>1, <3>5 DEF OthersRest
  <2>. QED
    BY <1>3, <2>1, <2>2, <2>3 DEF Acts, WorkerStep
<1>. QED
  BY <1>1, <1>2, <1>3 DEF Next, Acts

-----------------------------------------------------------------------------
(***************************************************************************)
(* The arrows of the status column.                                        *)
(***************************************************************************)

\* An undisturbed row moves along these arrows and no others.
Moved(k) ==
    \/ row'[k].status = row[k].status
    \/ row[k].status = "absent" /\ row'[k].status = "queued"
    \/ row[k].status = "awaiting_review" /\ row'[k].status = "queued"
    \/ row[k].status \in {"queued", "running"} /\ row'[k].status \in {"running", "failed"}
    \/ row[k].status = "running" /\ row'[k].status \in {"awaiting_review", "done"}
    \/ row[k].status \in {"done", "failed"} /\ row'[k].status = "deleted"

LEMMA StatusMoves ==
  ASSUME TypeOK, ClaimInv, [Next]_vars, NEW k \in Jobs
  PROVE  /\ Undisturbed(k)' => Undisturbed(k) /\ Moved(k)
         /\ row[k].status = "deleted" => row'[k].status = "deleted"
<1>1. CASE UNCHANGED vars
  BY <1>1 DEF vars, Moved, Undisturbed
<1>2. CASE ApiStep \/ \E j \in Jobs : Age(j)
  <2>1. late \subseteq late' /\ UNCHANGED lapsed
    BY <1>2, ApiDoes
  <2>2. \/ row'[k].status = row[k].status
        \/ row[k].status = "absent" /\ row'[k].status = "queued"
        \/ row[k].status = "done" /\ row'[k].status = "deleted"
        \/ /\ row'[k].status = "queued" /\ Live(k)
           /\ row[k].status = "awaiting_review" \/ k \in late'
    BY <1>2, ApiDoes DEF Same, Becomes, Entered, Reviewed
  <2>. QED
    BY <2>1, <2>2 DEF Moved, Undisturbed, Live
<1>3. ASSUME NEW w \in Workers, ClaimStep(w)
      PROVE  /\ Undisturbed(k)' => Undisturbed(k) /\ Moved(k)
             /\ row[k].status = "deleted" => row'[k].status = "deleted"
  <2>1. late' = late /\ lapsed \subseteq lapsed'
    BY <1>3, ClaimStepDoes DEF Claims
  <2>2. \/ row'[k].status = row[k].status
        \/ /\ row[k].status \in {"queued", "running"}
           /\ row'[k].status \in {"running", "failed"}
    BY <1>3, ClaimStepDoes DEF Claims, OtherRows, Eligible, Stale
  <2>. QED
    BY <2>1, <2>2 DEF Moved, Undisturbed
<1>4. ASSUME NEW w \in Workers, PipelineStep(w)
      PROVE  /\ Undisturbed(k)' => Undisturbed(k) /\ Moved(k)
             /\ row[k].status = "deleted" => row'[k].status = "deleted"
  <2>. DEFINE j == job[w]
  <2>1. /\ j \in Jobs /\ Working(w, j) /\ OtherRows(j)
        /\ UNCHANGED <<lapsed, late>> /\ (Live(j) \/ UNCHANGED row)
    BY <1>4, PipelineFrame
  <2>2. \/ row'[j].status = row[j].status
        \/ row'[j].status \in {"awaiting_review", "done"}
    <3>1. CASE AwaitReview(w) \/ FinishRun(w)
      BY <3>1, AwaitReviewDoes, FinishRunDoes DEF Becomes
    <3>2. CASE RunMeasuredExecute(w) \/ StepRaises(w)
      BY <3>2, RunMeasuredExecuteDoes, StepRaisesDoes
    <3>3. CASE ResetRun(w)
      BY <3>3, ResetRunDoes DEF Becomes
    <3>4. CASE ResetMeasure(w) \/ StartStep(w)
      BY <3>4, ResetMeasureDoes, StartStepDoes DEF Becomes, Same
    <3>5. CASE CompleteStep(w)
      BY <3>5, CompleteStepDoes DEF Becomes
    <3>6. CASE \E usable \in BOOLEAN : GenerateKyc(w, usable)
      BY <3>6, GenerateKycDoes DEF Becomes
    <3>. QED
      BY <1>4, <3>1, <3>2, <3>3, <3>4, <3>5, <3>6 DEF PipelineStep
  <2>3. Undisturbed(j) => row[j].status = "running"
    BY <2>1 DEF ClaimInv, WorkingRuns
  <2>4. Undisturbed(k)' <=> Undisturbed(k)
    BY <2>1 DEF Undisturbed
  <2>5. CASE k # j
    BY <2>1, <2>4, <2>5 DEF OtherRows, Moved
  <2>6. CASE k = j
    BY <2>1, <2>2, <2>3, <2>4, <2>6 DEF Moved, Live
  <2>. QED
    BY <2>5, <2>6
<1>5. ASSUME NEW w \in Workers, AfterStep(w) \/ Crash(w)
      PROVE  /\ Undisturbed(k)' => Undisturbed(k) /\ Moved(k)
             /\ row[k].status = "deleted" => row'[k].status = "deleted"
  <2>. DEFINE j == job[w]
  <2>1. UNCHANGED <<lapsed, late>> /\ (Undisturbed(k)' <=> Undisturbed(k))
    BY <1>5, AfterFrame DEF Undisturbed
  <2>2. CASE UNCHANGED row
    BY <2>1, <2>2 DEF Moved
  <2>3. CASE RecordFailure(w) /\ j \in Jobs /\ OtherRows(j) /\ ~UNCHANGED row
    <3>1. Live(j) /\ row'[j].status = "failed" /\ Working(w, j)
      BY <2>3, RecordFailureDoes DEF Becomes, RecordFailure, Working, RunPcs
    <3>2. Undisturbed(j) => row[j].status = "running"
      BY <2>3, <3>1 DEF ClaimInv, WorkingRuns
    <3>. QED
      BY <2>1, <2>3, <3>1, <3>2 DEF OtherRows, Moved, Live
  <2>4. CASE /\ pc[w] = "purge" /\ j \in Jobs /\ OtherRows(j)
             /\ row'[j].status = "deleted"
    <3>1. Undisturbed(j) => row[j].status \in {"failed", "deleted"}
      BY <2>4 DEF ClaimInv, PurgeIsOfFailure, FailureStands, AfterPcs
    <3>. QED
      BY <2>1, <2>4, <3>1 DEF OtherRows, Moved
  <2>. QED
    BY <1>5, <2>2, <2>3, <2>4, AfterFrame
<1>. QED
  BY <1>1, <1>2, <1>3, <1>4, <1>5 DEF Next, WorkerStep

\* A finished run is never put back, failed or restarted, and a deleted row
\* never returns, whatever workers, crashes and undisturbed requests do.
THEOREM DoneStaysDone == Spec => DoneIsFinal
<1>1. TypeOK /\ ClaimInv /\ [Next]_vars =>
        [\A j \in Jobs :
            /\ row[j].status = "done" /\ j \notin lapsed' \cup late'
               => row'[j].status \in {"done", "deleted"}
            /\ row[j].status = "deleted" => row'[j].status = "deleted"]_vars
  BY StatusMoves DEF Moved, Undisturbed
<1>. QED
  BY <1>1, TypeCorrect, ClaimInvariant, PTL DEF Spec, DoneIsFinal

-----------------------------------------------------------------------------
(***************************************************************************)
(* The phases of a run: what a finished row and a row under review hold.   *)
(***************************************************************************)
LEMMA StepOrder ==
    /\ Steps = {"discovery", "kyc", "prompts", "execute", "footprint", "scoring"}
    /\ NextStep["discovery"] = "kyc" /\ NextStep["kyc"] = "prompts"
    /\ NextStep["prompts"] = "execute" /\ NextStep["execute"] = "footprint"
    /\ NextStep["footprint"] = "scoring"
  BY DEF Steps, ProgressAfter, NextStep

\* A worker that takes no step is left alone by all the others.
LEMMA WorkerRests ==
  ASSUME TypeOK, [Next]_vars, NEW w \in Workers, ~Acts(w)
  PROVE  Rests(w)
<1>1. CASE UNCHANGED vars
  BY <1>1 DEF vars, Rests
<1>2. CASE ApiStep \/ \E k \in Jobs : Age(k)
  BY <1>2, ApiDoes DEF Rests
<1>3. ASSUME NEW u \in Workers, Acts(u), u # w PROVE Rests(w)
  <2>1. OthersRest(u)
    BY <1>3, ClaimStepDoes, PipelineFrame, AfterFrame DEF Acts, WorkerStep, Claims
  <2>. QED
    BY <1>3, <2>1 DEF OthersRest
<1>. QED
  BY <1>1, <1>2, <1>3 DEF Next, Acts

\* One step of the pipeline keeps the phase of its own run.
LEMMA PhaseOfRun ==
  ASSUME TypeOK, NEW w \in Workers, PipelineStep(w), NEW j \in Jobs, job[w] = j,
         PhaseOf(w, j), Working(w, j)'
  PROVE  PhaseOf(w, j)'
<1>0. /\ job'[w] = j /\ pc'[w] \in RunPcs
      /\ step[w] \in Steps /\ AnswersPrice \in Nat /\ KycPrice \in Nat
      /\ row[j] \in Rows /\ due[w] \in Nat
  BY PipelineFrame, Holding, QueueAssumption DEF Working, RunPcs
<1>. DEFINE Kept ==
       /\ view'[w].progress = row'[j].progress /\ view'[w].kycCost = row'[j].kycCost
       /\ pc'[w] \in {"start", "work", "complete"} =>
             /\ row'[j].answers = IF step'[w] \in {"footprint", "scoring"}
                                  THEN AnswersPrice ELSE 0
             /\ step'[w] \in MeasureSteps => row'[j].prompts # "none"
             /\ step'[w] = "prompts" => row'[j].kyc
       /\ pc'[w] = "complete" /\ step'[w] = "kyc" => row'[j].kyc
       /\ pc'[w] = "complete" /\ step'[w] = "execute" => due'[w] = AnswersPrice
       /\ pc'[w] = "pause" => /\ j \in Guided /\ row'[j].progress = PromptsDone
                              /\ row'[j].kyc /\ row'[j].prompts # "none"
<1>. SUFFICES Kept
  BY <1>0 DEF PhaseOf, InStep, IsGuidedMeasureJob
<1>1. CASE ResetRun(w)
  <2>1. /\ Becomes(j, row[j].status, row[j].progress, row[j].kyc,
                   Emit(0, view[w].kycCost, row[j].kycCost), "none", 0)
        /\ GoesTo(w, "start", "discovery")
        /\ view'[w].progress = view[w].progress /\ view'[w].kycCost = 0
    BY <1>1, ResetRunDoes
  <2>. QED
    BY <2>1 DEF Becomes, GoesTo, PhaseOf, Emit, MeasureSteps
<1>2. CASE ResetMeasure(w)
  <2>1. /\ Becomes(j, row[j].status, row[j].progress, row[j].kyc, row[j].kycCost,
                   row[j].prompts, 0)
        /\ IF row[j].prompts = "none" THEN GoesTo(w, "fail", step[w])
                                      ELSE GoesTo(w, "start", "execute")
        /\ view'[w] = view[w] /\ due'[w] = due[w]
    BY <1>2, ResetMeasureDoes
  <2>. QED
    BY <2>1 DEF Becomes, GoesTo, PhaseOf
<1>3. CASE StartStep(w)
  <2>1. /\ Same(j) /\ pc[w] = "start"
        /\ GoesTo(w, IF step[w] \in {"kyc", "execute"} THEN "work" ELSE "complete",
                  step[w])
        /\ view'[w] = view[w] /\ due'[w] = due[w]
    BY <1>3, StartStepDoes DEF StartStep
  <2>. QED
    BY <2>1 DEF Same, Becomes, GoesTo, PhaseOf, InStep
<1>4. ASSUME NEW usable \in BOOLEAN, GenerateKyc(w, usable)
      PROVE  Kept
  <2>1. /\ Becomes(j, row[j].status, row[j].progress, usable \/ row[j].kyc,
                   Emit(KycPrice, view[w].kycCost, row[j].kycCost),
                   row[j].prompts, row[j].answers)
        /\ GoesTo(w, IF usable THEN "complete" ELSE "fail", "kyc")
        /\ view'[w].progress = view[w].progress /\ view'[w].kycCost = KycPrice
        /\ pc[w] = "work" /\ step[w] = "kyc"
    BY <1>4, GenerateKycDoes DEF GenerateKyc
  <2>. QED
    BY <1>0, <2>1 DEF Becomes, GoesTo, PhaseOf, InStep, Emit, MeasureSteps
<1>5. CASE RunMeasuredExecute(w)
  <2>1. /\ UNCHANGED row /\ GoesTo(w, "complete", "execute")
        /\ view'[w] = view[w] /\ due'[w] = AnswersPrice
        /\ pc[w] = "work" /\ step[w] = "execute"
    BY <1>5, RunMeasuredExecuteDoes DEF RunMeasuredExecute
  <2>. QED
    BY <2>1 DEF GoesTo, PhaseOf, InStep
<1>6. CASE CompleteStep(w)
  <2>. DEFINE s == step[w]
              p == Emit(ProgressAfter[s], view[w].progress, row[j].progress)
              q == IF s = "prompts" THEN "generated" ELSE row[j].prompts
              a == IF s = "execute" THEN row[j].answers + due[w] ELSE row[j].answers
  <2>1. /\ Becomes(j, row[j].status, p, row[j].kyc, row[j].kycCost, q, a)
        /\ IF Pauses(j, s) THEN GoesTo(w, "pause", s) ELSE GoesTo(w, "start", NextStep[s])
        /\ view'[w].progress = ProgressAfter[s] /\ view'[w].kycCost = view[w].kycCost
        /\ pc[w] = "complete" /\ s # "scoring"
    BY <1>6, CompleteStepDoes DEF CompleteStep
  <2>2. p = ProgressAfter[s] /\ view[w].kycCost = row[j].kycCost
    BY DEF PhaseOf, Emit
  <2>3. /\ row[j].answers = IF s \in {"footprint", "scoring"} THEN AnswersPrice ELSE 0
        /\ s \in MeasureSteps => row[j].prompts # "none"
        /\ s = "prompts" => row[j].kyc
        /\ s = "kyc" => row[j].kyc
        /\ s = "execute" => due[w] = AnswersPrice
    BY <2>1 DEF PhaseOf, InStep
  <2>4. CASE Pauses(j, s)
    <3>1. s = "prompts" /\ j \in Guided
      BY <2>4 DEF Pauses
    <3>2. pc'[w] = "pause" /\ q = "generated" /\ p = PromptsDone
      BY <2>1, <2>2, <2>4, <3>1 DEF GoesTo, PromptsDone
    <3>. HIDE DEF p, q, a
    <3>. QED
      BY <2>1, <2>2, <2>3, <3>1, <3>2 DEF Becomes
  <2>5. CASE ~Pauses(j, s)
    <3>1. pc'[w] = "start" /\ step'[w] = NextStep[s]
      BY <2>1, <2>5 DEF GoesTo
    <3>2. /\ a = IF NextStep[s] \in {"footprint", "scoring"} THEN AnswersPrice ELSE 0
          /\ NextStep[s] \in MeasureSteps => q # "none"
          /\ NextStep[s] = "prompts" => row[j].kyc
      BY <1>0, <2>1, <2>3, StepOrder DEF MeasureSteps
    <3>. HIDE DEF p, q, a
    <3>. QED
      BY <2>1, <2>2, <3>1, <3>2 DEF Becomes
  <2>. QED
    BY <2>4, <2>5
<1>7. CASE StepRaises(w)
  BY <1>7, StepRaisesDoes DEF GoesTo, PhaseOf
<1>8. CASE AwaitReview(w) \/ FinishRun(w)
  BY <1>0, <1>8, AwaitReviewDoes, FinishRunDoes DEF GoesTo, RunPcs
<1>. QED
  BY <1>1, <1>2, <1>3, <1>4, <1>5, <1>6, <1>7, <1>8 DEF PipelineStep

LEMMA PhasesKept ==
  ASSUME TypeOK, ClaimInv, PhasesHold, [Next]_vars
  PROVE  PhasesHold'
<1>. SUFFICES ASSUME NEW w \in Workers, NEW j \in Jobs, Working(w, j)', Undisturbed(j)'
              PROVE  PhaseOf(w, j)'
  BY DEF PhasesHold
<1>1. Undisturbed(j)
  BY StatusMoves
<1>2. CASE ~Acts(w)
  <2>1. Working(w, j)
    BY <1>2, WorkerRests DEF Rests, Working
  <2>2. Same(j) /\ Rests(w) /\ PhaseOf(w, j)
    BY <1>1, <1>2, <2>1, Untouched DEF PhasesHold
  <2>. QED
    BY <2>2 DEF Same, Becomes, Rests, PhaseOf, InStep, IsGuidedMeasureJob
<1>3. CASE ClaimStep(w)
  <2>1. Claims(w, j) /\ pc'[w] \in {"reset", "measure_reset"}
        /\ view'[w].progress = row[j].progress /\ view'[w].kycCost = row[j].kycCost
    BY <1>3, ClaimStepDoes, QueueAssumption DEF Claims, Working, RunPcs
  <2>2. row'[j].progress = row[j].progress /\ row'[j].kycCost = row[j].kycCost
    BY <2>1 DEF Claims
  <2>. QED
    BY <2>1, <2>2 DEF PhaseOf, InStep
<1>4. CASE PipelineStep(w)
  <2>1. job[w] = j /\ Working(w, j)
    BY <1>4, PipelineFrame DEF Working
  <2>. QED
    BY <1>1, <1>4, <2>1, PhaseOfRun DEF PhasesHold
<1>5. CASE AfterStep(w) \/ Crash(w)
  BY <1>5, AfterFrame
<1>. QED
  BY <1>2, <1>3, <1>4, <1>5 DEF Acts, WorkerStep

\* Rows that wait for review or are finished keep what they hold; a row gets
\* there from a run whose phase says what it holds.
LEMMA RestingRowsKept ==
  ASSUME TypeOK, ClaimInv, PhaseInv, [Next]_vars
  PROVE  ReviewIsResumable' /\ OnePassOfAnswers'
<1>. DEFINE Resumable(k) == /\ row[k].progress = PromptsDone /\ row[k].kyc
                            /\ k \in Guided /\ row[k].prompts # "none"
            OnePass(k) == /\ row[k].answers = AnswersPrice /\ row[k].progress = 100
                          /\ row[k].prompts # "none"
            Shown(k) == /\ row[k].status = "awaiting_review" => Resumable(k)
                        /\ row[k].status = "done" => OnePass(k)
<1>. SUFFICES ASSUME NEW k \in Jobs, Undisturbed(k)'
              PROVE  Shown(k)'
  BY DEF ReviewIsResumable, OnePassOfAnswers, IsGuidedMeasureJob
<1>1. Undisturbed(k) /\ Shown(k)
  <2>1. Undisturbed(k)
    BY StatusMoves
  <2>. QED
    BY <2>1 DEF PhaseInv, ReviewIsResumable, OnePassOfAnswers, IsGuidedMeasureJob
<1>2. CASE Same(k)
  BY <1>1, <1>2 DEF Same, Becomes
<1>3. CASE row'[k].status \notin {"awaiting_review", "done"}
  BY <1>3
<1>4. CASE ApiStep \/ \E j \in Jobs : Age(j)
  <2>1. CASE Reviewed(k)
    <3>1. row[k].status = "awaiting_review"
      BY <2>1 DEF Reviewed, Undisturbed
    <3>. QED
      BY <1>1, <2>1, <3>1 DEF Reviewed, Becomes
  <2>. QED
    BY <1>2, <1>3, <1>4, <2>1, ApiDoes DEF Entered
<1>5. ASSUME NEW w \in Workers, ClaimStep(w) PROVE Shown(k)'
  BY <1>1, <1>5, ClaimStepDoes DEF Claims, OtherRows
<1>6. ASSUME NEW w \in Workers, PipelineStep(w), ~Same(k),
             row'[k].status \in {"awaiting_review", "done"}
      PROVE  Shown(k)'
  <2>1. Working(w, job[w]) /\ OtherRows(job[w]) /\ job[w] = k
    BY <1>6, PipelineFrame DEF OtherRows, Same, Becomes
  <2>2. PhaseOf(w, k) /\ row[k].status = "running"
    BY <1>1, <2>1 DEF PhaseInv, PhasesHold, ClaimInv, WorkingRuns
  <2>3. CASE AwaitReview(w)
    <3>1. /\ Becomes(k, "awaiting_review", row[k].progress, row[k].kyc, row[k].kycCost,
                     row[k].prompts, row[k].answers)
          /\ pc[w] = "pause"
      BY <2>1, <2>3, AwaitReviewDoes DEF AwaitReview
    <3>. QED
      BY <2>2, <3>1 DEF Becomes, PhaseOf, IsGuidedMeasureJob
  <2>4. CASE FinishRun(w)
    <3>1. /\ Becomes(k, "done", Emit(100, view[w].progress, row[k].progress),
                     row[k].kyc, row[k].kycCost, row[k].prompts, row[k].answers)
          /\ pc[w] = "complete" /\ step[w] = "scoring"
      BY <2>1, <2>4, FinishRunDoes DEF FinishRun
    <3>2. /\ row[k].answers = AnswersPrice /\ row[k].prompts # "none"
          /\ view[w].progress = row[k].progress
      BY <2>2, <3>1 DEF PhaseOf, InStep, MeasureSteps
    <3>. QED
      BY <3>1, <3>2 DEF Becomes, Emit
  <2>5. CASE ResetRun(w)
    BY <1>6, <2>1, <2>2, <2>5, ResetRunDoes DEF Becomes
  <2>6. CASE ResetMeasure(w) \/ StartStep(w)
    BY <1>6, <2>1, <2>2, <2>6, ResetMeasureDoes, StartStepDoes DEF Becomes, Same
  <2>7. CASE \E usable \in BOOLEAN : GenerateKyc(w, usable)
    BY <1>6, <2>1, <2>2, <2>7, GenerateKycDoes DEF Becomes
  <2>8. CASE CompleteStep(w)
    BY <1>6, <2>1, <2>2, <2>8, CompleteStepDoes DEF Becomes
  <2>9. CASE RunMeasuredExecute(w) \/ StepRaises(w)
    BY <1>6, <2>9, RunMeasuredExecuteDoes, StepRaisesDoes DEF Same, Becomes
  <2>. QED
    BY <1>6, <2>3, <2>4, <2>5, <2>6, <2>7, <2>8, <2>9 DEF PipelineStep
<1>7. ASSUME NEW w \in Workers, AfterStep(w) \/ Crash(w), ~Same(k) PROVE Shown(k)'
  <2>1. job[w] = k /\ row'[k].status \in {"failed", "deleted"}
    BY <1>7, AfterFrame, RecordFailureDoes DEF OtherRows, Same, Becomes
  <2>. QED
    BY <2>1
<1>8. CASE UNCHANGED vars
  BY <1>2, <1>8 DEF vars, Same, Becomes
<1>. QED
  BY <1>2, <1>3, <1>4, <1>5, <1>6, <1>7, <1>8 DEF Next, WorkerStep

LEMMA PhaseInvariant == Spec => []PhaseInv
<1>1. Init => PhaseInv
  BY DEF Init, PhaseInv, PhasesHold, ReviewIsResumable, OnePassOfAnswers, Working, RunPcs,
         BlankRow
<1>2. TypeOK /\ ClaimInv /\ PhaseInv /\ [Next]_vars => PhaseInv'
  BY PhasesKept, RestingRowsKept DEF PhaseInv
<1>. QED
  BY <1>1, <1>2, TypeCorrect, ClaimInvariant, PTL DEF Spec

\* A finished analysis holds the answers of one pass over its prompts, however
\* many attempts were interrupted before, for any number of workers and clients.
THEOREM AnswersAreOfOnePass == Spec => []OnePassOfAnswers
<1>1. PhaseInv => OnePassOfAnswers
  BY DEF PhaseInv
<1>. QED
  BY <1>1, PhaseInvariant, PTL

-----------------------------------------------------------------------------
(***************************************************************************)
(* The review gate.                                                        *)
(***************************************************************************)
LEMMA StartsAtDiscoveryKept ==
  ASSUME TypeOK, StartsAtDiscovery, [Next]_vars
  PROVE  StartsAtDiscovery'
<1>. DEFINE Early == {"idle", "claim_hint", "claim_next", "reset", "measure_reset"}
<1>. SUFFICES ASSUME NEW w \in Workers, pc'[w] \in Early
              PROVE  step'[w] = "discovery"
  BY DEF StartsAtDiscovery
<1>1. CASE ~Acts(w)
  BY <1>1, WorkerRests DEF Rests, StartsAtDiscovery
<1>2. CASE ClaimStep(w)
  BY <1>2, ClaimStepDoes DEF Claims, StartsAtDiscovery
<1>3. CASE AfterStep(w) \/ Crash(w)
  BY <1>3, AfterFrame DEF AfterPcs
<1>4. CASE PipelineStep(w)
  BY <1>4, ResetRunDoes, ResetMeasureDoes, StartStepDoes, GenerateKycDoes,
     RunMeasuredExecuteDoes, CompleteStepDoes, AwaitReviewDoes, FinishRunDoes,
     StepRaisesDoes DEF PipelineStep, GoesTo
<1>. QED
  BY <1>1, <1>2, <1>3, <1>4 DEF Acts, WorkerStep

\* A worker leaves a running row only by changing it, or by a crash.
LEMMA RunningIsWorkedKept ==
  ASSUME TypeOK, ClaimInv, RunningIsWorked, [Next]_vars
  PROVE  RunningIsWorked'
<1>. SUFFICES ASSUME NEW j \in Jobs, j \notin mishap', row'[j].status = "running",
                     Undisturbed(j)'
              PROVE  \E w \in Workers : Working(w, j)'
  BY DEF RunningIsWorked
<1>1. Undisturbed(j) /\ j \notin mishap
  <2>1. mishap \subseteq mishap'
    BY ApiDoes, ClaimStepDoes, PipelineFrame, AfterFrame DEF Next, WorkerStep, vars
  <2>. QED
    BY <2>1, StatusMoves
<1>2. CASE row[j].status # "running"
  <2>1. ASSUME NEW w \in Workers, ClaimStep(w) PROVE Working(w, j)'
    BY <1>2, <2>1, ClaimStepDoes DEF Claims, OtherRows, Working, RunPcs
  <2>2. ~(ApiStep \/ \E k \in Jobs : Age(k))
    BY <1>2, ApiDoes DEF Same, Becomes, Entered, Reviewed
  <2>3. ASSUME NEW w \in Workers, PipelineStep(w) PROVE FALSE
    <3>1. Working(w, job[w]) /\ OtherRows(job[w]) /\ job[w] = j
      BY <1>2, <2>3, PipelineFrame DEF OtherRows
    <3>. QED
      BY <1>1, <1>2, <3>1 DEF ClaimInv, WorkingRuns
  <2>4. ASSUME NEW w \in Workers, AfterStep(w) \/ Crash(w) PROVE FALSE
    BY <1>2, <2>4, AfterFrame, RecordFailureDoes DEF OtherRows, Becomes
  <2>. QED
    BY <1>2, <2>1, <2>2, <2>3, <2>4 DEF Next, WorkerStep, vars
<1>3. CASE row[j].status = "running"
  <2>1. PICK w \in Workers : Working(w, j)
    BY <1>1, <1>3 DEF RunningIsWorked
  <2>2. CASE ~Acts(w)
    BY <2>1, <2>2, WorkerRests DEF Rests, Working
  <2>3. CASE ClaimStep(w)
    BY <2>1, <2>3, ClaimStepDoes DEF Claims, Working, RunPcs
  <2>4. CASE PipelineStep(w)
    <3>1. CASE AwaitReview(w) \/ FinishRun(w)
      BY <2>1, <3>1, AwaitReviewDoes, FinishRunDoes DEF Becomes, Working
    <3>2. CASE ~(AwaitReview(w) \/ FinishRun(w))
      BY <2>1, <2>4, <3>2, ResetRunDoes, ResetMeasureDoes, StartStepDoes, GenerateKycDoes,
         RunMeasuredExecuteDoes, CompleteStepDoes, StepRaisesDoes
         DEF PipelineStep, GoesTo, Working, RunPcs
    <3>. QED
      BY <3>1, <3>2
  <2>5. CASE AfterStep(w)
    <3>1. RecordFailure(w)
      BY <2>1, <2>5 DEF AfterStep, RecordTerminalEvent, SettleCost, RecordCharge,
         PurgeFailed, Working, RunPcs
    <3>. QED
      BY <1>3, <2>1, <3>1, RecordFailureDoes DEF Becomes, Working, Live
  <2>6. CASE Crash(w)
    BY <2>1, <2>6 DEF Crash, Working
  <2>. QED
    BY <2>2, <2>3, <2>4, <2>5, <2>6 DEF Acts, WorkerStep
<1>. QED
  BY <1>2, <1>3

\* A step of a guided run buys or keeps answers only for what was approved.
LEMMA MeasuringRun ==
  ASSUME TypeOK, NEW w \in Workers, PipelineStep(w), NEW j \in Guided, job[w] = j,
         Measuring(w) => Approved(j), Working(w, j)', Measuring(w)'
  PROVE  Approved(j)'
<1>0. /\ pc'[w] \in RunPcs /\ step[w] \in Steps /\ approved'[j] = approved[j]
      /\ step'[w] \in MeasureSteps \/ pc'[w] = "measure_reset"
  BY PipelineFrame, Holding DEF Working, Measuring, RunPcs
<1>. SUFFICES Measuring(w) /\ row'[j].prompts = row[j].prompts
  BY <1>0 DEF Approved
<1>1. CASE ResetRun(w)
  BY <1>0, <1>1, ResetRunDoes DEF GoesTo, MeasureSteps
<1>2. CASE ResetMeasure(w)
  BY <1>2, ResetMeasureDoes DEF Becomes, Measuring, ResetMeasure
<1>3. CASE StartStep(w)
  BY <1>0, <1>3, StartStepDoes DEF Same, Becomes, GoesTo, Measuring
<1>4. CASE \E usable \in BOOLEAN : GenerateKyc(w, usable)
  BY <1>0, <1>4, GenerateKycDoes DEF GoesTo, MeasureSteps
<1>5. CASE RunMeasuredExecute(w)
  BY <1>5, RunMeasuredExecuteDoes DEF Measuring, MeasureSteps, RunMeasuredExecute
<1>6. CASE CompleteStep(w)
  <2>. DEFINE s == step[w]
              p == Emit(ProgressAfter[s], view[w].progress, row[j].progress)
              q == IF s = "prompts" THEN "generated" ELSE row[j].prompts
              a == IF s = "execute" THEN row[j].answers + due[w] ELSE row[j].answers
  <2>1. /\ Becomes(j, row[j].status, p, row[j].kyc, row[j].kycCost, q, a)
        /\ IF Pauses(j, s) THEN GoesTo(w, "pause", s) ELSE GoesTo(w, "start", NextStep[s])
        /\ s # "scoring"
    BY <1>6, CompleteStepDoes DEF CompleteStep
  <2>2. s # "prompts"
    BY <1>0, <2>1 DEF Pauses, GoesTo, MeasureSteps
  <2>3. s \in {"execute", "footprint"}
    BY <1>0, <2>1, <2>2, StepOrder DEF Pauses, GoesTo, MeasureSteps
  <2>. HIDE DEF p, a
  <2>. QED
    BY <2>1, <2>2, <2>3 DEF Becomes, Measuring, MeasureSteps
<1>7. CASE StepRaises(w)
  BY <1>0, <1>7, StepRaisesDoes DEF GoesTo, Measuring
<1>8. CASE AwaitReview(w) \/ FinishRun(w)
  BY <1>0, <1>8, AwaitReviewDoes, FinishRunDoes DEF GoesTo, RunPcs
<1>. QED
  BY <1>1, <1>2, <1>3, <1>4, <1>5, <1>6, <1>7, <1>8 DEF PipelineStep

LEMMA ApprovalHoldsKept ==
  ASSUME TypeOK, ClaimInv, ReviewIsResumable, ApprovalInv, [Next]_vars
  PROVE  ApprovalHolds'
<1>. USE QueueAssumption
<1>. SUFFICES ASSUME NEW j \in Guided, j \notin mishap', Undisturbed(j)'
              PROVE  /\ row'[j].status = "queued" /\ IsGuidedMeasureJob(j)' => Approved(j)'
                     /\ \A w \in Workers : Working(w, j)' /\ Measuring(w)' => Approved(j)'
  BY DEF ApprovalHolds
<1>1. j \in Jobs /\ Undisturbed(j) /\ j \notin mishap
  <2>1. mishap \subseteq mishap'
    BY ApiDoes, ClaimStepDoes, PipelineFrame, AfterFrame DEF Next, WorkerStep, vars
  <2>. QED
    BY <2>1, StatusMoves
<1>2. row'[j].status = "queued" /\ IsGuidedMeasureJob(j)' => Approved(j)'
  <2>. SUFFICES ASSUME row'[j].status = "queued", IsGuidedMeasureJob(j)'
                PROVE  Approved(j)'
    OBVIOUS
  <2>1. CASE Same(j) /\ approved'[j] = approved[j]
    BY <1>1, <2>1
       DEF ApprovalInv, ApprovalHolds, Same, Becomes, IsGuidedMeasureJob, Approved
  <2>2. CASE ApiStep \/ \E k \in Jobs : Age(k)
    <3>1. ~Entered(j)
      BY DEF Entered, IsGuidedMeasureJob, PromptsDone, ProgressAfter
    <3>2. CASE Reviewed(j)
      <4>1. row[j].status = "awaiting_review"
        BY <3>2 DEF Reviewed, Undisturbed
      <4>2. row[j].prompts # "none"
        BY <1>1, <4>1 DEF ReviewIsResumable
      <4>. QED
        BY <3>2, <4>1, <4>2 DEF Reviewed, Becomes, Approved
    <3>. QED
      BY <1>1, <2>1, <2>2, <3>1, <3>2, ApiDoes
  <2>3. ASSUME NEW w \in Workers, ClaimStep(w) PROVE Approved(j)'
    BY <1>1, <2>1, <2>3, ClaimStepDoes DEF Claims, OtherRows, Same, Becomes
  <2>4. ASSUME NEW w \in Workers, PipelineStep(w) PROVE Approved(j)'
    <3>1. Working(w, job[w]) /\ OtherRows(job[w]) /\ approved' = approved
      BY <2>4, PipelineFrame
    <3>2. job[w] # j
      BY <1>1, <3>1, StatusMoves DEF ClaimInv, WorkingRuns, Moved
    <3>. QED
      BY <1>1, <2>1, <3>1, <3>2 DEF OtherRows, Same, Becomes
  <2>5. ASSUME NEW w \in Workers, AfterStep(w) \/ Crash(w) PROVE Approved(j)'
    BY <1>1, <2>1, <2>5, AfterFrame, RecordFailureDoes DEF OtherRows, Same, Becomes
  <2>6. CASE UNCHANGED vars
    BY <2>1, <2>6 DEF vars, Same, Becomes
  <2>. QED
    BY <2>2, <2>3, <2>4, <2>5, <2>6 DEF Next, WorkerStep
<1>3. ASSUME NEW w \in Workers, Working(w, j)', Measuring(w)' PROVE Approved(j)'
  <2>1. CASE ~Acts(w)
    <3>1. Working(w, j)
      BY <1>3, <2>1, WorkerRests DEF Rests, Working
    <3>2. Same(j) /\ Rests(w) /\ approved'[j] = approved[j]
      BY <1>1, <2>1, <3>1, Untouched
    <3>3. Measuring(w)
      BY <1>3, <3>2 DEF Rests, Measuring
    <3>. QED
      BY <1>1, <3>1, <3>2, <3>3 DEF ApprovalInv, ApprovalHolds, Same, Becomes, Approved
  <2>2. CASE ClaimStep(w)
    <3>1. /\ Claims(w, j) /\ row'[j].status = "running" /\ approved' = approved
          /\ pc'[w] = IF IsGuidedMeasureJob(j) THEN "measure_reset" ELSE "reset"
      BY <1>1, <1>3, <2>2, ClaimStepDoes DEF Claims, Working, RunPcs
    <3>2. step'[w] = "discovery"
      BY <3>1 DEF Claims, ApprovalInv, StartsAtDiscovery
    <3>3. IsGuidedMeasureJob(j)
      BY <1>3, <3>1, <3>2 DEF Measuring, MeasureSteps
    <3>4. row[j].status = "queued"
      BY <1>1, <3>1
         DEF Claims, Eligible, Stale, Undisturbed, ApprovalInv, RunningIsWorked
    <3>5. Approved(j)
      BY <1>1, <3>3, <3>4 DEF ApprovalInv, ApprovalHolds
    <3>. QED
      BY <3>1, <3>5 DEF Claims, Approved
  <2>3. CASE PipelineStep(w)
    <3>1. job[w] = j /\ Working(w, j)
      BY <1>3, <2>3, PipelineFrame DEF Working
    <3>2. Measuring(w) => Approved(j)
      BY <1>1, <3>1 DEF ApprovalInv, ApprovalHolds
    <3>. QED
      BY <1>3, <2>3, <3>1, <3>2, MeasuringRun
  <2>4. CASE AfterStep(w) \/ Crash(w)
    BY <1>1, <1>3, <2>4, AfterFrame
  <2>. QED
    BY <2>1, <2>2, <2>3, <2>4 DEF Acts, WorkerStep
<1>. QED
  BY <1>2, <1>3

LEMMA ApprovalInvariant == Spec => []ApprovalInv
<1>1. Init => ApprovalInv
  BY QueueAssumption
     DEF Init, ApprovalInv, StartsAtDiscovery, RunningIsWorked, ApprovalHolds, Working,
         RunPcs, BlankRow
<1>2. TypeOK /\ ClaimInv /\ PhaseInv /\ ApprovalInv /\ [Next]_vars => ApprovalInv'
  BY StartsAtDiscoveryKept, RunningIsWorkedKept, ApprovalHoldsKept
     DEF ApprovalInv, PhaseInv
<1>. QED
  BY <1>1, <1>2, TypeCorrect, ClaimInvariant, PhaseInvariant, PTL DEF Spec

\* The review is a gate for every number of workers and clients: a paused run can
\* be resumed, and its answers are bought only after an approval and for the
\* prompts that approval was about.
THEOREM ReviewIsAGate == Spec => []ReviewGate
<1>1. PhaseInv /\ ApprovalInv => ReviewGate
  <2>. SUFFICES ASSUME PhaseInv, ApprovalInv, NEW w \in Workers, NEW j \in Guided,
                       j \notin mishap, Undisturbed(j), Working(w, j),
                       step[w] \in MeasureSteps
                PROVE  approved[j] # "none" /\ row[j].prompts = approved[j]
    BY DEF ReviewGate, ApprovalRespected, PhaseInv
  <2>. QED
    BY DEF ApprovalInv, ApprovalHolds, Measuring, Approved
<1>. QED
  BY <1>1, PhaseInvariant, ApprovalInvariant, PTL

-----------------------------------------------------------------------------
(***************************************************************************)
(* One outcome.                                                            *)
(***************************************************************************)

\* A step that ends no run and records nothing about a job keeps its outcome.
LEMMA OutcomeKept ==
  ASSUME NEW j \in Jobs, OutcomeOf(j), Moved(j), events'[j] = events[j],
         \A w \in Workers : Ended(w, j)' => Ended(w, j) /\ outcome'[w] = outcome[w]
  PROVE  OutcomeOf(j)'
<1>1. \A w \in Workers : Ended(w, j)' => row[j].status \in {"done", "failed", "deleted"}
  BY DEF OutcomeOf
<1>2. row[j].status \in {"done", "failed", "deleted"} =>
        row'[j].status \in {row[j].status, "deleted"}
  BY DEF Moved
<1>3. \A w \in Workers : Ended(w, j)' =>
         /\ outcome'[w] \in {"done", "failed"}
         /\ row'[j].status \in {outcome'[w], "deleted"}
  BY <1>1, <1>2 DEF OutcomeOf
<1>4. \A v, w \in Workers : Ended(v, j)' /\ Ended(w, j)' => v = w
  BY DEF OutcomeOf
<1>5. "analysis:complete" \in events'[j] =>
         /\ row'[j].status \in {"done", "deleted"}
         /\ \A w \in Workers : Ended(w, j)' => outcome'[w] # "failed"
  BY <1>2 DEF OutcomeOf
<1>6. "analysis:failed" \in events'[j] =>
         /\ row'[j].status \in {"failed", "deleted"}
         /\ \A w \in Workers : Ended(w, j)' => outcome'[w] # "done"
  BY <1>2 DEF OutcomeOf
<1>7. events'[j] # {"analysis:complete", "analysis:failed"}
  BY DEF OutcomeOf
<1>. QED
  BY <1>3, <1>4, <1>5, <1>6, <1>7 DEF OutcomeOf

\* A worker that ends the run of an undisturbed job ends it alone.
LEMMA OutcomeReached ==
  ASSUME TypeOK, ClaimInv, NEW w \in Workers, NEW j \in Jobs, OutcomeOf(j),
         Working(w, j), Undisturbed(j), OthersRest(w),
         NEW o \in {"done", "failed"}, outcome'[w] = o, row'[j].status = o,
         events'[j] = events[j]
  PROVE  OutcomeOf(j)'
<1>1. row[j].status = "running"
  BY DEF ClaimInv, WorkingRuns
<1>2. \A v \in Workers : ~Ended(v, j)
  BY <1>1 DEF OutcomeOf
<1>3. /\ "analysis:complete" \notin events'[j] /\ "analysis:failed" \notin events'[j]
      /\ events'[j] # {"analysis:complete", "analysis:failed"}
  BY <1>1 DEF OutcomeOf
<1>4. \A v \in Workers : Ended(v, j)' => v = w
  BY <1>2 DEF Ended, OthersRest, Rests
<1>. QED
  BY <1>3, <1>4 DEF OutcomeOf

LEMMA OutcomeStep ==
  ASSUME TypeOK, ClaimInv, OutcomeInv, [Next]_vars
  PROVE  OutcomeInv'
<1>. SUFFICES ASSUME NEW j \in Jobs, Undisturbed(j)'
              PROVE  OutcomeOf(j)'
  BY DEF OutcomeInv
<1>1. Undisturbed(j) /\ Moved(j) /\ OutcomeOf(j)
  BY StatusMoves DEF OutcomeInv
<1>2. CASE UNCHANGED <<pc, job, outcome, events>>
  BY <1>1, <1>2, OutcomeKept DEF Ended
<1>3. ASSUME NEW w \in Workers, ClaimStep(w) PROVE OutcomeOf(j)'
  <2>1. UNCHANGED <<events, outcome>> /\ OthersRest(w) /\ pc'[w] # "record"
    BY <1>3, ClaimStepDoes DEF Claims
  <2>. QED
    BY <1>1, <2>1, OutcomeKept DEF Ended, OthersRest, Rests
<1>4. ASSUME NEW w \in Workers, PipelineStep(w) PROVE OutcomeOf(j)'
  <2>1. /\ UNCHANGED events /\ OthersRest(w) /\ Working(w, job[w])
        /\ job'[w] = job[w]
    BY <1>4, PipelineFrame
  <2>2. CASE pc'[w] # "record" \/ job[w] # j
    BY <1>1, <2>1, <2>2, OutcomeKept DEF Ended, OthersRest, Rests
  <2>3. CASE FinishRun(w) /\ job[w] = j
    <3>1. outcome'[w] = "done" /\ row'[j].status = "done"
      BY <2>3, FinishRunDoes DEF Becomes
    <3>. QED
      BY <1>1, <2>1, <2>3, <3>1, OutcomeReached
  <2>4. ~FinishRun(w) => pc'[w] # "record"
    BY <1>4, ResetRunDoes, ResetMeasureDoes, StartStepDoes, GenerateKycDoes,
       RunMeasuredExecuteDoes, CompleteStepDoes, AwaitReviewDoes, StepRaisesDoes
       DEF PipelineStep, GoesTo
  <2>. QED
    BY <2>2, <2>3, <2>4
<1>5. ASSUME NEW w \in Workers, RecordFailure(w) PROVE OutcomeOf(j)'
  <2>1. OthersRest(w) /\ UNCHANGED events /\ job[w] \in Jobs
    BY <1>5, RecordFailureDoes, Holding DEF RecordFailure
  <2>2. CASE pc'[w] # "record" \/ job'[w] # j
    BY <1>1, <2>1, <2>2, OutcomeKept DEF Ended, OthersRest, Rests
  <2>3. CASE pc'[w] = "record" /\ job'[w] = j
    <3>1. /\ outcome'[w] = "failed" /\ row'[job[w]].status = "failed" /\ job[w] = j
          /\ Working(w, j)
      BY <1>5, <2>3, RecordFailureDoes, ReleaseDoes
         DEF Becomes, GoesTo, RecordFailure, Working, RunPcs
    <3>. QED
      BY <1>1, <2>1, <3>1, OutcomeReached
  <2>. QED
    BY <2>2, <2>3
<1>6. ASSUME NEW w \in Workers, RecordTerminalEvent(w) PROVE OutcomeOf(j)'
  <2>. DEFINE action == IF outcome[w] = "failed" THEN "analysis:failed"
                                                 ELSE "analysis:complete"
  <2>1. /\ job[w] \in Jobs /\ UNCHANGED <<row, job, outcome>>
        /\ pc[w] = "record" /\ pc'[w] = "settle" /\ OthersRest(w)
    BY <1>6, Holding
       DEF RecordTerminalEvent, OthersRest, Rests, TypeOK, WorkerTypeOK
  <2>2. \A k \in Jobs \ {job[w]} : events'[k] = events[k]
    BY <1>6 DEF RecordTerminalEvent, TypeOK, HistoryTypeOK
  <2>3. CASE job[w] # j
    BY <1>1, <2>1, <2>2, <2>3, OutcomeKept DEF Ended, OthersRest, Rests
  <2>4. CASE job[w] = j
    <3>1. events'[j] \subseteq events[j] \cup {action}
      BY <1>6, <2>1, <2>4 DEF RecordTerminalEvent, TypeOK, HistoryTypeOK
    <3>2. Ended(w, j)
      BY <2>1, <2>4 DEF Ended
    <3>3. \A v \in Workers : ~Ended(v, j)'
      BY <1>1, <2>1, <3>2 DEF Ended, OutcomeOf, OthersRest, Rests
    <3>4. outcome[w] \in {"done", "failed"} /\ row'[j].status \in {outcome[w], "deleted"}
      BY <1>1, <2>1, <3>2 DEF OutcomeOf
    <3>5. "analysis:complete" \in events'[j] => row'[j].status \in {"done", "deleted"}
      BY <1>1, <2>1, <3>1, <3>4 DEF OutcomeOf
    <3>6. "analysis:failed" \in events'[j] => row'[j].status \in {"failed", "deleted"}
      BY <1>1, <2>1, <3>1, <3>4 DEF OutcomeOf
    <3>7. events'[j] # {"analysis:complete", "analysis:failed"}
      <4>1. CASE outcome[w] = "failed"
        <5>1. "analysis:complete" \notin events[j]
          BY <1>1, <3>2, <4>1 DEF OutcomeOf
        <5>. QED
          BY <3>1, <4>1, <5>1
      <4>2. CASE outcome[w] # "failed"
        <5>1. "analysis:failed" \notin events[j]
          BY <1>1, <3>2, <3>4, <4>2 DEF OutcomeOf
        <5>. QED
          BY <3>1, <4>2, <5>1
      <4>. QED
        BY <4>1, <4>2
    <3>. QED
      BY <3>3, <3>5, <3>6, <3>7 DEF OutcomeOf
  <2>. QED
    BY <2>3, <2>4
<1>7. ASSUME NEW w \in Workers, SettleCost(w) \/ RecordCharge(w) \/ PurgeFailed(w) \/ Crash(w)
      PROVE  OutcomeOf(j)'
  <2>1. OthersRest(w) /\ UNCHANGED events
    BY <1>7, AfterFrame DEF AfterStep, SettleCost, RecordCharge, PurgeFailed, Crash
  <2>2. pc'[w] # "record"
    BY <1>7, ReleaseDoes DEF SettleCost, RecordCharge, PurgeFailed, Crash, AfterSettle,
       TypeOK, WorkerTypeOK
  <2>. QED
    BY <1>1, <2>1, <2>2, OutcomeKept DEF Ended, OthersRest, Rests
<1>. QED
  BY <1>2, <1>3, <1>4, <1>5, <1>6, <1>7, ApiDoes
     DEF Next, WorkerStep, AfterStep, vars

\* No undisturbed analysis has both a completion and a failure in the audit
\* trail, through retries, crashes between outcome and event, and deletions.
THEOREM OutcomesAreSingle == Spec => []OneOutcome
<1>1. Init => OutcomeInv
  BY DEF Init, OutcomeInv, OutcomeOf, Ended
<1>2. OutcomeInv => OneOutcome
  BY DEF OutcomeInv, OutcomeOf, OneOutcome
<1>. QED
  BY <1>1, <1>2, OutcomeStep, TypeCorrect, ClaimInvariant, PTL DEF Spec

-----------------------------------------------------------------------------
(***************************************************************************)
(* The queue implements the lifecycle.                                     *)
(***************************************************************************)
LEMMA TriesStep ==
  ASSUME TypeOK, ClaimInv, RunsInv, TriesInv, [Next]_vars
  PROVE  TriesInv'
<1>. DEFINE Counted == {"queued", "running", "awaiting_review", "done"}
<1>. SUFFICES ASSUME NEW j \in Jobs, Undisturbed(j)', row'[j].status \in Counted
              PROVE  runs'[j] = row'[j].attempts
  BY DEF TriesInv
<1>1. Undisturbed(j) /\ Moved(j) /\ (row[j].status \in Counted => runs[j] = row[j].attempts)
  BY StatusMoves DEF TriesInv
<1>2. CASE Same(j) /\ runs'[j] = runs[j]
  BY <1>1, <1>2 DEF Same, Becomes
<1>3. CASE ApiStep \/ \E k \in Jobs : Age(k)
  <2>1. CASE Entered(j)
    BY <1>3, <2>1, ApiDoes DEF Entered, RunsInv
  <2>2. CASE Reviewed(j)
    BY <1>1, <1>3, <2>2, ApiDoes DEF Reviewed, Becomes, Undisturbed
  <2>. QED
    BY <1>2, <1>3, <2>1, <2>2, ApiDoes
<1>4. ASSUME NEW w \in Workers, ClaimStep(w) PROVE runs'[j] = row'[j].attempts
  <2>1. CASE Claims(w, j)
    <3>1. row[j].status \in {"queued", "running"}
      BY <2>1 DEF Claims, Eligible, Stale
    <3>. QED
      BY <1>1, <2>1, <3>1 DEF Claims, TypeOK, HistoryTypeOK
  <2>2. CASE ~Claims(w, j)
    BY <1>2, <1>4, <2>2, ClaimStepDoes
       DEF Claims, OtherRows, Same, Becomes, TypeOK, HistoryTypeOK
  <2>. QED
    BY <2>1, <2>2
<1>5. ASSUME NEW w \in Workers, PipelineStep(w) PROVE runs'[j] = row'[j].attempts
  <2>1. /\ UNCHANGED runs /\ OtherRows(job[w]) /\ Working(w, job[w])
        /\ row'[job[w]].attempts = row[job[w]].attempts
    BY <1>5, PipelineFrame
  <2>2. CASE job[w] = j
    BY <1>1, <2>1, <2>2 DEF ClaimInv, WorkingRuns
  <2>3. CASE job[w] # j
    BY <1>1, <2>1, <2>3 DEF OtherRows
  <2>. QED
    BY <2>2, <2>3
<1>6. ASSUME NEW w \in Workers, AfterStep(w) \/ Crash(w) PROVE runs'[j] = row'[j].attempts
  BY <1>2, <1>6, AfterFrame, RecordFailureDoes DEF OtherRows, Same, Becomes
<1>7. CASE UNCHANGED vars
  BY <1>2, <1>7 DEF vars, Same, Becomes
<1>. QED
  BY <1>3, <1>4, <1>5, <1>6, <1>7 DEF Next, WorkerStep

LEMMA TriesInvariant == Spec => []TriesInv
<1>1. Init => TriesInv
  BY DEF Init, TriesInv, BlankRow
<1>. QED
  BY <1>1, TriesStep, TypeCorrect, ClaimInvariant, RunsInvariant, PTL DEF Spec

\* One row that changes its status moves along one arrow of the lifecycle.
LEMMA Arrow ==
  ASSUME TypeOK, NEW j \in Jobs, OtherRows(j),
         NEW from, row[j].status \in from, NEW to, row'[j].status = to
  PROVE  Lifecycle!Move(j, from, to)
  BY DEF Lifecycle!Move, OtherRows

LEMMA StatusRests ==
  ASSUME UNCHANGED runs, \A k \in Jobs : row'[k].status = row[k].status
  PROVE  UNCHANGED Lifecycle!lifecycle
  BY DEF Lifecycle!lifecycle

LEMMA LifecycleStep ==
  ASSUME TypeOK, ClaimInv, PhaseInv, RunsInv, TriesInv, [Next]_vars,
         lapsed = {}, late = {}, lapsed' = {}, late' = {}
  PROVE  Lifecycle!LifecycleNext \/ UNCHANGED Lifecycle!lifecycle
<1>. DEFINE Refined == Lifecycle!LifecycleNext \/ UNCHANGED Lifecycle!lifecycle
<1>0. \A j \in Jobs : Undisturbed(j) /\ Undisturbed(j)'
  BY DEF Undisturbed
<1>. USE DEF Lifecycle!LifecycleNext, Lifecycle!Advance
<1>1. ASSUME NEW j \in Jobs, Submit(j) PROVE Refined
  <2>1. OtherRows(j) /\ row[j].status = "absent" /\ row'[j].status = "queued"
    BY <1>1, WriteDoes DEF Submit, BlankRow
  <2>. QED
    BY <1>1, <2>1, Arrow DEF Submit, Lifecycle!Enter
<1>2. ASSUME NEW j \in Jobs, DeleteByOwner(j) PROVE Refined
  <2>1. OtherRows(j) /\ row[j].status = "done" /\ row'[j].status = "deleted"
    BY <1>2, WriteDoes DEF DeleteByOwner, Removed, BlankRow
  <2>. QED
    BY <1>2, <2>1, Arrow DEF DeleteByOwner, Lifecycle!Remove
<1>3. ASSUME NEW r \in Requests, RequestExecute(r) PROVE Refined
  <2>. DEFINE j == req[r].job
  <2>1. /\ j \in Jobs /\ Write(j, [row[j] EXCEPT !.status = "queued"])
        /\ late' = Overtaken(j) /\ UNCHANGED runs
    BY <1>3, QueueAssumption DEF RequestExecute, TypeOK, RequestTypeOK
  <2>2. row[j].status = "awaiting_review"
    BY <2>1 DEF Overtaken
  <2>3. OtherRows(j) /\ row'[j].status = "queued"
    BY <2>1, WriteDoes, RowFields DEF Rows
  <2>. QED
    BY <2>1, <2>2, <2>3, Arrow DEF Lifecycle!Resume
<1>4. ASSUME NEW r \in Requests, PatchKyc(r) \/ PatchPrompts(r) PROVE Refined
  <2>. DEFINE j == req[r].job
  <2>1. j \in Jobs /\ UNCHANGED runs /\ row[j] \in Rows
    BY <1>4, QueueAssumption, RowFields DEF PatchKyc, PatchPrompts, TypeOK, RequestTypeOK
  <2>2. CASE PatchKyc(r)
    <3>1. Write(j, [row[j] EXCEPT !.kyc = TRUE, !.prompts = "generated"])
      BY <2>2 DEF PatchKyc
    <3>. HIDE DEF j
    <3>. QED
      BY <2>1, <3>1, StatusKept, StatusRests DEF Rows
  <2>3. CASE PatchPrompts(r)
    <3>1. Write(j, [row[j] EXCEPT !.prompts = "curated"])
      BY <2>3 DEF PatchPrompts
    <3>. HIDE DEF j
    <3>. QED
      BY <2>1, <3>1, StatusKept, StatusRests DEF Rows
  <2>. QED
    BY <1>4, <2>2, <2>3
<1>5. ASSUME NEW j \in Jobs, Age(j) PROVE Refined
  <2>1. Write(j, [row[j] EXCEPT !.fresh = FALSE]) /\ UNCHANGED runs /\ row[j] \in Rows
    BY <1>5, RowFields DEF Age
  <2>. QED
    BY <2>1, StatusKept, StatusRests DEF Rows
<1>6. CASE UNCHANGED <<row, runs>>
  BY <1>6, StatusRests
<1>7. ASSUME NEW w \in Workers, NEW j \in Jobs, Claims(w, j) PROVE Refined
  <2>1. /\ row[j].status \in {"queued", "running"} /\ row[j].attempts \in Nat
        /\ OtherRows(j) /\ runs[j] \in Nat
    BY <1>7, RowFields DEF Claims, Eligible, Stale, TypeOK, HistoryTypeOK
  <2>2. runs[j] = row[j].attempts /\ runs[j] <= MaxAttempts
    BY <1>0, <2>1 DEF TriesInv, RunsInv
  <2>3. CASE Exhausted(j)
    <3>1. row'[j].status = "failed" /\ UNCHANGED runs /\ runs[j] = MaxAttempts
      BY <1>7, <2>1, <2>2, <2>3, QueueAssumption DEF Claims, Exhausted
    <3>. QED
      BY <2>1, <3>1, Arrow DEF Lifecycle!GiveUp
  <2>4. CASE ~Exhausted(j)
    <3>1. /\ row'[j].status = "running" /\ runs' = [runs EXCEPT ![j] = @ + 1]
          /\ runs[j] < MaxAttempts
      BY <1>7, <2>1, <2>2, <2>4, QueueAssumption DEF Claims, Exhausted
    <3>. QED
      BY <2>1, <3>1, Arrow DEF Lifecycle!Try
  <2>. QED
    BY <2>3, <2>4
<1>8. ASSUME NEW w \in Workers, PipelineStep(w) PROVE Refined
  <2>. DEFINE j == job[w]
  <2>1. j \in Jobs /\ Working(w, j) /\ OtherRows(j) /\ UNCHANGED runs
    BY <1>8, PipelineFrame
  <2>2. row[j].status = "running" /\ PhaseOf(w, j)
    BY <1>0, <2>1 DEF ClaimInv, WorkingRuns, PhaseInv, PhasesHold
  <2>3. CASE AwaitReview(w)
    <3>1. row'[j].status = "awaiting_review" /\ j \in Guided
      BY <2>2, <2>3, AwaitReviewDoes DEF Becomes, AwaitReview, PhaseOf, IsGuidedMeasureJob
    <3>. QED
      BY <2>1, <2>2, <3>1, Arrow DEF Lifecycle!Pause
  <2>4. CASE FinishRun(w)
    <3>1. row'[j].status = "done"
      BY <2>4, FinishRunDoes DEF Becomes
    <3>. QED
      BY <2>1, <2>2, <3>1, Arrow DEF Lifecycle!Finish
  <2>5. CASE row'[j].status = row[j].status
    BY <2>1, <2>5, StatusRests DEF OtherRows
  <2>6. ~(AwaitReview(w) \/ FinishRun(w)) => row'[j].status = row[j].status
    <3>1. CASE ResetRun(w)
      BY <3>1, ResetRunDoes DEF Becomes
    <3>2. CASE ResetMeasure(w) \/ StartStep(w)
      BY <3>2, ResetMeasureDoes, StartStepDoes DEF Becomes, Same
    <3>3. CASE CompleteStep(w)
      BY <3>3, CompleteStepDoes DEF Becomes
    <3>4. CASE \E usable \in BOOLEAN : GenerateKyc(w, usable)
      BY <3>4, GenerateKycDoes DEF Becomes
    <3>5. CASE RunMeasuredExecute(w) \/ StepRaises(w)
      BY <3>5, RunMeasuredExecuteDoes, StepRaisesDoes
    <3>. QED
      BY <1>8, <3>1, <3>2, <3>3, <3>4, <3>5 DEF PipelineStep
  <2>. QED
    BY <2>3, <2>4, <2>5, <2>6
<1>9. ASSUME NEW w \in Workers, AfterStep(w) \/ Crash(w) PROVE Refined
  <2>. DEFINE j == job[w]
  <2>1. UNCHANGED runs
    BY <1>9, AfterFrame
  <2>2. CASE RecordFailure(w) /\ j \in Jobs /\ OtherRows(j) /\ ~UNCHANGED row
    <3>1. row'[j].status = "failed" /\ Working(w, j)
      BY <2>2, RecordFailureDoes DEF Becomes, RecordFailure, Working, RunPcs
    <3>2. row[j].status = "running"
      BY <1>0, <2>2, <3>1 DEF ClaimInv, WorkingRuns
    <3>. QED
      BY <2>1, <2>2, <3>1, <3>2, Arrow DEF Lifecycle!Fail
  <2>3. CASE /\ pc[w] = "purge" /\ j \in Jobs /\ OtherRows(j)
             /\ row'[j].status = "deleted"
    <3>1. row[j].status \in {"failed", "deleted"}
      BY <1>0, <2>3 DEF ClaimInv, PurgeIsOfFailure, FailureStands, AfterPcs
    <3>2. CASE row[j].status = "deleted"
      BY <2>1, <2>3, <3>2, StatusRests DEF OtherRows
    <3>3. CASE row[j].status = "failed"
      BY <2>1, <2>3, <3>3, Arrow DEF Lifecycle!Remove
    <3>. QED
      BY <3>1, <3>2, <3>3
  <2>. QED
    BY <1>6, <1>9, <2>1, <2>2, <2>3, AfterFrame
<1>. QED
  BY <1>1, <1>2, <1>3, <1>4, <1>5, <1>6, <1>7, <1>8, <1>9, ClaimStepDoes
     DEF Next, ApiStep, Notify, RedisFails, RedisReturns, OpenRequest, DropRequest, WorkerStep,
         vars

\* As long as no lease expires under a live worker and no review request is
\* overtaken, every step of the queue, with any number of workers and clients, is
\* one arrow of the lifecycle or invisible in it.
THEOREM QueueImplementsLifecycle ==
    Spec /\ [](lapsed = {} /\ late = {}) => Lifecycle!LifecycleSpec
<1>. DEFINE Calm == lapsed = {} /\ late = {}
<1>1. Init => Lifecycle!LifecycleInit
  BY DEF Init, Lifecycle!LifecycleInit, BlankRow
<1>2. /\ TypeOK /\ ClaimInv /\ PhaseInv /\ RunsInv /\ TriesInv /\ Calm /\ Calm'
      /\ [Next]_vars
      => [Lifecycle!LifecycleNext]_(Lifecycle!lifecycle)
  BY LifecycleStep
<1>. QED
  BY <1>1, <1>2, TypeCorrect, ClaimInvariant, PhaseInvariant, RunsInvariant,
     TriesInvariant, PTL DEF Spec, Lifecycle!LifecycleSpec

\* Only an approval takes a row out of the review.
LEMMA ReviewIsLeftByApproval ==
  ASSUME TypeOK, ClaimInv, [Next]_vars, NEW j \in Jobs, Undisturbed(j)',
         row[j].status = "awaiting_review", row'[j].status # "awaiting_review"
  PROVE  \E r \in Requests : RequestExecute(r) /\ req[r].job = j
<1>1. Undisturbed(j) /\ row'[j].status = "queued"
  BY StatusMoves DEF Moved
<1>2. ASSUME NEW k \in Jobs, Submit(k) \/ DeleteByOwner(k) \/ Age(k) PROVE FALSE
  <2>1. row[k].status # "awaiting_review" /\ \E t : Write(k, t)
    BY <1>2, Zenon DEF Submit, DeleteByOwner, Age
  <2>. QED
    BY <2>1, WriteDoes DEF OtherRows
<1>3. ASSUME NEW r \in Requests, PatchKyc(r) \/ PatchPrompts(r) \/ RequestExecute(r)
      PROVE  RequestExecute(r) /\ req[r].job = j
  <2>. DEFINE k == req[r].job
  <2>1. k \in Jobs /\ row[k] \in Rows
    BY <1>3, QueueAssumption, RowFields
       DEF PatchKyc, PatchPrompts, RequestExecute, TypeOK, RequestTypeOK
  <2>2. CASE PatchKyc(r)
    <3>1. Write(k, [row[k] EXCEPT !.kyc = TRUE, !.prompts = "generated"])
      BY <2>2 DEF PatchKyc
    <3>. HIDE DEF k
    <3>. QED
      BY <2>1, <3>1, StatusKept DEF Rows
  <2>3. CASE PatchPrompts(r)
    <3>1. Write(k, [row[k] EXCEPT !.prompts = "curated"])
      BY <2>3 DEF PatchPrompts
    <3>. HIDE DEF k
    <3>. QED
      BY <2>1, <3>1, StatusKept DEF Rows
  <2>4. CASE RequestExecute(r)
    <3>1. Write(k, [row[k] EXCEPT !.status = "queued"])
      BY <2>4 DEF RequestExecute
    <3>2. k = j
      BY <2>1, <3>1, WriteDoes DEF OtherRows
    <3>. QED
      BY <2>4, <3>2
  <2>. QED
    BY <1>3, <2>2, <2>3, <2>4
<1>4. ASSUME NEW w \in Workers, ClaimStep(w) PROVE FALSE
  BY <1>4, ClaimStepDoes DEF Claims, OtherRows, Eligible, Stale
<1>5. ASSUME NEW w \in Workers, PipelineStep(w) PROVE FALSE
  <2>1. job[w] = j /\ Working(w, j)
    BY <1>5, PipelineFrame DEF OtherRows
  <2>. QED
    BY <1>1, <2>1 DEF ClaimInv, WorkingRuns
<1>6. ASSUME NEW w \in Workers, AfterStep(w) \/ Crash(w) PROVE FALSE
  BY <1>1, <1>6, AfterFrame, RecordFailureDoes DEF OtherRows, Becomes
<1>. QED
  BY <1>2, <1>3, <1>4, <1>5, <1>6
     DEF Next, ApiStep, Notify, RedisFails, RedisReturns, OpenRequest, DropRequest, WorkerStep,
         vars

\* One worker and one review client, the deployed shape, never disturb a job:
\* no lease lapses under a live worker and no request is overtaken.
THEOREM DeployedQueueIsCalm ==
  ASSUME \A v, w \in Workers : v = w, \A q, r \in Requests : q = r
  PROVE  Spec => [](lapsed = {} /\ late = {})
<1>. DEFINE Calm ==
        /\ lapsed = {} /\ late = {}
        /\ \A r \in Requests :
              req[r].op # "none" => row[req[r].job].status = "awaiting_review"
<1>1. Init => Calm
  BY DEF Init, NoRequest
<1>2. TypeOK /\ ClaimInv /\ Calm /\ [Next]_vars => Calm'
  <2>. SUFFICES ASSUME TypeOK, ClaimInv, Calm, [Next]_vars PROVE Calm'
    OBVIOUS
  <2>1. lapsed' = {}
    <3>1. ASSUME NEW w \in Workers, ClaimStep(w) PROVE lapsed' = {}
      BY <3>1, ClaimStepDoes DEF Claims, Working, RunPcs
    <3>. QED
      BY <3>1, ApiDoes, PipelineFrame, AfterFrame DEF Next, WorkerStep, vars
  <2>2. late' = {}
    <3>1. ASSUME NEW r \in Requests, PatchKyc(r) \/ PatchPrompts(r) \/ RequestExecute(r)
          PROVE  late' = {}
      BY <3>1 DEF PatchKyc, PatchPrompts, RequestExecute, Overtaken
    <3>. QED
      BY <3>1, ClaimStepDoes, PipelineFrame, AfterFrame
         DEF Next, ApiStep, Submit, Notify, RedisFails, RedisReturns, DeleteByOwner, Age,
             OpenRequest, DropRequest, WorkerStep, vars
  <2>3. ASSUME NEW r \in Requests, req'[r].op # "none"
        PROVE  row'[req'[r].job].status = "awaiting_review"
    <3>1. CASE \E op \in Ops, j \in Jobs : OpenRequest(r, op, j)
      BY <3>1 DEF OpenRequest, TypeOK, RequestTypeOK
    <3>2. CASE req'[r] = req[r]
      <4>1. req[r].job \in Jobs /\ row[req[r].job].status = "awaiting_review"
        BY <2>3, <3>2, QueueAssumption DEF TypeOK, RequestTypeOK
      <4>2. ~RequestExecute(r)
        BY <2>3 DEF RequestExecute, NoRequest, TypeOK, RequestTypeOK
      <4>. QED
        BY <2>1, <2>2, <3>2, <4>1, <4>2, ReviewIsLeftByApproval DEF Undisturbed
    <3>3. req'[r] \in {req[r], NoRequest} \/ \E op \in Ops, j \in Jobs : OpenRequest(r, op, j)
      <4>1. ASSUME NEW q \in Requests, PatchKyc(q) \/ PatchPrompts(q) \/ RequestExecute(q)
                                       \/ DropRequest(q)
            PROVE  req'[r] \in {req[r], NoRequest}
        BY <4>1 DEF PatchKyc, PatchPrompts, RequestExecute, DropRequest, TypeOK,
           RequestTypeOK
      <4>2. ASSUME NEW w \in Workers, WorkerStep(w) \/ Crash(w) PROVE UNCHANGED req
        BY <4>2 DEF WorkerStep, ClaimStep, PopHint, ClaimByHint, ClaimNext, NothingToClaim,
           PipelineStep, ResetRun, ResetMeasure, StartStep, GenerateKyc,
           RunMeasuredExecute, CompleteStep, AwaitReview, FinishRun, StepRaises,
           AfterStep, RecordFailure, RecordTerminalEvent, SettleCost, RecordCharge,
           PurgeFailed, Crash
      <4>. QED
        BY <4>1, <4>2
           DEF Next, ApiStep, Submit, Notify, DeleteByOwner, RedisFails, RedisReturns, Age,
               vars
    <3>. QED
      BY <2>3, <3>1, <3>2, <3>3 DEF NoRequest
  <2>. QED
    BY <2>1, <2>2, <2>3
<1>. QED
  BY <1>1, <1>2, TypeCorrect, ClaimInvariant, PTL DEF Spec

-----------------------------------------------------------------------------
(***************************************************************************)
(* The money, while one worker at a time is busy with a job.               *)
(***************************************************************************)

\* What a run pays, and for which job.
LEMMA PipelinePays ==
  ASSUME TypeOK, NEW w \in Workers, PipelineStep(w)
  PROVE  /\ \A k \in Jobs \ {job[w]} : spent'[k] = spent[k]
         /\ \A usable \in BOOLEAN :
               GenerateKyc(w, usable) => spent'[job[w]] = spent[job[w]] + KycPrice
         /\ RunMeasuredExecute(w) => spent'[job[w]] = spent[job[w]] + AnswersPrice
         /\ \/ spent' = spent
            \/ \E usable \in BOOLEAN : GenerateKyc(w, usable)
            \/ RunMeasuredExecute(w)
<1>1. job[w] \in Jobs /\ spent \in [Jobs -> Nat]
  BY PipelineFrame DEF TypeOK, HistoryTypeOK
<1>2. CASE \E usable \in BOOLEAN : GenerateKyc(w, usable)
  BY <1>1, <1>2 DEF GenerateKyc, RunMeasuredExecute
<1>3. CASE RunMeasuredExecute(w)
  BY <1>1, <1>3 DEF GenerateKyc, RunMeasuredExecute
<1>4. CASE ~(\E usable \in BOOLEAN : GenerateKyc(w, usable)) /\ ~RunMeasuredExecute(w)
  BY <1>1, <1>4 DEF PipelineStep, ResetRun, ResetMeasure, StartStep, CompleteStep,
     AwaitReview, FinishRun, StepRaises
<1>. QED
  BY <1>2, <1>3, <1>4

\* The settlement: what is outstanding becomes due, and a charge is recorded once.
LEMMA AfterCharges ==
  ASSUME TypeOK, NEW w \in Workers, AfterStep(w) \/ Crash(w)
  PROVE  /\ ledger' = ledger \/ RecordCharge(w)
         /\ RecordCharge(w) =>
               /\ job[w] \in Jobs /\ pc[w] = "charge" /\ UNCHANGED row
               /\ \A k \in Jobs \ {job[w]} : ledger'[k] = ledger[k]
               /\ \/ /\ ledger'[job[w]].rows = ledger[job[w]].rows + 1
                     /\ ledger'[job[w]].charged = ledger[job[w]].charged + due[w]
                  \/ ledger' = ledger /\ job[w] \in mishap'
         /\ pc'[w] = "charge" =>
               /\ job[w] \in Owned /\ job'[w] = job[w] /\ pc[w] = "settle"
               /\ UNCHANGED <<row, ledger>>
               /\ due'[w] = IF Outstanding(job[w]) > 0 THEN Outstanding(job[w]) ELSE 0
<1>1. ASSUME RecordCharge(w)
      PROVE  /\ job[w] \in Jobs /\ pc[w] = "charge" /\ UNCHANGED row
             /\ \A k \in Jobs \ {job[w]} : ledger'[k] = ledger[k]
             /\ \/ /\ ledger'[job[w]].rows = ledger[job[w]].rows + 1
                   /\ ledger'[job[w]].charged = ledger[job[w]].charged + due[w]
                \/ ledger' = ledger /\ job[w] \in mishap'
             /\ pc'[w] # "charge"
  <2>1. job[w] \in Jobs /\ pc[w] = "charge" /\ UNCHANGED row
    BY <1>1, Holding DEF RecordCharge
  <2>2. pc'[w] # "charge"
    BY <1>1, ReleaseDoes DEF RecordCharge, AfterSettle, TypeOK, WorkerTypeOK
  <2>3. CASE ledger' = [ledger EXCEPT ![job[w]] = Charge(@, due[w])]
    BY <2>1, <2>2, <2>3 DEF Charge, TypeOK, HistoryTypeOK
  <2>4. CASE mishap' = mishap \cup {job[w]} /\ UNCHANGED ledger
    BY <2>1, <2>2, <2>4
  <2>. QED
    BY <1>1, <2>3, <2>4 DEF RecordCharge
<1>2. ledger' = ledger \/ RecordCharge(w)
  BY DEF AfterStep, RecordFailure, RecordTerminalEvent, SettleCost, PurgeFailed, Crash
<1>3. ASSUME pc'[w] = "charge"
      PROVE  /\ job[w] \in Owned /\ job'[w] = job[w] /\ pc[w] = "settle"
             /\ UNCHANGED <<row, ledger>>
             /\ due'[w] = IF Outstanding(job[w]) > 0 THEN Outstanding(job[w]) ELSE 0
  <2>0. pc \in [Workers -> Pcs] /\ due \in [Workers -> Nat]
    BY DEF TypeOK, WorkerTypeOK
  <2>1. ~RecordFailure(w) /\ ~PurgeFailed(w) /\ ~Crash(w) /\ ~RecordTerminalEvent(w)
    BY <1>3, <2>0, RecordFailureDoes, ReleaseDoes
       DEF GoesTo, PurgeFailed, Crash, RecordTerminalEvent
  <2>2. ~AfterSettle(w)
    BY <1>3, <2>0, ReleaseDoes DEF AfterSettle
  <2>3. SettleCost(w)
    BY <1>1, <1>3, <2>1 DEF AfterStep
  <2>. QED
    BY <2>0, <2>2, <2>3 DEF SettleCost
<1>. QED
  BY <1>1, <1>2, <1>3

\* A job nobody pays for, charges or works on stays covered.
LEMMA CoveredKept ==
  ASSUME NEW j \in Jobs, Covered(j), ledger'[j] = ledger[j],
         spent[j] \in Nat, spent'[j] \in Nat, spent[j] <= spent'[j],
         ledger[j].charged \in Nat, Cost(j) \in Nat, Cost(j)' \in Nat,
         Cost(j)' <= Cost(j),
         \A w \in Workers :
            /\ due[w] \in Nat
            /\ Paid(w, j)' => Paid(w, j) /\ due'[w] = due[w]
            /\ job'[w] = j /\ pc'[w] = "charge" =>
                  job[w] = j /\ pc[w] = "charge" /\ due'[w] = due[w]
  PROVE  Covered(j)'
<1>1. ledger'[j].charged <= spent'[j] /\ Cost(j)' <= spent'[j]
  BY DEF Covered
<1>2. ASSUME NEW w \in Workers, Paid(w, j)' PROVE Cost(j)' + due'[w] <= spent'[j]
  <2>1. Cost(j) + due[w] <= spent[j] /\ due'[w] = due[w]
    BY <1>2 DEF Covered
  <2>. HIDE DEF Cost
  <2>. QED
    BY <2>1
<1>3. ASSUME NEW w \in Workers, job'[w] = j, pc'[w] = "charge"
      PROVE  ledger'[j].charged + due'[w] <= spent'[j]
  BY <1>3 DEF Covered
<1>. QED
  BY <1>1, <1>2, <1>3 DEF Covered

LEMMA MoneyTypes ==
  ASSUME TypeOK, NEW j \in Jobs
  PROVE  /\ spent[j] \in Nat /\ ledger[j].rows \in Nat /\ ledger[j].charged \in Nat
         /\ row[j].answers \in Nat /\ row[j].kycCost \in Nat /\ Cost(j) \in Nat
         /\ KycPrice \in Nat /\ AnswersPrice \in Nat
         /\ \A w \in Workers : due[w] \in Nat
         /\ SpendOn(j) \in {Cost(j), 0}
  BY RowFields, QueueAssumption
     DEF TypeOK, HistoryTypeOK, WorkerTypeOK, Cost, SpendOn, Rows

\* The worker that is busy with a job is the only one its money depends on.
LEMMA HoldersRest ==
  ASSUME OneHolder, NEW w \in Workers, NEW j \in Jobs, Holds(w, j), OthersRest(w)
  PROVE  \A v \in Workers \ {w} :
            ~Holds(v, j)' /\ ~Paid(v, j)' /\ ~(job'[v] = j /\ pc'[v] = "charge")
  BY DEF OneHolder, Holds, OthersRest, Rests, Paid, RunPcs, AfterPcs

LEMMA CoveredByRun ==
  ASSUME TypeOK, TypeOK', OneHolder, NEW w \in Workers, PipelineStep(w),
         NEW j \in Jobs, job[w] = j, Covered(j)
  PROVE  Covered(j)'
<1>0. /\ job'[w] = j /\ OthersRest(w) /\ UNCHANGED ledger /\ Holds(w, j)
      /\ pc[w] \in RunPcs
  BY PipelineFrame DEF Holds
<1>1. \A v \in Workers \ {w} : ~Paid(v, j)' /\ ~(job'[v] = j /\ pc'[v] = "charge")
  BY <1>0, HoldersRest
<1>2. pc'[w] # "charge"
  BY ResetRunDoes, ResetMeasureDoes, StartStepDoes, GenerateKycDoes,
     RunMeasuredExecuteDoes, CompleteStepDoes, AwaitReviewDoes, FinishRunDoes, StepRaisesDoes
     DEF PipelineStep, GoesTo
<1>3. /\ spent[j] \in Nat /\ ledger[j].charged \in Nat /\ due[w] \in Nat
      /\ row[j].answers \in Nat /\ row[j].kycCost \in Nat
      /\ KycPrice \in Nat /\ AnswersPrice \in Nat
  BY MoneyTypes
<1>4. /\ ledger[j].charged <= spent[j]
      /\ row[j].answers + row[j].kycCost <= spent[j]
      /\ Paid(w, j) => row[j].answers + row[j].kycCost + due[w] <= spent[j]
  BY DEF Covered, Cost
\* It is enough that the worker's own payments cover the row.
<1>. SUFFICES
        /\ spent[j] <= spent'[j]
        /\ row'[j].answers + row'[j].kycCost <= spent'[j]
        /\ Paid(w, j)' => row'[j].answers + row'[j].kycCost + due'[w] <= spent'[j]
  <2>1. spent'[j] \in Nat
    BY DEF TypeOK, HistoryTypeOK
  <2>. QED
    BY <1>0, <1>1, <1>2, <1>3, <1>4, <2>1 DEF Covered, Cost
<1>. DEFINE Enough ==
        /\ spent[j] <= spent'[j]
        /\ row'[j].answers + row'[j].kycCost <= spent'[j]
        /\ Paid(w, j)' => row'[j].answers + row'[j].kycCost + due'[w] <= spent'[j]
<1>5. CASE ResetRun(w)
  <2>1. /\ row'[j].answers = 0 /\ row'[j].kycCost \in {0, row[j].kycCost}
        /\ pc'[w] = "start" /\ spent' = spent
    BY <1>5, ResetRunDoes DEF Becomes, GoesTo, Emit, ResetRun
  <2>. QED
    BY <1>3, <1>4, <2>1 DEF Paid
<1>6. CASE ResetMeasure(w)
  <2>1. /\ row'[j].answers = 0 /\ row'[j].kycCost = row[j].kycCost
        /\ pc'[w] # "complete" /\ spent' = spent
    BY <1>6, ResetMeasureDoes DEF Becomes, GoesTo, ResetMeasure
  <2>. QED
    BY <1>3, <1>4, <2>1 DEF Paid
<1>7. CASE StartStep(w)
  <2>1. /\ row'[j].answers = row[j].answers /\ row'[j].kycCost = row[j].kycCost
        /\ ~Paid(w, j)' /\ spent' = spent
    BY <1>7, StartStepDoes DEF Same, Becomes, GoesTo, StartStep, Paid
  <2>. QED
    BY <1>3, <1>4, <2>1
<1>8. ASSUME NEW usable \in BOOLEAN, GenerateKyc(w, usable) PROVE Enough
  <2>1. /\ row'[j].answers = row[j].answers /\ row'[j].kycCost \in {KycPrice, row[j].kycCost}
        /\ ~Paid(w, j)' /\ spent'[j] = spent[j] + KycPrice
    BY <1>8, GenerateKycDoes, PipelinePays DEF Becomes, GoesTo, Emit, Paid
  <2>. QED
    BY <1>3, <1>4, <2>1
<1>9. CASE RunMeasuredExecute(w)
  <2>1. UNCHANGED row /\ due'[w] = AnswersPrice /\ spent'[j] = spent[j] + AnswersPrice
    BY <1>9, RunMeasuredExecuteDoes, PipelinePays
  <2>. QED
    BY <1>3, <1>4, <2>1
<1>10. CASE CompleteStep(w)
  <2>1. /\ row'[j].answers = IF step[w] = "execute" THEN row[j].answers + due[w]
                                                    ELSE row[j].answers
        /\ row'[j].kycCost = row[j].kycCost
        /\ pc'[w] # "complete" /\ spent' = spent /\ pc[w] = "complete"
    BY <1>10, CompleteStepDoes DEF Becomes, GoesTo, CompleteStep
  <2>. QED
    BY <1>3, <1>4, <2>1 DEF Paid
<1>11. CASE AwaitReview(w) \/ FinishRun(w)
  <2>1. /\ row'[j].answers = row[j].answers /\ row'[j].kycCost = row[j].kycCost
        /\ pc'[w] # "complete" /\ spent' = spent
    BY <1>11, AwaitReviewDoes, FinishRunDoes DEF Becomes, GoesTo, AwaitReview, FinishRun
  <2>. QED
    BY <1>3, <1>4, <2>1 DEF Paid
<1>12. CASE StepRaises(w)
  <2>1. UNCHANGED row /\ pc'[w] = "fail" /\ spent' = spent
    BY <1>12, StepRaisesDoes DEF GoesTo, StepRaises
  <2>. QED
    BY <1>3, <1>4, <2>1 DEF Paid
<1>. QED
  BY <1>5, <1>6, <1>7, <1>8, <1>9, <1>10, <1>11, <1>12 DEF PipelineStep

LEMMA CoveredBySettlement ==
  ASSUME TypeOK, TypeOK', OneHolder, NEW w \in Workers, AfterStep(w) \/ Crash(w),
         NEW j \in Jobs, Covered(j), Cost(j)' <= Cost(j)
  PROVE  Covered(j)'
<1>0. /\ OthersRest(w) /\ spent' = spent /\ ~Paid(w, j)'
      /\ job'[w] \in Jobs => job'[w] = job[w]
  BY AfterFrame, QueueAssumption DEF Paid, AfterPcs
<1>1. /\ spent[j] \in Nat /\ ledger[j].charged \in Nat /\ Cost(j) \in Nat
      /\ Cost(j)' \in Nat /\ SpendOn(j) \in {Cost(j), 0}
      /\ \A v \in Workers : due[v] \in Nat
  <2>1. Cost(j)' \in Nat
    BY MoneyTypes DEF TypeOK, RowTypeOK, Rows, Cost
  <2>. QED
    BY <2>1, MoneyTypes
<1>2. /\ ledger[j].charged <= spent[j] /\ Cost(j) <= spent[j]
      /\ \A v \in Workers : /\ Paid(v, j) => Cost(j) + due[v] <= spent[j]
                            /\ job[v] = j /\ pc[v] = "charge" =>
                                  ledger[j].charged + due[v] <= spent[j]
  BY DEF Covered
<1>3. CASE RecordCharge(w) /\ job[w] = j /\ ledger' # ledger
  <2>1. /\ ledger'[j].charged = ledger[j].charged + due[w] /\ pc[w] = "charge"
        /\ pc'[w] # "charge"
    BY <1>3, AfterCharges
  <2>2. \A v \in Workers : ~Paid(v, j)' /\ ~(job'[v] = j /\ pc'[v] = "charge")
    BY <1>0, <1>3, <2>1, HoldersRest DEF Holds, AfterPcs
  <2>3. Cost(j)' <= spent'[j] /\ ledger'[j].charged <= spent'[j]
    <3>. HIDE DEF Cost
    <3>. QED
      BY <1>0, <1>1, <1>2, <1>3, <2>1
  <2>. QED
    BY <2>2, <2>3 DEF Covered
<1>4. CASE ledger'[j] = ledger[j]
  <2>1. CASE pc'[w] = "charge" /\ job'[w] = j
    <3>1. /\ job[w] = j /\ pc[w] = "settle" /\ UNCHANGED row
          /\ due'[w] = IF Outstanding(j) > 0 THEN Outstanding(j) ELSE 0
      BY <1>0, <2>1, AfterCharges
    <3>2. \A v \in Workers \ {w} : ~Paid(v, j)' /\ ~(job'[v] = j /\ pc'[v] = "charge")
      BY <1>0, <3>1, HoldersRest DEF Holds, AfterPcs
    <3>3. ledger'[j].charged + due'[w] <= spent'[j] /\ ledger'[j].charged <= spent'[j]
      <4>. HIDE DEF Cost, SpendOn
      <4>. QED
        BY <1>0, <1>1, <1>2, <1>4, <3>1 DEF Outstanding
    <3>4. Cost(j)' <= spent'[j]
      <4>. HIDE DEF Cost
      <4>. QED
        BY <1>0, <1>1, <1>2
    <3>. QED
      BY <1>0, <3>2, <3>3, <3>4 DEF Covered
  <2>2. CASE ~(pc'[w] = "charge" /\ job'[w] = j)
    <3>1. \A v \in Workers :
             /\ due[v] \in Nat
             /\ Paid(v, j)' => Paid(v, j) /\ due'[v] = due[v]
             /\ job'[v] = j /\ pc'[v] = "charge" =>
                   job[v] = j /\ pc[v] = "charge" /\ due'[v] = due[v]
      BY <1>0, <1>1, <2>2 DEF Paid, OthersRest, Rests
    <3>2. spent'[j] \in Nat /\ spent[j] <= spent'[j]
      BY <1>0, <1>1
    <3>. HIDE DEF Cost
    <3>. QED
      BY <1>1, <1>4, <3>1, <3>2, CoveredKept
  <2>. QED
    BY <2>1, <2>2
<1>. QED
  BY <1>3, <1>4, AfterCharges

LEMMA LedgerStep ==
  ASSUME TypeOK, TypeOK', OneHolder, LedgerInv, [Next]_vars
  PROVE  LedgerInv'
<1>. SUFFICES ASSUME NEW j \in Jobs
              PROVE  Covered(j)'
  BY DEF LedgerInv
<1>0. /\ Covered(j) /\ spent[j] \in Nat /\ ledger[j].charged \in Nat
      /\ Cost(j) \in Nat /\ Cost(j)' \in Nat
      /\ \A v \in Workers : due[v] \in Nat
  <2>1. Cost(j)' \in Nat
    BY MoneyTypes DEF TypeOK, RowTypeOK, Rows, Cost
  <2>. QED
    BY <2>1, MoneyTypes DEF LedgerInv
<1>1. ASSUME ledger'[j] = ledger[j], spent'[j] = spent[j], Cost(j)' <= Cost(j),
             \A w \in Workers :
                /\ Paid(w, j)' => Paid(w, j) /\ due'[w] = due[w]
                /\ job'[w] = j /\ pc'[w] = "charge" =>
                      job[w] = j /\ pc[w] = "charge" /\ due'[w] = due[w]
      PROVE  Covered(j)'
  BY <1>0, <1>1, CoveredKept
<1>2. CASE UNCHANGED vars
  BY <1>0, <1>1, <1>2 DEF vars, Cost, Paid
<1>3. CASE ApiStep \/ \E k \in Jobs : Age(k)
  <2>1. /\ UNCHANGED <<pc, job, step, due, spent, ledger>>
    BY <1>3, ApiDoes
  <2>2. \/ row'[j].answers = row[j].answers /\ row'[j].kycCost = row[j].kycCost
        \/ row'[j].answers = 0 /\ row'[j].kycCost = 0
    BY <1>3, ApiDoes DEF Same, Becomes, Entered, Reviewed
  <2>3. Cost(j)' \in {Cost(j), 0}
    BY <2>2 DEF Cost
  <2>. QED
    BY <1>0, <1>1, <2>1, <2>3 DEF Paid
<1>4. ASSUME NEW w \in Workers, ClaimStep(w) PROVE Covered(j)'
  <2>1. /\ UNCHANGED <<spent, ledger, due>> /\ OthersRest(w)
        /\ pc'[w] \notin {"complete", "charge"}
    BY <1>4, ClaimStepDoes DEF Claims
  <2>2. Cost(j)' = Cost(j)
    BY <1>4, ClaimStepDoes DEF Claims, OtherRows, Cost
  <2>. QED
    BY <1>0, <1>1, <2>1, <2>2 DEF Paid, OthersRest, Rests
<1>5. ASSUME NEW w \in Workers, PipelineStep(w) PROVE Covered(j)'
  <2>1. CASE job[w] = j
    BY <1>0, <1>5, <2>1, CoveredByRun
  <2>2. CASE job[w] # j
    <3>1. /\ OthersRest(w) /\ OtherRows(job[w]) /\ job'[w] = job[w] /\ UNCHANGED ledger
          /\ spent'[j] = spent[j]
      BY <1>5, <2>2, PipelineFrame, PipelinePays
    <3>2. Cost(j)' = Cost(j)
      BY <2>2, <3>1 DEF OtherRows, Cost
    <3>. QED
      BY <1>0, <1>1, <2>2, <3>1, <3>2 DEF Paid, OthersRest, Rests
  <2>. QED
    BY <2>1, <2>2
<1>6. ASSUME NEW w \in Workers, AfterStep(w) \/ Crash(w) PROVE Covered(j)'
  <2>1. \/ row'[j].answers = row[j].answers /\ row'[j].kycCost = row[j].kycCost
        \/ row'[j].answers = 0 /\ row'[j].kycCost = 0
    BY <1>6, AfterFrame, RecordFailureDoes DEF OtherRows, Becomes
  <2>2. Cost(j)' \in {Cost(j), 0}
    BY <2>1 DEF Cost
  <2>. QED
    BY <1>0, <1>6, <2>2, CoveredBySettlement
<1>. QED
  BY <1>2, <1>3, <1>4, <1>5, <1>6 DEF Next, WorkerStep

\* Nothing is charged that was not paid, through every crash between the reading
\* and the writing of the ledger, as long as no two workers settle one run.
LEMMA LedgerInvariant == Spec /\ []OneHolder => []LedgerInv
<1>1. Init => LedgerInv
  BY DEF Init, LedgerInv, Covered, Cost, Paid, BlankRow
<1>. QED
  BY <1>1, LedgerStep, TypeCorrect, PTL DEF Spec

\* A job whose row, price and workers rest stays accounted for.
LEMMA AccountedKept ==
  ASSUME NEW j \in Jobs, Accounted(j), Same(j), spent'[j] = spent[j],
         \A w \in Workers : Working(w, j)' => Rests(w)
  PROVE  Accounted(j)'
<1>1. /\ row'[j].status = row[j].status /\ Cost(j)' = Cost(j)
      /\ row'[j].answers = row[j].answers /\ row'[j].kycCost = row[j].kycCost
      /\ IsGuidedMeasureJob(j)' <=> IsGuidedMeasureJob(j)
  BY DEF Same, Becomes, Cost, IsGuidedMeasureJob
<1>2. ASSUME NEW w \in Workers, Working(w, j)', pc'[w] # "fail"
      PROVE  /\ spent'[j] = Cost(j)' + IF Paid(w, j)' THEN AnswersPrice ELSE 0
             /\ pc'[w] \in {"reset", "measure_reset", "pause"} => row'[j].answers = 0
             /\ Unbilled(w, j)' => row'[j].kycCost = 0
  <2>1. /\ pc'[w] = pc[w] /\ Working(w, j) /\ (Paid(w, j)' <=> Paid(w, j))
        /\ Unbilled(w, j)' <=> Unbilled(w, j)
    BY <1>2 DEF Rests, Working, Paid, Unbilled
  <2>2. /\ spent[j] = Cost(j) + IF Paid(w, j) THEN AnswersPrice ELSE 0
        /\ pc[w] \in {"reset", "measure_reset", "pause"} => row[j].answers = 0
        /\ Unbilled(w, j) => row[j].kycCost = 0
    BY <1>2, <2>1 DEF Accounted
  <2>. HIDE DEF Cost, Paid, Unbilled
  <2>. QED
    BY <1>1, <2>1, <2>2
<1>3. /\ row[j].status \in {"absent", "queued", "awaiting_review", "done"} =>
            spent[j] = Cost(j)
      /\ row[j].status = "absent" => row[j].kycCost = 0
      /\ row[j].status = "queued" /\ ~IsGuidedMeasureJob(j) => row[j].kycCost = 0
      /\ row[j].status \in {"absent", "queued", "awaiting_review"} => row[j].answers = 0
  BY DEF Accounted
<1>4. /\ row'[j].status \in {"absent", "queued", "awaiting_review", "done"} =>
            spent'[j] = Cost(j)'
      /\ row'[j].status = "absent" => row'[j].kycCost = 0
      /\ row'[j].status = "queued" /\ ~IsGuidedMeasureJob(j)' => row'[j].kycCost = 0
      /\ row'[j].status \in {"absent", "queued", "awaiting_review"} => row'[j].answers = 0
  <2>. HIDE DEF Cost, IsGuidedMeasureJob
  <2>. QED
    BY <1>1, <1>3
<1>. HIDE DEF Cost, Paid, Unbilled, IsGuidedMeasureJob
<1>. QED
  BY <1>2, <1>4 DEF Accounted

LEMMA SettledKept ==
  ASSUME NEW j \in Jobs, Settled(j), row'[j].status = row[j].status,
         spent'[j] = spent[j], ledger'[j] = ledger[j],
         \A w \in Workers :
            /\ Holds(w, j) => Holds(w, j)'
            /\ job'[w] = j /\ pc'[w] = "charge" =>
                  job[w] = j /\ pc[w] = "charge" /\ due'[w] = due[w]
  PROVE  Settled(j)'
  BY DEF Settled

\* The books of a job after a step of the users, of time, or of a claim.
LEMMA BooksKeptOutside ==
  ASSUME TypeOK, ClaimInv, ReviewIsResumable, ApprovalInv,
         (ApiStep \/ \E k \in Jobs : Age(k)) \/ \E w \in Workers : ClaimStep(w),
         NEW j \in Jobs, j \notin mishap, Undisturbed(j), Undisturbed(j)',
         Accounted(j), Settled(j)
  PROVE  Accounted(j)' /\ Settled(j)'
<1>0. /\ row[j].answers \in Nat /\ row[j].kycCost \in Nat
      /\ \A w \in Workers : Working(w, j) => row[j].status = "running"
  BY MoneyTypes DEF ClaimInv, WorkingRuns
<1>1. CASE ApiStep \/ \E k \in Jobs : Age(k)
  <2>1. /\ UNCHANGED <<pc, job, step, due, spent, ledger>>
        /\ \A w \in Workers : Rests(w)
    BY <1>1, ApiDoes DEF Rests
  <2>2. CASE Same(j)
    BY <2>1, <2>2, AccountedKept, SettledKept DEF Same, Becomes, Holds
  <2>3. CASE /\ row'[j].status \in {"queued", "deleted"} /\ row[j].status # "running"
             /\ row'[j].status = "queued" =>
                   /\ spent[j] = Cost(j)' /\ row'[j].answers = 0
                   /\ ~IsGuidedMeasureJob(j)' => row'[j].kycCost = 0
    <3>1. \A w \in Workers : ~Working(w, j)'
      BY <1>0, <2>1, <2>3 DEF Working
    <3>. QED
      BY <2>1, <2>3, <3>1 DEF Accounted, Settled
  <2>4. CASE Entered(j)
    <3>1. spent[j] = 0
      BY <1>0, <2>4 DEF Accounted, Entered, Cost
    <3>2. spent[j] = Cost(j)'
      BY <2>4, <3>1 DEF Entered, Cost
    <3>. QED
      BY <2>3, <2>4, <3>2 DEF Entered
  <2>5. CASE Reviewed(j)
    <3>1. row[j].status = "awaiting_review"
      BY <2>5 DEF Reviewed, Undisturbed
    <3>2. /\ row'[j].answers = row[j].answers /\ row'[j].kycCost = row[j].kycCost
          /\ row'[j].progress = row[j].progress
          /\ row'[j].status \in {"awaiting_review", "queued"}
          /\ row'[j].kyc \in {TRUE, row[j].kyc}
      BY <2>5, <3>1 DEF Reviewed, Becomes
    <3>3. spent[j] = Cost(j) /\ row[j].answers = 0 /\ Cost(j)' = Cost(j)
      BY <3>1, <3>2 DEF Accounted, Cost
    <3>4. \A w \in Workers : ~Working(w, j)'
      BY <1>0, <2>1, <3>1 DEF Working
    <3>5. IsGuidedMeasureJob(j)'
      BY <3>1, <3>2 DEF ReviewIsResumable, IsGuidedMeasureJob
    <3>6. Accounted(j)'
      <4>. HIDE DEF Cost
      <4>. QED
        BY <2>1, <3>2, <3>3, <3>4, <3>5 DEF Accounted
    <3>7. Settled(j)'
      BY <2>1, <3>1, <3>2 DEF Settled, Holds
    <3>. QED
      BY <3>6, <3>7
  <2>. QED
    BY <1>1, <2>2, <2>3, <2>4, <2>5, ApiDoes
<1>2. ASSUME NEW w \in Workers, ClaimStep(w) PROVE Accounted(j)' /\ Settled(j)'
  <2>1. /\ UNCHANGED <<spent, ledger, due>> /\ OthersRest(w)
        /\ pc[w] \in {"idle", "claim_hint", "claim_next"}
    BY <1>2, ClaimStepDoes DEF Claims
  <2>2. CASE Claims(w, j)
    <3>1. row'[j].status \in {"running", "failed"}
      BY <2>2 DEF Claims
    <3>2. row[j].status = "queued" /\ \A v \in Workers : ~Working(v, j)
      BY <1>0, <2>2
         DEF Claims, Eligible, Stale, Undisturbed, ApprovalInv, RunningIsWorked
    <3>3. /\ Cost(j)' = Cost(j) /\ row'[j].answers = row[j].answers
          /\ row'[j].kycCost = row[j].kycCost
      BY <2>2 DEF Claims, Cost
    <3>4. /\ spent[j] = Cost(j) /\ row[j].answers = 0
          /\ ~IsGuidedMeasureJob(j) => row[j].kycCost = 0
      BY <3>2 DEF Accounted
    <3>5. ASSUME NEW v \in Workers, Working(v, j)'
          PROVE  /\ v = w /\ ~Paid(v, j)'
                 /\ pc'[v] = IF IsGuidedMeasureJob(j) THEN "measure_reset" ELSE "reset"
                 /\ step'[v] = "discovery"
      <4>1. v = w
        BY <2>1, <3>2, <3>5 DEF OthersRest, Rests, Working
      <4>2. step'[v] = "discovery"
        BY <2>2, <4>1 DEF Claims, ApprovalInv, StartsAtDiscovery
      <4>. QED
        BY <2>2, <3>5, <4>1, <4>2 DEF Claims, Working, RunPcs, Paid
    <3>6. Accounted(j)'
      <4>1. ASSUME NEW v \in Workers, Working(v, j)'
            PROVE  /\ spent'[j] = Cost(j)' + IF Paid(v, j)' THEN AnswersPrice ELSE 0
                   /\ row'[j].answers = 0
                   /\ Unbilled(v, j)' => row'[j].kycCost = 0
        <5>1. ~Paid(v, j)' /\ (Unbilled(v, j)' => ~IsGuidedMeasureJob(j))
          BY <3>5, <4>1 DEF Unbilled
        <5>2. spent'[j] = Cost(j)' /\ Cost(j)' \in Nat
          BY <1>0, <2>1, <3>3, <3>4 DEF Cost
        <5>. HIDE DEF Cost, Paid, Unbilled
        <5>. QED
          BY <3>3, <3>4, <5>1, <5>2
      <4>. HIDE DEF Cost, Paid, Unbilled
      <4>. QED
        BY <3>1, <4>1 DEF Accounted
    <3>7. Settled(j)'
      BY <3>1 DEF Settled
    <3>. QED
      BY <3>6, <3>7
  <2>3. CASE ~Claims(w, j)
    <3>1. /\ Same(j)
          /\ ~Working(w, j)' /\ ~Holds(w, j) /\ pc'[w] # "charge"
      BY <1>2, <2>1, <2>3, ClaimStepDoes, QueueAssumption
         DEF Claims, OtherRows, Same, Becomes, Working, Holds, RunPcs, AfterPcs
    <3>2. Accounted(j)'
      BY <2>1, <3>1, AccountedKept DEF OthersRest
    <3>3. Settled(j)'
      BY <2>1, <3>1, SettledKept DEF OthersRest, Rests, Holds, Same, Becomes
    <3>. QED
      BY <3>2, <3>3
  <2>. QED
    BY <2>2, <2>3
<1>. QED
  BY <1>1, <1>2

\* The run itself: every provider call is on the row, or in the hands of the one
\* worker that made it.
LEMMA BooksOfRun ==
  ASSUME TypeOK, TypeOK', OneHolder, NEW w \in Workers, PipelineStep(w),
         NEW j \in Jobs, job[w] = j, row[j].status = "running", PhaseOf(w, j),
         Accounted(j)
  PROVE  Accounted(j)' /\ Settled(j)'
<1>0. /\ job'[w] = j /\ OthersRest(w) /\ Working(w, j) /\ Holds(w, j)
      /\ pc[w] \in RunPcs \ {"fail"} /\ step[w] \in Steps
  <2>1. pc[w] # "fail"
    <3>1. ASSUME pc[w] = "fail" PROVE ~PipelineStep(w)
      BY <3>1 DEF PipelineStep, ResetRun, ResetMeasure, StartStep, GenerateKyc,
         RunMeasuredExecute, CompleteStep, AwaitReview, FinishRun, StepRaises
    <3>. QED
      BY <3>1
  <2>. QED
    BY <2>1, PipelineFrame DEF Holds, TypeOK, WorkerTypeOK
<1>1. \A v \in Workers \ {w} : ~Working(v, j)' /\ ~(job'[v] = j /\ pc'[v] = "charge")
  BY <1>0, HoldersRest DEF Holds, Working
<1>2. /\ spent[j] \in Nat /\ row[j].answers \in Nat /\ row[j].kycCost \in Nat
      /\ KycPrice \in Nat /\ AnswersPrice \in Nat
  BY MoneyTypes
<1>3. /\ pc[w] = "complete" /\ step[w] = "execute" =>
            spent[j] = row[j].answers + row[j].kycCost + AnswersPrice
      /\ ~(pc[w] = "complete" /\ step[w] = "execute") =>
            spent[j] = row[j].answers + row[j].kycCost
      /\ pc[w] \in {"reset", "measure_reset", "pause"} => row[j].answers = 0
      /\ pc[w] = "reset" => row[j].kycCost = 0
      /\ step[w] = "discovery" /\ pc[w] # "measure_reset" => row[j].kycCost = 0
      /\ step[w] = "kyc" /\ pc[w] \in {"start", "work"} => row[j].kycCost = 0
  <2>1. /\ spent[j] = Cost(j) + IF Paid(w, j) THEN AnswersPrice ELSE 0
        /\ pc[w] \in {"reset", "measure_reset", "pause"} => row[j].answers = 0
        /\ Unbilled(w, j) => row[j].kycCost = 0
    BY <1>0 DEF Accounted
  <2>. QED
    BY <1>0, <1>2, <2>1 DEF Cost, Paid, Unbilled
\* What the row of a job that goes on, and of one that ends its run, must show.
<1>. DEFINE GoesOn ==
       /\ row'[j].status = "running"
       /\ pc'[w] # "fail" =>
             /\ pc'[w] = "complete" /\ step'[w] = "execute" =>
                   spent'[j] = row'[j].answers + row'[j].kycCost + AnswersPrice
             /\ ~(pc'[w] = "complete" /\ step'[w] = "execute") =>
                   spent'[j] = row'[j].answers + row'[j].kycCost
             /\ pc'[w] \in {"reset", "measure_reset", "pause"} => row'[j].answers = 0
             /\ \/ pc'[w] = "reset"
                \/ step'[w] = "discovery" /\ pc'[w] # "measure_reset"
                \/ step'[w] = "kyc" /\ pc'[w] \in {"start", "work"}
                => row'[j].kycCost = 0
            Ends ==
       /\ row'[j].status \in {"done", "awaiting_review"}
       /\ pc'[w] \in {"record", "settle"}
       /\ spent'[j] = row'[j].answers + row'[j].kycCost
       /\ row'[j].status = "awaiting_review" => row'[j].answers = 0
            Goal == Accounted(j)' /\ Settled(j)'
<1>4. ASSUME GoesOn PROVE Goal
  <2>1. ASSUME NEW v \in Workers, Working(v, j)', pc'[v] # "fail"
        PROVE  /\ spent'[j] = Cost(j)' + IF Paid(v, j)' THEN AnswersPrice ELSE 0
               /\ pc'[v] \in {"reset", "measure_reset", "pause"} => row'[j].answers = 0
               /\ Unbilled(v, j)' => row'[j].kycCost = 0
    <3>1. v = w
      BY <1>1, <2>1
    <3>2. row'[j].answers \in Nat /\ row'[j].kycCost \in Nat
      BY DEF TypeOK, RowTypeOK, Rows
    <3>. QED
      BY <1>0, <1>4, <2>1, <3>1, <3>2 DEF Cost, Paid, Unbilled
  <2>. HIDE DEF Cost, Paid, Unbilled
  <2>. QED
    BY <1>4, <2>1 DEF Accounted, Settled
<1>5. ASSUME Ends PROVE Goal
  <2>1. \A v \in Workers : ~Working(v, j)' /\ ~(job'[v] = j /\ pc'[v] = "charge")
    BY <1>1, <1>5 DEF Working, RunPcs
  <2>2. Holds(w, j)'
    BY <1>0, <1>5 DEF Holds, AfterPcs
  <2>3. spent'[j] = Cost(j)'
    BY <1>5 DEF Cost
  <2>. HIDE DEF Cost
  <2>. QED
    BY <1>5, <2>1, <2>2, <2>3 DEF Accounted, Settled
<1>. SUFFICES Goal
  OBVIOUS
<1>. HIDE DEF Goal
<1>6. CASE ResetRun(w)
  <2>1. /\ pc[w] = "reset" /\ spent' = spent
        /\ row'[j].answers = 0 /\ row'[j].kycCost \in {0, row[j].kycCost}
        /\ row'[j].status = "running" /\ pc'[w] = "start" /\ step'[w] = "discovery"
    <3>1. pc[w] = "reset" /\ spent' = spent
      BY <1>6 DEF ResetRun
    <3>. QED
      BY <1>6, <3>1, ResetRunDoes DEF Becomes, GoesTo, Emit
  <2>. QED
    BY <1>2, <1>3, <1>4, <2>1
<1>7. CASE ResetMeasure(w)
  <2>1. /\ pc[w] = "measure_reset" /\ spent' = spent
        /\ row'[j].answers = 0 /\ row'[j].kycCost = row[j].kycCost
        /\ row'[j].status = "running"
        /\ pc'[w] = "fail" \/ (pc'[w] = "start" /\ step'[w] = "execute")
    BY <1>7, ResetMeasureDoes DEF Becomes, GoesTo, ResetMeasure
  <2>. QED
    BY <1>2, <1>3, <1>4, <2>1
<1>8. CASE StartStep(w)
  <2>1. /\ pc[w] = "start" /\ spent' = spent /\ step'[w] = step[w]
        /\ row'[j].answers = row[j].answers /\ row'[j].kycCost = row[j].kycCost
        /\ row'[j].status = "running"
        /\ pc'[w] = IF step[w] \in {"kyc", "execute"} THEN "work" ELSE "complete"
    BY <1>8, StartStepDoes DEF Same, Becomes, GoesTo, StartStep
  <2>. QED
    BY <1>2, <1>3, <1>4, <2>1
<1>9. ASSUME NEW usable \in BOOLEAN, GenerateKyc(w, usable) PROVE Goal
  <2>1. /\ pc[w] = "work" /\ step[w] = "kyc" /\ spent'[j] = spent[j] + KycPrice
        /\ row'[j].answers = row[j].answers
        /\ row'[j].kycCost = Emit(KycPrice, view[w].kycCost, row[j].kycCost)
        /\ row'[j].status = "running"
        /\ pc'[w] \in {"complete", "fail"} /\ step'[w] = "kyc"
    <3>1. pc[w] = "work" /\ step[w] = "kyc"
      BY <1>9 DEF GenerateKyc
    <3>. QED
      BY <1>9, <3>1, GenerateKycDoes, PipelinePays DEF Becomes, GoesTo
  <2>2. view[w].kycCost = row[j].kycCost
    BY DEF PhaseOf
  <2>3. row'[j].kycCost = KycPrice /\ row[j].kycCost = 0
    BY <1>3, <2>1, <2>2 DEF Emit
  <2>. QED
    BY <1>2, <1>3, <1>4, <2>1, <2>3
<1>10. CASE RunMeasuredExecute(w)
  <2>1. /\ pc[w] = "work" /\ UNCHANGED row /\ spent'[j] = spent[j] + AnswersPrice
        /\ pc'[w] = "complete" /\ step'[w] = "execute"
    BY <1>10, RunMeasuredExecuteDoes, PipelinePays DEF GoesTo, RunMeasuredExecute
  <2>. QED
    BY <1>2, <1>3, <1>4, <2>1
<1>11. CASE CompleteStep(w)
  <2>1. /\ pc[w] = "complete" /\ step[w] # "scoring" /\ spent' = spent
        /\ row'[j].answers = IF step[w] = "execute" THEN row[j].answers + due[w]
                                                    ELSE row[j].answers
        /\ row'[j].kycCost = row[j].kycCost
        /\ row'[j].status = "running"
        /\ \/ pc'[w] = "pause" /\ step[w] = "prompts" /\ step'[w] = "prompts"
           \/ pc'[w] = "start" /\ step'[w] = NextStep[step[w]]
    <3>1. pc[w] = "complete" /\ step[w] # "scoring" /\ spent' = spent
      BY <1>11 DEF CompleteStep
    <3>2. /\ Becomes(j, row[j].status,
                      Emit(ProgressAfter[step[w]], view[w].progress, row[j].progress),
                      row[j].kyc, row[j].kycCost,
                      IF step[w] = "prompts" THEN "generated" ELSE row[j].prompts,
                      IF step[w] = "execute" THEN row[j].answers + due[w]
                                             ELSE row[j].answers)
          /\ IF Pauses(j, step[w]) THEN GoesTo(w, "pause", step[w])
                                   ELSE GoesTo(w, "start", NextStep[step[w]])
      BY <1>11, CompleteStepDoes
    <3>. QED
      BY <3>1, <3>2 DEF Becomes, GoesTo, Pauses
  <2>2. /\ step[w] = "execute" => due[w] = AnswersPrice
        /\ step[w] = "prompts" => row[j].answers = 0
    BY <2>1 DEF PhaseOf, InStep
  <2>3. NextStep[step[w]] # "discovery" /\ (NextStep[step[w]] = "kyc" => step[w] = "discovery")
    BY <1>0, StepOrder, <2>1
  <2>4. spent'[j] = row'[j].answers + row'[j].kycCost
    BY <1>2, <1>3, <2>1, <2>2
  <2>. QED
    BY <1>3, <1>4, <2>1, <2>2, <2>3, <2>4
<1>12. CASE AwaitReview(w) \/ FinishRun(w)
  <2>1. /\ row'[j].answers = row[j].answers /\ row'[j].kycCost = row[j].kycCost
        /\ spent' = spent
        /\ \/ /\ pc[w] = "pause"
              /\ row'[j].status = "awaiting_review" /\ pc'[w] = "settle"
           \/ /\ step[w] = "scoring"
              /\ row'[j].status = "done" /\ pc'[w] = "record"
    <3>1. CASE AwaitReview(w)
      <4>1. pc[w] = "pause" /\ spent' = spent
        BY <3>1 DEF AwaitReview
      <4>. QED
        BY <3>1, <4>1, AwaitReviewDoes DEF Becomes, GoesTo
    <3>2. CASE FinishRun(w)
      <4>1. step[w] = "scoring" /\ spent' = spent
        BY <3>2 DEF FinishRun
      <4>. QED
        BY <3>2, <4>1, FinishRunDoes DEF Becomes, GoesTo
    <3>. QED
      BY <1>12, <3>1, <3>2
  <2>. QED
    BY <1>3, <1>5, <2>1
<1>13. CASE StepRaises(w)
  <2>1. UNCHANGED row /\ pc'[w] = "fail"
    BY <1>13, StepRaisesDoes DEF GoesTo
  <2>. QED
    BY <1>4, <2>1
<1>. QED
  BY <1>6, <1>7, <1>8, <1>9, <1>10, <1>11, <1>12, <1>13 DEF PipelineStep

\* The settlement: what a run that ended well still owes is charged in one row.
LEMMA BooksOfSettlement ==
  ASSUME TypeOK, OneHolder, NEW w \in Workers, AfterStep(w),
         NEW j \in Owned, job[w] = j, j \notin mishap', Covered(j),
         Accounted(j), Settled(j)
  PROVE  Accounted(j)' /\ Settled(j)'
<1>0. j \in Jobs /\ spent' = spent /\ OthersRest(w) /\ Holds(w, j) /\ ~Working(w, j)'
  <2>1. pc[w] \in {"fail"} \cup AfterPcs
    BY DEF AfterStep, RecordFailure, RecordTerminalEvent, SettleCost, RecordCharge,
           PurgeFailed, AfterPcs
  <2>. QED
    BY <2>1, AfterFrame, QueueAssumption DEF Holds, RunPcs
<1>1. \A v \in Workers : ~Working(v, j)'
  BY <1>0, HoldersRest DEF Holds, Working
<1>2. \A v \in Workers \ {w} : ~(job'[v] = j /\ pc'[v] = "charge")
  BY <1>0, HoldersRest
<1>3. CASE row'[j].status \in {"failed", "deleted"}
  BY <1>1, <1>3 DEF Accounted, Settled
<1>4. CASE UNCHANGED row /\ row[j].status \notin {"done", "awaiting_review"}
  <2>. HIDE DEF Cost
  <2>1. Cost(j)' = Cost(j) /\ (IsGuidedMeasureJob(j)' <=> IsGuidedMeasureJob(j))
    BY <1>4 DEF Cost, IsGuidedMeasureJob
  <2>. QED
    BY <1>0, <1>1, <1>4, <2>1 DEF Accounted, Settled
<1>5. CASE UNCHANGED row /\ row[j].status \in {"done", "awaiting_review"}
  <2>1. /\ Cost(j)' = Cost(j) /\ spent[j] = Cost(j) /\ SpendOn(j) = Cost(j)
        /\ row[j].status = "awaiting_review" => row[j].answers = 0
    BY <1>5 DEF Accounted, Cost, SpendOn, Live
  <2>2. Accounted(j)'
    <3>. HIDE DEF Cost
    <3>. QED
      BY <1>0, <1>1, <1>5, <2>1 DEF Accounted
  <2>3. /\ spent[j] \in Nat /\ ledger[j].charged \in Nat /\ ledger[j].rows \in Nat
        /\ due[w] \in Nat /\ ledger[j].charged <= spent[j]
        /\ Outstanding(j) = spent[j] - ledger[j].charged
    BY <1>0, <2>1, MoneyTypes DEF Covered, Outstanding
  <2>4. ASSUME pc'[w] = "charge" PROVE ledger'[j].charged + due'[w] = spent'[j]
    <3>1. /\ UNCHANGED ledger
          /\ due'[w] = IF Outstanding(j) > 0 THEN Outstanding(j) ELSE 0
      BY <2>4, AfterCharges
    <3>. QED
      BY <1>0, <2>3, <3>1
  <2>5. ASSUME ~Holds(w, j)'
        PROVE  ledger'[j].rows > 0 /\ ledger'[j].charged = spent'[j]
    <3>1. CASE RecordCharge(w)
      <4>1. /\ pc[w] = "charge"
            /\ ledger'[j].rows = ledger[j].rows + 1
            /\ ledger'[j].charged = ledger[j].charged + due[w]
        BY <3>1, AfterCharges
      <4>2. ledger[j].charged + due[w] = spent[j]
        BY <1>5, <4>1 DEF Settled
      <4>. QED
        BY <1>0, <2>3, <4>1, <4>2
    <3>2. CASE SettleCost(w)
      <4>1. pc'[w] # "charge"
        BY <2>5, <3>2, AfterCharges DEF Holds, AfterPcs
      <4>2. Outstanding(j) <= 0 /\ ledger[j].rows > 0
        BY <3>2, <4>1 DEF SettleCost, TypeOK, WorkerTypeOK
      <4>3. ledger' = ledger
        BY <3>2 DEF SettleCost
      <4>. QED
        BY <1>0, <2>3, <4>2, <4>3
    <3>3. CASE RecordTerminalEvent(w)
      BY <2>5, <3>3 DEF RecordTerminalEvent, Holds, AfterPcs, TypeOK, WorkerTypeOK
    <3>4. CASE RecordFailure(w) \/ PurgeFailed(w)
      <4>1. RecordFailure(w) => row[j].status \in {"absent", "deleted"}
        BY <1>5, <3>4, RecordFailureDoes DEF Live, Becomes
      <4>2. ~PurgeFailed(w)
        <5>1. ASSUME PurgeFailed(w) PROVE row'[j].status = "deleted"
          BY <1>0, <5>1, WriteDoes DEF PurgeFailed, Removed, BlankRow
        <5>. QED
          BY <1>5, <5>1
      <4>. QED
        BY <1>5, <3>4, <4>1, <4>2
    <3>. QED
      BY <3>1, <3>2, <3>3, <3>4 DEF AfterStep
  <2>6. Settled(j)'
    BY <1>2, <2>4, <2>5 DEF Settled
  <2>. QED
    BY <2>2, <2>6
<1>. QED
  <2>1. UNCHANGED row \/ row'[j].status \in {"failed", "deleted"}
    BY AfterFrame, RecordFailureDoes DEF Becomes
  <2>. QED
    BY <1>3, <1>4, <1>5, <2>1

LEMMA SettlementStep ==
  ASSUME TypeOK, TypeOK', OneHolder, ClaimInv, PhaseInv, ApprovalInv, LedgerInv,
         SettlementInv, [Next]_vars
  PROVE  SettlementInv'
<1>. SUFFICES ASSUME NEW j \in Owned, j \notin mishap', Undisturbed(j)'
              PROVE  Accounted(j)' /\ Settled(j)'
  BY DEF SettlementInv
<1>. DEFINE Goal == Accounted(j)' /\ Settled(j)'
<1>0. j \in Jobs /\ Undisturbed(j) /\ Covered(j)
  BY StatusMoves, QueueAssumption DEF LedgerInv
<1>1. mishap \subseteq mishap'
  BY ApiDoes, ClaimStepDoes, PipelineFrame, AfterFrame DEF Next, WorkerStep, vars
<1>2. Accounted(j) /\ Settled(j)
  BY <1>0, <1>1 DEF SettlementInv
<1>3. ASSUME Same(j), spent'[j] = spent[j], ledger'[j] = ledger[j],
             \A v \in Workers : Working(v, j)' \/ Holds(v, j) \/ job'[v] = j => Rests(v)
      PROVE  Goal
  <2>1. Accounted(j)'
    BY <1>0, <1>2, <1>3, AccountedKept
  <2>2. Settled(j)'
    BY <1>0, <1>2, <1>3, SettledKept DEF Rests, Holds, Same, Becomes
  <2>. QED
    BY <2>1, <2>2
<1>. SUFFICES Goal
  OBVIOUS
<1>. HIDE DEF Goal
<1>4. CASE UNCHANGED vars
  BY <1>3, <1>4 DEF vars, Same, Becomes, Rests
<1>5. CASE (ApiStep \/ \E k \in Jobs : Age(k)) \/ \E w \in Workers : ClaimStep(w)
  BY <1>0, <1>1, <1>2, <1>5, BooksKeptOutside DEF Goal, PhaseInv
<1>6. ASSUME NEW w \in Workers, PipelineStep(w) PROVE Goal
  <2>1. /\ OthersRest(w) /\ OtherRows(job[w]) /\ job'[w] = job[w] /\ UNCHANGED ledger
        /\ Working(w, job[w])
        /\ \A k \in Jobs \ {job[w]} : spent'[k] = spent[k]
    BY <1>6, PipelineFrame, PipelinePays
  <2>2. CASE job[w] # j
    BY <1>0, <1>3, <2>1, <2>2 DEF OthersRest, OtherRows, Same, Becomes, Working, Holds
  <2>3. CASE job[w] = j
    <3>1. row[j].status = "running" /\ PhaseOf(w, j)
      BY <1>0, <2>1, <2>3 DEF ClaimInv, WorkingRuns, PhaseInv, PhasesHold
    <3>. QED
      BY <1>0, <1>2, <1>6, <2>3, <3>1, BooksOfRun DEF Goal
  <2>. QED
    BY <2>2, <2>3
<1>7. ASSUME NEW w \in Workers, AfterStep(w) \/ Crash(w) PROVE Goal
  <2>1. CASE job[w] # j
    <3>1. /\ OthersRest(w) /\ spent' = spent /\ row'[j] = row[j]
          /\ job'[w] # j
      BY <1>0, <1>7, <2>1, AfterFrame, QueueAssumption DEF OtherRows
    <3>2. ledger'[j] = ledger[j]
      BY <1>0, <1>7, <2>1, AfterCharges
    <3>. QED
      BY <1>3, <2>1, <3>1, <3>2 DEF OthersRest, Same, Becomes, Working, Holds
  <2>2. CASE job[w] = j
    <3>1. ~Crash(w)
      BY <1>0, <2>2 DEF Crash
    <3>. QED
      BY <1>0, <1>2, <1>7, <2>2, <3>1, BooksOfSettlement DEF Goal
  <2>. QED
    BY <2>1, <2>2
<1>. QED
  BY <1>4, <1>5, <1>6, <1>7 DEF Next, WorkerStep

LEMMA SettlementInvariant == Spec /\ []OneHolder => []SettlementInv
<1>1. Init => SettlementInv
  <2>1. ASSUME Init, NEW j \in Owned PROVE Accounted(j) /\ Settled(j)
    BY <2>1, QueueAssumption
       DEF Init, Accounted, Settled, Cost, BlankRow, Working, RunPcs, IsGuidedMeasureJob
  <2>. QED
    BY <2>1 DEF SettlementInv
<1>. QED
  BY <1>1, SettlementStep, TypeCorrect, ClaimInvariant, PhaseInvariant,
     ApprovalInvariant, LedgerInvariant, PTL DEF Spec

\* The ledger never charges more than was paid, through every crash, retry and
\* failed write, while one worker at a time is busy with a run.
THEOREM LedgerIsSound == Spec /\ []OneHolder => []LedgerSound
<1>1. LedgerInv => LedgerSound
  BY DEF LedgerInv, Covered, LedgerSound
<1>. QED
  BY <1>1, LedgerInvariant, PTL

\* A run that ended or paused without a mishap is charged exactly its cost.
THEOREM SettlementIsExact == Spec /\ []OneHolder => []SettledExactly
<1>1. SettlementInv => SettledExactly
  BY DEF SettlementInv, Settled, SettledExactly, Holds
<1>. QED
  BY <1>1, SettlementInvariant, PTL

\* The deployed worker settles alone: with one worker process both hold outright.
THEOREM OneWorkerSettles ==
  ASSUME \A v, w \in Workers : v = w
  PROVE  Spec => [](LedgerSound /\ SettledExactly)
<1>1. OneHolder
  BY DEF OneHolder
<1>2. []OneHolder
  BY <1>1, PTL
<1>. QED
  BY <1>2, LedgerIsSound, SettlementIsExact, PTL

=============================================================================
