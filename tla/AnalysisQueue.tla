--------------------------- MODULE AnalysisQueue ---------------------------
(***************************************************************************)
(* The analysis queue: the `analyses` table used as a queue, the Redis     *)
(* dispatch list in front of it, the worker loop, the six pipeline steps,  *)
(* the settlement of the run's cost and the requests of the guided review. *)
(* One action is one database transaction (or one paid call) of the code;  *)
(* a worker may be killed between any two of them.                         *)
(*                                                                         *)
(* Time is abstracted to the one comparison the code makes: `fresh` is     *)
(* claimed_at >= now - stale_claim_seconds, and Age lets it turn false     *)
(* whenever the row is running.                                            *)
(***************************************************************************)
EXTENDS Integers, Sequences, FiniteSets

CONSTANTS
    Jobs,          \* analysis ids
    Workers,       \* worker processes
    Requests,      \* API request threads serving the guided review
    Guided,        \* jobs submitted with run_mode = "guided"
    Owned,         \* jobs with an org_id and a created_by_user_id
    MaxAttempts,   \* jobs/queue.py MAX_ATTEMPTS
    MaxSubmitted,  \* bound: runs ever submitted
    KycPrice,      \* what one profile call costs
    AnswersPrice,  \* what one pass over the prompts costs
    NoJob

ASSUME QueueAssumption ==
    /\ IsFiniteSet(Jobs)
    /\ Guided \subseteq Owned       \* only the signed-in route sets run_mode
    /\ Owned \subseteq Jobs
    /\ MaxAttempts \in Nat \ {0}
    /\ MaxSubmitted \in Nat
    /\ KycPrice \in Nat
    /\ AnswersPrice \in Nat
    /\ NoJob \notin Jobs

Statuses == {"absent", "queued", "running", "awaiting_review", "done",
             "failed", "deleted"}
PromptSets == {"none", "generated", "curated"}

\* The steps in the order run_pipeline takes them, each with the progress
\* its completion writes.
ProgressAfter == [discovery |-> 15, kyc |-> 30, prompts |-> 45,
                  execute |-> 80, footprint |-> 90, scoring |-> 100]
Steps == DOMAIN ProgressAfter
MeasureSteps == {"execute", "footprint", "scoring"}
PromptsDone == ProgressAfter["prompts"]
NextStep == [discovery |-> "kyc", kyc |-> "prompts", prompts |-> "execute",
             execute |-> "footprint", footprint |-> "scoring",
             scoring |-> "scoring"]

RunPcs == {"reset", "measure_reset", "start", "work", "complete", "pause", "fail"}
AfterPcs == {"record", "settle", "charge", "purge"}
Pcs == {"idle", "claim_hint", "claim_next"} \cup RunPcs \cup AfterPcs

\* The columns of an `analyses` row, and of its children, that anything
\* below distinguishes. `answers` is the summed cost of its Response rows.
Rows == [status : Statuses, progress : 0 .. 100,
         attempts : Nat, fresh : BOOLEAN, kyc : BOOLEAN, kycCost : Nat,
         prompts : PromptSets, answers : Nat, born : Nat]
Views == [progress : 0 .. 100, kycCost : Nat]
Outcomes == {"done", "failed", "awaiting_review"}
Ops == {"kyc", "prompts", "execute"}

VARIABLES
    row,       \* the committed state of the table
    hints,     \* the Redis list queue:analysis, oldest first
    unsent,    \* jobs committed as queued whose id is not pushed yet
    redis,     \* does Redis answer? TRUE for good where no redis_url is set
    pc, job, step,
    outcome,   \* the status the worker's post-run bookkeeping acts on
    view,      \* columns as the worker's ORM session last saw them
    due,       \* money a worker holds uncommitted: answers, then the charge
    req        \* open review requests: past their check, not yet committed

table    == <<row>>
dispatch == <<hints, unsent, redis>>
worker   == <<pc, job, step, outcome, view, due>>

\* History: what really happened, which the database does not all remember.
VARIABLES
    spent,     \* money paid to providers per job
    ledger,    \* [rows, charged] of the credit ledger per job
    events,    \* terminal audit events per job
    runs,      \* pipeline runs started per job
    approved,  \* the prompt set the user last approved, "none" if never
    lapsed,    \* jobs claimed anew under a worker that was still running them
    late,      \* jobs a review request wrote to outside the review window
    mishap     \* jobs whose worker was killed or whose bookkeeping was lost

history == <<spent, ledger, events, runs, approved, lapsed, late, mishap>>
vars == <<table, dispatch, worker, req, history>>

Working(w, j) == job[w] = j /\ pc[w] \in RunPcs
Live(j) == row[j].status \notin {"absent", "deleted"}

\* The committed write of one row.
Write(j, r) == row' = [row EXCEPT ![j] = r]

Stale(j) == row[j].status = "running" /\ ~row[j].fresh

\* Variant: an interrupted run is never claimed again.
EligibleQueuedOnly(j) == row[j].status = "queued"
\* Variant: an interrupted run is claimed without waiting for its lease.
EligibleWithoutLease(j) == row[j].status \in {"queued", "running"}

\* What a worker may claim: a queued row, or a running one whose lease ran out.
Eligible(j) == row[j].status = "queued" \/ Stale(j)

\* Variant: the attempt about to start is not counted.
ExhaustedLate(j) == row[j].attempts > MaxAttempts
\* The claim that would be attempt number MaxAttempts + 1.
Exhausted(j) == row[j].attempts + 1 > MaxAttempts

IsGuidedMeasureJob(j) ==
    /\ j \in Guided
    /\ row[j].progress = PromptsDone
    /\ row[j].kyc

\* SQLAlchemy emits a column only when the assigned value differs from the
\* value the session holds; otherwise the stored one survives.
Emit(new, seen, stored) == IF new = seen THEN stored ELSE new

\* Variant: the profile is not billed.
SpendOnAnswers(j) == IF Live(j) THEN row[j].answers ELSE 0
\* cost_breakdown: what the rows that are still there cost.
SpendOn(j) == IF Live(j) THEN row[j].answers + row[j].kycCost ELSE 0

\* Variant: every settlement charges the whole spend.
OutstandingWhole(j) == SpendOn(j)
\* Spent and not yet charged.
Outstanding(j) == SpendOn(j) - ledger[j].charged

\* Variant: the ledger entry has the wrong sign.
Refund(entry, amount) ==
    [rows |-> entry.rows + 1, charged |-> entry.charged - amount]
\* _append: one more row of the ledger.
Charge(entry, amount) ==
    [rows |-> entry.rows + 1, charged |-> entry.charged + amount]

-----------------------------------------------------------------------------
RowTypeOK == row \in [Jobs -> Rows]
DispatchTypeOK == hints \in Seq(Jobs) /\ unsent \subseteq Jobs /\ redis \in BOOLEAN

\* A worker past its claim holds a job.
WorkerTypeOK ==
    /\ pc \in [Workers -> Pcs]
    /\ job \in [Workers -> Jobs \cup {NoJob}]
    /\ \A w \in Workers : pc[w] \notin {"idle", "claim_next"} => job[w] \in Jobs
    /\ step \in [Workers -> Steps]
    /\ outcome \in [Workers -> Outcomes]
    /\ view \in [Workers -> Views]
    /\ due \in [Workers -> Nat]

\* An open request is about a guided run.
RequestTypeOK ==
    /\ req \in [Requests -> [op : {"none"} \cup Ops, job : Jobs \cup {NoJob}]]
    /\ \A r \in Requests : req[r].op # "none" => req[r].job \in Guided

HistoryTypeOK ==
    /\ spent \in [Jobs -> Nat]
    /\ ledger \in [Jobs -> [rows : Nat, charged : Nat]]
    /\ events \in [Jobs -> SUBSET {"analysis:complete", "analysis:failed"}]
    /\ runs \in [Jobs -> Nat]
    /\ approved \in [Jobs -> PromptSets]
    /\ lapsed \in SUBSET Jobs
    /\ late \in SUBSET Jobs
    /\ mishap \in SUBSET Jobs

TypeOK == RowTypeOK /\ DispatchTypeOK /\ WorkerTypeOK /\ RequestTypeOK /\ HistoryTypeOK

\* A row with nothing computed yet, or nothing left.
BlankRow(status, born) ==
    [status |-> status, progress |-> 0, attempts |-> 0, fresh |-> FALSE,
     kyc |-> FALSE, kycCost |-> 0, prompts |-> "none", answers |-> 0,
     born |-> born]
Removed(j) == BlankRow("deleted", row[j].born)
NoView == [progress |-> 0, kycCost |-> 0]
NoRequest == [op |-> "none", job |-> NoJob]

Init ==
    /\ row = [j \in Jobs |-> BlankRow("absent", 0)]
    /\ hints = <<>>
    /\ unsent = {}
    /\ redis = TRUE
    /\ pc = [w \in Workers |-> "idle"]
    /\ job = [w \in Workers |-> NoJob]
    /\ step = [w \in Workers |-> "discovery"]
    /\ outcome = [w \in Workers |-> "done"]
    /\ view = [w \in Workers |-> NoView]
    /\ due = [w \in Workers |-> 0]
    /\ req = [r \in Requests |-> NoRequest]
    /\ spent = [j \in Jobs |-> 0]
    /\ ledger = [j \in Jobs |-> [rows |-> 0, charged |-> 0]]
    /\ events = [j \in Jobs |-> {}]
    /\ runs = [j \in Jobs |-> 0]
    /\ approved = [j \in Jobs |-> "none"]
    /\ lapsed = {}
    /\ late = {}
    /\ mishap = {}

-----------------------------------------------------------------------------
(***************************************************************************)
(* The API: submission, dispatch hints, deletion.                          *)
(***************************************************************************)

\* created_at: the position of a job in the order of submission.
Submitted == Cardinality({k \in Jobs : row[k].born > 0})

\* POST /analyses (and a fresh POST /checker): the row commits as queued; the
\* hint is pushed afterwards, by Notify.
Submit(j) ==
    /\ row[j].status = "absent"
    /\ Submitted < MaxSubmitted
    /\ Write(j, BlankRow("queued", 1 + Submitted))
    /\ unsent' = unsent \cup {j}
    /\ UNCHANGED <<hints, redis, worker, req, history>>

\* notify_analysis_enqueued: LPUSH after the commit. Redis may be switched off
\* or not answer, which fails the request, or the process may die first: the row
\* is queued all the same.
Notify(j) ==
    /\ j \in unsent
    /\ unsent' = unsent \ {j}
    /\ \/ redis /\ hints' = Append(hints, j)
       \/ UNCHANGED hints
    /\ UNCHANGED <<redis, table, worker, req, history>>

\* Redis is out, and comes back with its list or, restarted, without it.
RedisFails ==
    /\ redis
    /\ redis' = FALSE
    /\ UNCHANGED <<hints, unsent, table, worker, req, history>>
RedisReturns ==
    /\ ~redis
    /\ redis' = TRUE
    /\ hints' \in {hints, <<>>}
    /\ UNCHANGED <<unsent, table, worker, req, history>>

\* Variant: the owner may delete a run at any time.
DeleteAnyTime(j) ==
    /\ j \in Owned
    /\ Live(j)
    /\ Write(j, Removed(j))
    /\ UNCHANGED <<dispatch, worker, req, history>>

\* DELETE /analyses/{id}: only a finished row, only by its owner.
DeleteByOwner(j) ==
    /\ j \in Owned
    /\ row[j].status = "done"
    /\ Write(j, Removed(j))
    /\ UNCHANGED <<dispatch, worker, req, history>>

\* stale_claim_seconds pass without a heartbeat.
Age(j) ==
    /\ row[j].status = "running"
    /\ row[j].fresh
    /\ Write(j, [row[j] EXCEPT !.fresh = FALSE])
    /\ UNCHANGED <<dispatch, worker, req, history>>

-----------------------------------------------------------------------------
(***************************************************************************)
(* The guided review. A request loads the row and passes                   *)
(* require_guided_review_window on what it loaded; it writes, unlocked, in *)
(* a later transaction step.                                               *)
(***************************************************************************)
OpenRequest(r, op, j) ==
    /\ req[r].op = "none"
    /\ j \in Guided
    /\ row[j].status = "awaiting_review"
    /\ op = "execute" => row[j].prompts # "none" /\ row[j].kyc
    /\ req' = [req EXCEPT ![r] = [op |-> op, job |-> j]]
    /\ UNCHANGED <<table, dispatch, worker, history>>

Overtaken(j) == IF row[j].status = "awaiting_review" THEN late
                                                     ELSE late \cup {j}

\* PATCH .../kyc: the profile is replaced and the prompts are rebuilt.
PatchKyc(r) ==
    LET j == req[r].job IN
    /\ req[r].op = "kyc"
    /\ Live(j)
    /\ Write(j, [row[j] EXCEPT !.kyc = TRUE, !.prompts = "generated"])
    /\ late' = Overtaken(j)
    /\ req' = [req EXCEPT ![r] = NoRequest]
    /\ UNCHANGED <<dispatch, worker, spent, ledger, events, runs, approved,
                   lapsed, mishap>>

\* PATCH .../prompts: the user's own prompt set replaces the editable one.
PatchPrompts(r) ==
    LET j == req[r].job IN
    /\ req[r].op = "prompts"
    /\ Live(j)
    /\ Write(j, [row[j] EXCEPT !.prompts = "curated"])
    /\ late' = Overtaken(j)
    /\ req' = [req EXCEPT ![r] = NoRequest]
    /\ UNCHANGED <<dispatch, worker, spent, ledger, events, runs, approved,
                   lapsed, mishap>>

\* POST .../execute-prompts-and-score: back to queued for the measure phase.
\* progress is assigned 45, which the session already holds, so no other
\* column is written.
RequestExecute(r) ==
    LET j == req[r].job IN
    /\ req[r].op = "execute"
    /\ Live(j)
    /\ Write(j, [row[j] EXCEPT !.status = "queued"])
    /\ approved' = [approved EXCEPT ![j] = row[j].prompts]
    /\ late' = Overtaken(j)
    /\ unsent' = unsent \cup {j}
    /\ req' = [req EXCEPT ![r] = NoRequest]
    /\ UNCHANGED <<hints, redis, worker, spent, ledger, events, runs, lapsed,
                   mishap>>

\* The request is refused by its validation, finds its row gone, or its
\* process dies: nothing is written.
DropRequest(r) ==
    /\ req[r].op # "none"
    /\ req' = [req EXCEPT ![r] = NoRequest]
    /\ UNCHANGED <<table, dispatch, worker, history>>

-----------------------------------------------------------------------------
(***************************************************************************)
(* The worker claims a job.                                                *)
(***************************************************************************)

\* A worker that gets no answer from Redis claims nothing: try_pop raises before
\* claim_next, worker.main logs it and polls again.
Polls(w) == pc[w] = "idle" /\ redis

\* try_pop: the hint leaves Redis before anything is known about its row.
PopHint(w) ==
    /\ Polls(w)
    /\ hints # <<>>
    /\ hints' = Tail(hints)
    /\ job' = [job EXCEPT ![w] = Head(hints)]
    /\ pc' = [pc EXCEPT ![w] = "claim_hint"]
    /\ UNCHANGED <<table, unsent, redis, step, outcome, view, due, req, history>>

\* _finalize_claim: one more attempt; past MaxAttempts the row fails where it
\* stands, otherwise it runs. `exhausted` is where the worker goes then.
FinalizeClaim(w, j, exhausted) ==
    /\ lapsed' = IF Stale(j) /\ \E v \in Workers : Working(v, j)
                 THEN lapsed \cup {j} ELSE lapsed
    /\ IF Exhausted(j)
       THEN /\ Write(j, [row[j] EXCEPT !.attempts = @ + 1, !.status = "failed",
                                       !.fresh = TRUE])
            /\ pc' = [pc EXCEPT ![w] = exhausted]
            /\ job' = [job EXCEPT ![w] = NoJob]
            /\ UNCHANGED <<view, runs>>
       ELSE /\ Write(j, [row[j] EXCEPT !.attempts = @ + 1, !.status = "running",
                                       !.fresh = TRUE])
            /\ pc' = [pc EXCEPT ![w] = IF IsGuidedMeasureJob(j)
                                       THEN "measure_reset" ELSE "reset"]
            /\ job' = [job EXCEPT ![w] = j]
            /\ view' = [view EXCEPT ![w] = [progress |-> row[j].progress,
                                            kycCost  |-> row[j].kycCost]]
            /\ runs' = [runs EXCEPT ![j] = @ + 1]

\* claim_analysis_by_id for the popped hint; on None, claim_next follows.
ClaimByHint(w) ==
    /\ pc[w] = "claim_hint"
    /\ \/ /\ Eligible(job[w])
          /\ FinalizeClaim(w, job[w], "claim_next")
       \/ /\ ~Eligible(job[w])
          /\ pc' = [pc EXCEPT ![w] = "claim_next"]
          /\ job' = [job EXCEPT ![w] = NoJob]
          /\ UNCHANGED <<table, view, runs, lapsed>>
    /\ UNCHANGED <<dispatch, step, outcome, due, req, spent, ledger, events,
                   approved, late, mishap>>

\* claim_next: the oldest eligible row.
ClaimNext(w) ==
    /\ \/ pc[w] = "claim_next"
       \/ Polls(w) /\ hints = <<>>
    /\ \E j \in Jobs :
          /\ Eligible(j)
          /\ \A k \in Jobs : Eligible(k) => row[j].born <= row[k].born
          /\ FinalizeClaim(w, j, "idle")
    /\ UNCHANGED <<dispatch, step, outcome, due, req, spent, ledger, events,
                   approved, late, mishap>>

\* claim_next after a useless hint finds nothing to do.
NothingToClaim(w) ==
    /\ pc[w] = "claim_next"
    /\ \A j \in Jobs : ~Eligible(j)
    /\ pc' = [pc EXCEPT ![w] = "idle"]
    /\ UNCHANGED <<table, dispatch, job, step, outcome, view, due, req, history>>

-----------------------------------------------------------------------------
(***************************************************************************)
(* The pipeline.                                                           *)
(***************************************************************************)
Goto(w, label, s) ==
    /\ pc' = [pc EXCEPT ![w] = label]
    /\ step' = [step EXCEPT ![w] = s]

\* Variant: the answers of an interrupted attempt are kept.
ResetRunKeepsAnswers(w) ==
    LET j == job[w] IN
    /\ pc[w] = "reset"
    /\ Live(j)
    /\ Write(j, [row[j] EXCEPT !.prompts = "none",
                          !.kycCost = Emit(0, view[w].kycCost, @)])
    /\ view' = [view EXCEPT ![w].kycCost = 0]
    /\ Goto(w, "start", "discovery")
    /\ UNCHANGED <<dispatch, job, outcome, due, req, history>>

\* run_pipeline opens by dropping everything an earlier attempt left.
ResetRun(w) ==
    LET j == job[w] IN
    /\ pc[w] = "reset"
    /\ Live(j)
    /\ Write(j, [row[j] EXCEPT !.prompts = "none", !.answers = 0,
                          !.kycCost = Emit(0, view[w].kycCost, @)])
    /\ view' = [view EXCEPT ![w].kycCost = 0]
    /\ Goto(w, "start", "discovery")
    /\ UNCHANGED <<dispatch, job, outcome, due, req, history>>

\* run_execute_prompts_and_score opens by dropping the measure outputs only;
\* a profile without prompts cannot be measured.
ResetMeasure(w) ==
    LET j == job[w] IN
    /\ pc[w] = "measure_reset"
    /\ Live(j)
    /\ Write(j, [row[j] EXCEPT !.answers = 0])
    /\ IF row[j].prompts = "none" THEN Goto(w, "fail", step[w])
                                  ELSE Goto(w, "start", "execute")
    /\ UNCHANGED <<dispatch, job, outcome, view, due, req, history>>

\* _start_step: the step is named and the lease renewed.
StartStep(w) ==
    LET j == job[w] IN
    /\ pc[w] = "start"
    /\ Live(j)
    /\ Write(j, [row[j] EXCEPT !.fresh = TRUE])
    /\ Goto(w, IF step[w] \in {"kyc", "execute"} THEN "work" ELSE "complete",
            step[w])
    /\ UNCHANGED <<dispatch, job, outcome, view, due, req, history>>

\* The kyc step's provider calls. Their cost is committed in a `finally`,
\* whether or not a usable profile came back.
GenerateKyc(w, usable) ==
    LET j == job[w] IN
    /\ pc[w] = "work"
    /\ step[w] = "kyc"
    /\ Live(j)
    /\ Write(j, [row[j] EXCEPT !.kyc = usable \/ @,
                          !.kycCost = Emit(KycPrice, view[w].kycCost, @)])
    /\ view' = [view EXCEPT ![w].kycCost = KycPrice]
    /\ spent' = [spent EXCEPT ![j] = @ + KycPrice]
    /\ Goto(w, IF usable THEN "complete" ELSE "fail", "kyc")
    /\ UNCHANGED <<dispatch, job, outcome, due, req, ledger, events, runs,
                   approved, lapsed, late, mishap>>

\* run_measured_execute: the answers are paid for one by one and flushed;
\* nothing is committed before the step completes.
RunMeasuredExecute(w) ==
    LET j == job[w] IN
    /\ pc[w] = "work"
    /\ step[w] = "execute"
    /\ due' = [due EXCEPT ![w] = AnswersPrice]
    /\ spent' = [spent EXCEPT ![j] = @ + AnswersPrice]
    /\ Goto(w, "complete", "execute")
    /\ UNCHANGED <<table, dispatch, job, outcome, view, req, ledger, events,
                   runs, approved, lapsed, late, mishap>>

\* Variant: the run stops for review one step early.
PausesBeforePrompts(j, s) == j \in Guided /\ s = "kyc"
\* Where a guided run stops for review.
Pauses(j, s) == j \in Guided /\ s = "prompts"

\* _complete_step for every step but the last: progress, lease and whatever
\* rows the step flushed, in one commit.
CompleteStep(w) ==
    LET j == job[w]
        s == step[w] IN
    /\ pc[w] = "complete"
    /\ s # "scoring"
    /\ Live(j)
    /\ Write(j, [row[j] EXCEPT
          !.progress = Emit(ProgressAfter[s], view[w].progress, @),
          !.fresh = TRUE,
          !.prompts = IF s = "prompts" THEN "generated" ELSE @,
          !.answers = IF s = "execute" THEN @ + due[w] ELSE @])
    /\ view' = [view EXCEPT ![w].progress = ProgressAfter[s]]
    /\ due' = [due EXCEPT ![w] = 0]
    /\ IF Pauses(j, s) THEN Goto(w, "pause", s)
                       ELSE Goto(w, "start", NextStep[s])
    /\ UNCHANGED <<dispatch, job, outcome, req, history>>

\* A guided run stops for review after its prompts.
AwaitReview(w) ==
    LET j == job[w] IN
    /\ pc[w] = "pause"
    /\ Live(j)
    /\ Write(j, [row[j] EXCEPT !.status = "awaiting_review", !.fresh = TRUE])
    /\ outcome' = [outcome EXCEPT ![w] = "awaiting_review"]
    /\ pc' = [pc EXCEPT ![w] = "settle"]
    /\ UNCHANGED <<dispatch, job, step, view, due, req, history>>

\* The scoring step ends the run: status, progress and lease in one commit.
FinishRun(w) ==
    LET j == job[w] IN
    /\ pc[w] = "complete"
    /\ step[w] = "scoring"
    /\ Live(j)
    /\ Write(j, [row[j] EXCEPT
          !.status = "done",
          !.progress = Emit(ProgressAfter["scoring"], view[w].progress, @),
          !.fresh = TRUE])
    /\ view' = [view EXCEPT ![w].progress = ProgressAfter["scoring"]]
    /\ outcome' = [outcome EXCEPT ![w] = "done"]
    /\ pc' = [pc EXCEPT ![w] = "record"]
    /\ UNCHANGED <<dispatch, job, step, due, req, history>>

\* Any step may raise (network, provider, require_usable, a row that is no
\* longer there): uncommitted work is rolled back.
StepRaises(w) ==
    /\ pc[w] \in RunPcs \ {"fail"}
    /\ pc' = [pc EXCEPT ![w] = "fail"]
    /\ due' = [due EXCEPT ![w] = 0]
    /\ UNCHANGED <<table, dispatch, job, step, outcome, view, req, history>>

-----------------------------------------------------------------------------
(***************************************************************************)
(* What run_once does after the pipeline: outcome, audit event, settlement,*)
(* purge. Each is a transaction; event and settlement are best effort.     *)
(***************************************************************************)

\* The session is closed and the worker polls again.
Release(w) ==
    /\ pc' = [pc EXCEPT ![w] = "idle"]
    /\ job' = [job EXCEPT ![w] = NoJob]
    /\ step' = [step EXCEPT ![w] = "discovery"]
    /\ outcome' = [outcome EXCEPT ![w] = "done"]
    /\ view' = [view EXCEPT ![w] = NoView]
    /\ due' = [due EXCEPT ![w] = 0]

\* Variant: a run that raised is put back into the queue.
RecordFailureForRetry(w) ==
    LET j == job[w] IN
    /\ pc[w] = "fail"
    /\ IF Live(j)
       THEN /\ Write(j, [row[j] EXCEPT !.status = "queued"])
            /\ outcome' = [outcome EXCEPT ![w] = "failed"]
            /\ pc' = [pc EXCEPT ![w] = "record"]
            /\ UNCHANGED <<job, step, view, due>>
       ELSE /\ Release(w)
            /\ UNCHANGED table
    /\ UNCHANGED <<dispatch, req, history>>

\* The except branch: the row is read again and, if it is still there, failed.
RecordFailure(w) ==
    LET j == job[w] IN
    /\ pc[w] = "fail"
    /\ IF Live(j)
       THEN /\ Write(j, [row[j] EXCEPT !.status = "failed"])
            /\ outcome' = [outcome EXCEPT ![w] = "failed"]
            /\ pc' = [pc EXCEPT ![w] = "record"]
            /\ UNCHANGED <<job, step, view, due>>
       ELSE /\ Release(w)
            /\ UNCHANGED table
    /\ UNCHANGED <<dispatch, req, history>>

\* Variant: an audit event that cannot be written raises into the run.
RecordTerminalEventOrFail(w) ==
    LET j == job[w]
        action == IF outcome[w] = "failed" THEN "analysis:failed"
                                           ELSE "analysis:complete" IN
    /\ pc[w] = "record"
    /\ \/ events' = [events EXCEPT ![j] = @ \cup {action}]
          /\ pc' = [pc EXCEPT ![w] = "settle"]
       \/ pc' = [pc EXCEPT ![w] = "fail"] /\ UNCHANGED events
    /\ UNCHANGED <<table, dispatch, job, step, outcome, view, due, req, spent,
                   ledger, runs, approved, lapsed, late, mishap>>

\* _record_terminal_event: committed, or lost with a log line.
RecordTerminalEvent(w) ==
    LET j == job[w]
        action == IF outcome[w] = "failed" THEN "analysis:failed"
                                           ELSE "analysis:complete" IN
    /\ pc[w] = "record"
    /\ \/ events' = [events EXCEPT ![j] = @ \cup {action}] /\ UNCHANGED mishap
       \/ mishap' = mishap \cup {j} /\ UNCHANGED events
    /\ pc' = [pc EXCEPT ![w] = "settle"]
    /\ UNCHANGED <<table, dispatch, job, step, outcome, view, due, req, spent,
                   ledger, runs, approved, lapsed, late>>

\* Where run_once goes once _settle is over (should_auto_purge_failed).
AfterSettle(w) ==
    IF outcome[w] = "failed" /\ job[w] \in Owned
    THEN /\ pc' = [pc EXCEPT ![w] = "purge"]
         /\ due' = [due EXCEPT ![w] = 0]
         /\ UNCHANGED <<job, step, outcome, view>>
    ELSE Release(w)

\* settle_cost reads what was spent and what was charged; public runs, and
\* runs with nothing new to charge, are skipped.
SettleCost(w) ==
    LET j == job[w] IN
    /\ pc[w] = "settle"
    /\ IF j \notin Owned \/ (Outstanding(j) <= 0 /\ ledger[j].rows > 0)
       THEN AfterSettle(w)
       ELSE /\ due' = [due EXCEPT ![w] = IF Outstanding(j) > 0
                                         THEN Outstanding(j) ELSE 0]
            /\ pc' = [pc EXCEPT ![w] = "charge"]
            /\ UNCHANGED <<job, step, outcome, view>>
    /\ UNCHANGED <<table, dispatch, req, history>>

\* The ledger row is inserted and committed, or lost with a log line.
RecordCharge(w) ==
    LET j == job[w] IN
    /\ pc[w] = "charge"
    /\ \/ /\ ledger' = [ledger EXCEPT ![j] = Charge(@, due[w])]
          /\ UNCHANGED mishap
       \/ mishap' = mishap \cup {j} /\ UNCHANGED ledger
    /\ AfterSettle(w)
    /\ UNCHANGED <<table, dispatch, req, spent, events, runs, approved, lapsed,
                   late>>

\* purge_analysis: the failed run of a user leaves no row.
PurgeFailed(w) ==
    LET j == job[w] IN
    /\ pc[w] = "purge"
    /\ Write(j, Removed(j))
    /\ Release(w)
    /\ UNCHANGED <<dispatch, req, history>>

\* The process is killed (deploy, OOM, power) and restarts idle.
Crash(w) ==
    /\ pc[w] # "idle"
    /\ mishap' = IF job[w] \in Jobs THEN mishap \cup {job[w]} ELSE mishap
    /\ Release(w)
    /\ UNCHANGED <<table, dispatch, req, spent, ledger, events, runs, approved,
                   lapsed, late>>

-----------------------------------------------------------------------------
ApiStep ==
    \/ \E j \in Jobs : Submit(j) \/ Notify(j) \/ DeleteByOwner(j)
    \/ RedisFails \/ RedisReturns
    \/ \E r \in Requests :
          \/ \E op \in Ops, j \in Jobs :
                OpenRequest(r, op, j)
          \/ PatchKyc(r) \/ PatchPrompts(r) \/ RequestExecute(r)
          \/ DropRequest(r)

ClaimStep(w) == PopHint(w) \/ ClaimByHint(w) \/ ClaimNext(w) \/ NothingToClaim(w)

PipelineStep(w) ==
    \/ ResetRun(w) \/ ResetMeasure(w) \/ StartStep(w)
    \/ \E usable \in BOOLEAN : GenerateKyc(w, usable)
    \/ RunMeasuredExecute(w) \/ CompleteStep(w) \/ AwaitReview(w)
    \/ FinishRun(w) \/ StepRaises(w)

AfterStep(w) ==
    \/ RecordFailure(w) \/ RecordTerminalEvent(w) \/ SettleCost(w)
    \/ RecordCharge(w) \/ PurgeFailed(w)

WorkerStep(w) == ClaimStep(w) \/ PipelineStep(w) \/ AfterStep(w)

Next ==
    \/ ApiStep
    \/ \E j \in Jobs : Age(j)
    \/ \E w \in Workers : WorkerStep(w) \/ Crash(w)

Spec == Init /\ [][Next]_vars

\* `while True` in worker.main, restarted by the container runtime, and the
\* passing of time. An outage of Redis ends, and of the times that Redis answers
\* some poll of the worker meets one: a claim needs it, so the loop is strongly
\* fair. Users and crashes owe nothing.
Fairness ==
    /\ \A w \in Workers : SF_vars(WorkerStep(w))
    /\ WF_vars(RedisReturns)
    /\ \A j \in Jobs : WF_vars(Age(j))

FairSpec == Spec /\ Fairness

-----------------------------------------------------------------------------
(***************************************************************************)
(* Properties.                                                             *)
(***************************************************************************)
Undisturbed(j) == j \notin lapsed \cup late

\* A job starts at most MaxAttempts pipeline runs, whatever crashes, expired
\* leases, duplicate hints, approvals and retries come together: the profile
\* phase and the measure phase of a guided run share one budget.
\* (jobs/queue.py _finalize_claim, the poison-job guard.)
RunsBounded == \A j \in Jobs : runs[j] <= MaxAttempts

\* Two workers run the same job only when its lease expired under a live
\* worker or a review request was overtaken: neither a duplicate hint nor the
\* race of hint and FIFO claim does it (jobs/queue.py, the two claims).
ClaimExclusive ==
    \A v, w \in Workers : \A j \in Jobs :
        Working(v, j) /\ Working(w, j) /\ Undisturbed(j) => v = w

\* The ledger never charges an organization more for a job than was paid to
\* providers for it, through every crash between settlement's read and write,
\* every retry and every failed write (services/analyses.py settle_cost).
LedgerSound == \A j \in Jobs : ledger[j].charged <= spent[j]

\* A run that finished, or paused for review, without a mishap is charged
\* exactly what it cost, once the worker is through with it: neither phase of
\* a guided run is forgotten, neither is charged twice.
SettledExactly ==
    \A j \in Owned \ mishap :
        /\ Undisturbed(j)
        /\ row[j].status \in {"done", "awaiting_review"}
        /\ \A w \in Workers : job[w] # j
        => ledger[j].rows > 0 /\ ledger[j].charged = spent[j]

\* A finished row holds the answers of exactly one pass: what an earlier,
\* interrupted attempt committed is gone (delete_analysis_children and
\* delete_measure_outputs at the start of a run).
OnePassOfAnswers ==
    \A j \in Jobs : Undisturbed(j) /\ row[j].status = "done" =>
        /\ row[j].answers = AnswersPrice
        /\ row[j].progress = 100
        /\ row[j].prompts # "none"

\* A run waiting for its user can be resumed: it holds a profile and prompts
\* and stands at the progress the worker recognises as a measure job, so an
\* approval is neither refused nor turned into a second profile phase.
ReviewIsResumable ==
    \A j \in Jobs : row[j].status = "awaiting_review" /\ Undisturbed(j) =>
        IsGuidedMeasureJob(j) /\ row[j].prompts # "none"

\* Without a crash or an overtaken request no answers are bought before the
\* user approved, and they are bought for the prompts the user approved
\* ("`guided` pauses after prompts", api/routes.py submit_analysis).
ApprovalRespected ==
    \A w \in Workers : \A j \in Guided \ mishap :
        Undisturbed(j) /\ Working(w, j) /\ step[w] \in MeasureSteps =>
            approved[j] # "none" /\ row[j].prompts = approved[j]

\* The pause of a guided run is a gate: it can be passed, and only by approval.
ReviewGate == ReviewIsResumable /\ ApprovalRespected

\* One analysis has one terminal outcome in the audit trail, never both
\* "complete" and "failed" (worker.py _record_terminal_event).
OneOutcome ==
    \A j \in Jobs : Undisturbed(j) =>
        events[j] # {"analysis:complete", "analysis:failed"}

\* A finished run stays finished until its owner deletes it, and a deleted row
\* never comes back.
DoneIsFinal ==
    [][\A j \in Jobs :
          /\ row[j].status = "done" /\ j \notin lapsed' \cup late'
             => row'[j].status \in {"done", "deleted"}
          /\ row[j].status = "deleted" => row'[j].status = "deleted"]_vars

\* Every submitted job leaves the queue: it ends, or it waits for its user,
\* however often workers crash and hints are lost.
QueueDrains ==
    \A j \in Jobs : row[j].status \in {"queued", "running"} ~>
        row[j].status \in {"awaiting_review", "done", "failed", "deleted"}

-----------------------------------------------------------------------------
(***************************************************************************)
(* The inductive invariants behind the safety properties.                  *)
(***************************************************************************)

\* A run is started by a claim that counted an attempt of a live row.
RunsInv ==
    \A j \in Jobs :
        /\ runs[j] <= MaxAttempts
        /\ Live(j) => runs[j] <= row[j].attempts
        /\ row[j].status = "absent" => runs[j] = 0

\* The row of an undisturbed job says running for as long as somebody runs it,
\* and failed, or nothing, once a worker has failed it.
WorkingRuns ==
    \A w \in Workers, j \in Jobs :
        Working(w, j) /\ Undisturbed(j) => row[j].status = "running"
FailureStands ==
    \A w \in Workers, j \in Jobs :
        job[w] = j /\ pc[w] \in AfterPcs /\ outcome[w] = "failed" /\ Undisturbed(j)
            => row[j].status \in {"failed", "deleted"}
PurgeIsOfFailure == \A w \in Workers : pc[w] = "purge" => outcome[w] = "failed"

ClaimInv == ClaimExclusive /\ WorkingRuns /\ FailureStands /\ PurgeIsOfFailure

\* What the row of an undisturbed job holds says how far its run is: the session
\* of its worker is current, answers exist only once the execute step committed
\* them, and a profile exists before prompts are generated from it.
InStep(w) == pc[w] \in {"start", "work", "complete"}
Measuring(w) == step[w] \in MeasureSteps \/ pc[w] = "measure_reset"

PhaseOf(w, j) ==
    /\ view[w].progress = row[j].progress /\ view[w].kycCost = row[j].kycCost
    /\ InStep(w) =>
          /\ row[j].answers = IF step[w] \in {"footprint", "scoring"}
                              THEN AnswersPrice ELSE 0
          /\ step[w] \in MeasureSteps => row[j].prompts # "none"
          /\ step[w] = "prompts" => row[j].kyc
    /\ pc[w] = "complete" /\ step[w] = "kyc" => row[j].kyc
    /\ pc[w] = "complete" /\ step[w] = "execute" => due[w] = AnswersPrice
    /\ pc[w] = "pause" => IsGuidedMeasureJob(j) /\ row[j].prompts # "none"

PhasesHold ==
    \A w \in Workers, j \in Jobs : Working(w, j) /\ Undisturbed(j) => PhaseOf(w, j)

PhaseInv == PhasesHold /\ ReviewIsResumable /\ OnePassOfAnswers

\* An approval reaches the worker unchanged: nothing but a crash puts a row that
\* says running back in front of a claim, and a worker that was not given the
\* measure phase starts at discovery.
StartsAtDiscovery ==
    \A w \in Workers : pc[w] \in {"idle", "claim_hint", "claim_next", "reset",
                                  "measure_reset"} => step[w] = "discovery"
RunningIsWorked ==
    \A j \in Jobs \ mishap : row[j].status = "running" /\ Undisturbed(j) =>
        \E w \in Workers : Working(w, j)
Approved(j) == approved[j] # "none" /\ row[j].prompts = approved[j]
ApprovalHolds ==
    \A j \in Guided \ mishap : Undisturbed(j) =>
        /\ row[j].status = "queued" /\ IsGuidedMeasureJob(j) => Approved(j)
        /\ \A w \in Workers : Working(w, j) /\ Measuring(w) => Approved(j)

ApprovalInv == StartsAtDiscovery /\ RunningIsWorked /\ ApprovalHolds

\* The outcome a worker is about to record is the one its row shows, nobody else
\* is about to record one, and what is recorded stays what the row shows.
Ended(w, j) == job[w] = j /\ pc[w] = "record"
OutcomeOf(j) ==
    /\ \A w \in Workers : Ended(w, j) =>
          /\ outcome[w] \in {"done", "failed"}
          /\ row[j].status \in {outcome[w], "deleted"}
    /\ \A v, w \in Workers : Ended(v, j) /\ Ended(w, j) => v = w
    /\ "analysis:complete" \in events[j] =>
          /\ row[j].status \in {"done", "deleted"}
          /\ \A w \in Workers : Ended(w, j) => outcome[w] # "failed"
    /\ "analysis:failed" \in events[j] =>
          /\ row[j].status \in {"failed", "deleted"}
          /\ \A w \in Workers : Ended(w, j) => outcome[w] # "done"
    /\ events[j] # {"analysis:complete", "analysis:failed"}

OutcomeInv == \A j \in Jobs : Undisturbed(j) => OutcomeOf(j)

\* Until it fails, a row of an undisturbed job counts exactly the runs started.
TriesInv ==
    \A j \in Jobs :
        Undisturbed(j) /\ row[j].status \in {"queued", "running", "awaiting_review", "done"}
            => runs[j] = row[j].attempts

\* One worker at a time is busy with a job, from its claim to its release. One
\* worker guarantees it; with several, an approval can arrive, and be claimed,
\* while the worker that paused the run is still settling it.
Holds(w, j) == job[w] = j /\ pc[w] \in RunPcs \cup AfterPcs
OneHolder ==
    \A v, w \in Workers, j \in Jobs : Holds(v, j) /\ Holds(w, j) => v = w

\* What the row costs, what its worker has paid and not committed, and what it is
\* about to charge, are all covered by what was paid to providers.
Cost(j) == row[j].answers + row[j].kycCost
Paid(w, j) == job[w] = j /\ pc[w] = "complete" /\ step[w] = "execute"
Covered(j) ==
    /\ ledger[j].charged <= spent[j]
    /\ Cost(j) <= spent[j]
    /\ \A w \in Workers :
          /\ Paid(w, j) => Cost(j) + due[w] <= spent[j]
          /\ job[w] = j /\ pc[w] = "charge" => ledger[j].charged + due[w] <= spent[j]

LedgerInv == \A j \in Jobs : Covered(j)

\* Without a mishap the row of an undisturbed job says exactly what was paid,
\* before, during and after the run.
Unbilled(w, j) ==   \* w runs j and the profile is not bought yet
    /\ Working(w, j)
    /\ \/ pc[w] = "reset"
       \/ step[w] = "discovery" /\ pc[w] # "measure_reset"
       \/ step[w] = "kyc" /\ pc[w] \in {"start", "work"}
Accounted(j) ==
    /\ row[j].status \in {"absent", "queued", "awaiting_review", "done"} =>
          spent[j] = Cost(j)
    /\ row[j].status = "absent" => row[j].kycCost = 0
    /\ row[j].status = "queued" /\ ~IsGuidedMeasureJob(j) => row[j].kycCost = 0
    /\ row[j].status \in {"absent", "queued", "awaiting_review"} => row[j].answers = 0
    /\ \A w \in Workers : Working(w, j) /\ pc[w] # "fail" =>
          /\ spent[j] = Cost(j) + IF Paid(w, j) THEN AnswersPrice ELSE 0
          /\ pc[w] \in {"reset", "measure_reset", "pause"} => row[j].answers = 0
          /\ Unbilled(w, j) => row[j].kycCost = 0
Settled(j) ==
    row[j].status \in {"done", "awaiting_review"} =>
       /\ \A w \in Workers : job[w] = j /\ pc[w] = "charge" =>
             ledger[j].charged + due[w] = spent[j]
       /\ (\A w \in Workers : ~Holds(w, j)) =>
             ledger[j].rows > 0 /\ ledger[j].charged = spent[j]

SettlementInv ==
    \A j \in Owned \ mishap : Undisturbed(j) => Accounted(j) /\ Settled(j)

=============================================================================
