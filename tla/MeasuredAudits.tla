-------------------------- MODULE MeasuredAudits --------------------------
(***************************************************************************)
(* The paid step of a run: every prompt is searched once, every model      *)
(* answers from the same results, the marks [1], [2] of an answer are      *)
(* repaired once at most, and a second call extracts the audit             *)
(* (pipeline/execute_measured.py, llm_analytics_measured.py, simulated.py).*)
(* What is stored is later read by the citation report                     *)
(* (citations/report.py).                                                  *)
(*                                                                         *)
(* A text is the set of the ranks it marks and whether its words are still *)
(* the model's; a search result is a page; a price is a whole number that  *)
(* the number of models divides.                                           *)
(***************************************************************************)
EXTENDS Integers, Sequences, FiniteSets, SequencesExt, FiniteSetsExt

CONSTANTS Pages,        \* what a search can return
          Unreadable,   \* pages whose address canonical_url refuses
          HostOf,       \* the site of each page
          Probes,       \* prompts that name the brand: their category is brand-probe
          MaxResults,   \* results of one search
          MaxModels,    \* models a run asks
          MaxPrompts,   \* prompts of a run
          MaxResponses, \* settings.max_responses_per_job
          SearchPrice, AnswerPrice, RepairPrice, AuditPrice

ASSUME SizesAssumption ==
    /\ \A n \in {MaxResults, MaxModels, MaxPrompts} : n \in Nat \ {0}
    /\ MaxResponses \in Nat
ASSUME PagesAssumption == Unreadable \subseteq Pages /\ DOMAIN HostOf = Pages
ASSUME PricesAssumption ==
    /\ {SearchPrice, AnswerPrice, RepairPrice, AuditPrice} \subseteq Nat
    /\ \A n \in 1..MaxModels :
          \A p \in {SearchPrice, AnswerPrice, RepairPrice, AuditPrice} : p % n = 0

VARIABLES mode,     \* "measured", "simulated" or "dry": settings.geo_mode, DRY_RUN
          models,   \* how many model slugs are configured
          prompt,   \* the prompt being run
          phase,    \* what happens next to it
          results,  \* the search of this prompt: pages in the order of their rank
          draft,    \* the answer in progress
          batch,    \* the records of this prompt, one for each model so far
          responses,\* the table of answers, what is stored of the run
          spent,    \* what the vendors were paid
          wasted    \* a call was paid whose reply could not be used, or a record dropped

measureVars == <<mode, models, prompt, phase, results, draft, batch, responses, spent, wasted>>

-----------------------------------------------------------------------------
(* Search evidence.  TavilyClient numbers the results 1, 2, ...            *)

Ranks == 1..(MaxResults + 1)   \* the last one is a rank no search has

\* evidence.result_lookup, evidence.canonical_url
Backed(rank) == rank \in DOMAIN results /\ results[rank] \notin Unreadable

\* _citation_marker_quality, of the ranks cited and the ranks marked
Quality(cites, marks) ==
    IF cites = {} THEN "no_citations"
    ELSE IF cites = marks THEN "valid"
    ELSE IF cites \cap marks = {} THEN "missing_inline_markers"
    ELSE "invalid_inline_markers"

Settled == {"valid", "no_citations"}

\* Variant: a citation is kept when the search has its rank, whatever its address.
NormalizedByRank(cites) == {rank \in cites : rank \in DOMAIN results}

\* normalize_grounded_citations: what the model says it cited, kept when a
\* search result with a usable address stands behind it.
Normalized(cites) == {rank \in cites : Backed(rank)}

NoDraft == [cites |-> {}, marks |-> {}, own |-> TRUE, status |-> "none", cost |-> 0]

\* _allocate_shared_cost
Share(cost) == cost \div models

\* _set_record_cost, of a record all of whose calls succeeded
RecordCost(d, audit) == Share(SearchPrice + d.cost) + audit

\* _measured_error_record: the share of the search and the whole answer
ErrorCost(d) == Share(SearchPrice) + d.cost

Record(d, stage, cost) ==
    [prompt |-> prompt, model |-> Len(batch) + 1, error |-> stage, results |-> results,
     cites |-> d.cites, marks |-> d.marks, own |-> d.own,
     status |-> d.status, cost |-> cost]

-----------------------------------------------------------------------------
MeasureInit ==
    /\ mode \in {"measured", "simulated", "dry"}
    /\ models \in 1..MaxModels
    /\ prompt = 1 /\ phase = "search"
    /\ results = <<>> /\ draft = NoDraft
    /\ batch = <<>> /\ responses = <<>>
    /\ spent = 0 /\ wasted = FALSE

\* search.search: one search for all the models.  A search that fails is not
\* caught: the whole step raises, and its transaction is rolled back.
Search ==
    /\ phase = "search" /\ mode = "measured"
    /\ \/ /\ \E found \in BoundedSeq(Pages, MaxResults) : results' = found
          /\ spent' = spent + SearchPrice
          /\ phase' = "ask"
          /\ UNCHANGED <<batch, responses, wasted>>
       \/ /\ phase' = "raised"
          /\ batch' = <<>> /\ responses' = <<>>
          /\ wasted' = (wasted \/ spent > 0)
          /\ UNCHANGED <<results, spent>>
    /\ UNCHANGED <<mode, models, prompt, draft>>

\* The record of one model is complete; the next model is asked, or the
\* records of the prompt are stored.
Close(record) ==
    /\ batch' = Append(batch, record)
    /\ draft' = NoDraft
    /\ phase' = IF Len(batch) + 1 < models THEN "ask" ELSE "persist"

\* call_grounded_answer fails: an error record, whether the call was billed or not.
AskFails ==
    /\ phase = "ask" /\ mode = "measured"
    /\ \E billed \in BOOLEAN :
          /\ spent' = spent + (IF billed THEN AnswerPrice ELSE 0)
          /\ wasted' = (wasted \/ billed)
    /\ Close(Record(NoDraft, "grounded_answer", ErrorCost(NoDraft)))
    /\ UNCHANGED <<mode, models, prompt, results, responses>>

\* call_grounded_answer and normalize_grounded_citations
Ask ==
    /\ phase = "ask" /\ mode = "measured"
    /\ \E said \in SUBSET Ranks, marks \in SUBSET Ranks :
          LET cites == Normalized(said)
              status == Quality(cites, marks)
          IN  /\ draft' = [cites |-> cites, marks |-> marks, own |-> TRUE,
                           status |-> status, cost |-> AnswerPrice]
              /\ phase' = IF status \in Settled THEN "extract" ELSE "repair"
    /\ spent' = spent + AnswerPrice
    /\ UNCHANGED <<mode, models, prompt, results, batch, responses, wasted>>

\* Variant: a repaired text is taken for its marks alone.
AcceptedForMarks(marks, own) == Quality(draft.cites, marks) = "valid"

\* What repair_grounded_citation_markers accepts: the marks of the citations,
\* around the model's own words.
Accepted(marks, own) == Quality(draft.cites, marks) = "valid" /\ own

\* repair_grounded_citation_markers: one call, whose text is taken or dropped.
Repair ==
    /\ phase = "repair"
    /\ \/ \E marks \in SUBSET Ranks, own \in BOOLEAN :
             /\ draft' = IF Accepted(marks, own)
                         THEN [draft EXCEPT !.marks = marks, !.own = own, !.status = "valid",
                                            !.cost = @ + RepairPrice]
                         ELSE [draft EXCEPT !.status = "repair_failed", !.cost = @ + RepairPrice]
             /\ spent' = spent + RepairPrice
             /\ UNCHANGED wasted
       \/ \E billed \in BOOLEAN :    \* the call or its JSON fails
             /\ draft' = [draft EXCEPT !.status = "repair_error"]
             /\ spent' = spent + (IF billed THEN RepairPrice ELSE 0)
             /\ wasted' = (wasted \/ billed)
    /\ phase' = "extract"
    /\ UNCHANGED <<mode, models, prompt, results, batch, responses>>

\* call_audit_extraction and merge_measured_record, or an error record
Extract ==
    /\ phase = "extract"
    /\ \/ /\ Close(Record(draft, "no", RecordCost(draft, AuditPrice)))
          /\ spent' = spent + AuditPrice
          /\ UNCHANGED wasted
       \/ \E billed \in BOOLEAN :
             /\ Close(Record(draft, "audit_extraction", ErrorCost(draft)))
             /\ spent' = spent + (IF billed THEN AuditPrice ELSE 0)
             /\ wasted' = (wasted \/ billed)
    /\ UNCHANGED <<mode, models, prompt, results, responses>>

\* _run_simulated_audit_live: one call and no search; the citations are the
\* model's own, with no rank and no result behind them.
Simulate ==
    /\ mode = "simulated" /\ phase \in {"search", "ask"}
    /\ \/ /\ Close(Record(NoDraft, "no", AuditPrice))
          /\ spent' = spent + AuditPrice
          /\ UNCHANGED wasted
       \/ \E billed \in BOOLEAN :
             /\ Close(Record(NoDraft, "simulated_audit", 0))
             /\ spent' = spent + (IF billed THEN AuditPrice ELSE 0)
             /\ wasted' = (wasted \/ billed)
    /\ UNCHANGED <<mode, models, prompt, results, responses>>

\* DRY_RUN: mock_search and _build_mock_shared_evidence, or
\* mock_simulated_record.  Three results are cited, one of them marked.
DryRun ==
    /\ mode = "dry" /\ phase \in {"search", "ask"}
    /\ \E mentioned \in BOOLEAN :
          Close(Record([NoDraft EXCEPT !.marks = {IF mentioned THEN 1 ELSE 2}], "no", 0))
    /\ UNCHANGED <<mode, models, prompt, results, responses, spent, wasted>>

\* What of the batch still fits under the cap of the run.
Fitting == SubSeq(batch, 1, Min({Len(batch), MaxResponses - Len(responses)}))

\* run_measured_execute: the records are stored while the cap allows; the loop
\* ends at the cap or after the last prompt.
Persist ==
    /\ phase = "persist"
    /\ responses' = responses \o Fitting
    /\ wasted' = (wasted \/ Fitting # batch)
    /\ batch' = <<>> /\ results' = <<>>
    /\ IF prompt = MaxPrompts \/ Len(responses') >= MaxResponses
       THEN phase' = "done" /\ UNCHANGED prompt
       ELSE phase' = "search" /\ prompt' = prompt + 1
    /\ UNCHANGED <<mode, models, draft, spent>>

MeasureNext ==
    \/ Search
    \/ AskFails
    \/ Ask
    \/ Repair
    \/ Extract
    \/ Simulate
    \/ DryRun
    \/ Persist

MeasureSpec == MeasureInit /\ [][MeasureNext]_measureVars

-----------------------------------------------------------------------------
(* The citation report and the ranking of the sector, over the stored rows *)

Provenance == IF mode = "dry" THEN "mock" ELSE IF mode = "simulated" THEN "simulated"
              ELSE "grounded"

\* build_citation_report: why an answer is not counted, "no" if it is
ReportExclusion(row) ==
    IF Provenance # "grounded" THEN Provenance
    ELSE IF row.error # "no" THEN "failed_or_unverified_answer"
    ELSE "no"

Eligible(row) == ReportExclusion(row) = "no"

\* Why a citation is turned down, by the first test it fails: a rank the search
\* does not have, an address that cannot be read, no mark in the answer.
Rejection(row, rank) ==
    IF rank \notin DOMAIN row.results THEN "unmatched_result_rank"
    ELSE IF row.results[rank] \in Unreadable THEN "invalid_source_url"
    ELSE IF rank \notin row.marks THEN "missing_inline_marker"
    ELSE "no"

Rejected(row) == {rank \in row.cites : Rejection(row, rank) # "no"}

\* The pages one answer is counted for, each once.
CountedPages(row) ==
    IF Eligible(row) THEN {row.results[rank] : rank \in row.cites \ Rejected(row)} ELSE {}

\* The rows of the report: the answers that cite a page, or any page of a site.
PageAnswers(page) == {i \in DOMAIN responses : page \in CountedPages(responses[i])}
SiteAnswers(host) ==
    {i \in DOMAIN responses : \E page \in CountedPages(responses[i]) : HostOf[page] = host}

\* build_industry_ranking: its own exclusions, read from geo_records
RankingExclusion(row) ==
    IF row.prompt \in Probes THEN "brand_probe"
    ELSE IF phase # "done" THEN "analysis_not_complete"
    ELSE IF Provenance # "grounded" THEN Provenance
    ELSE IF row.error # "no" THEN "failed_or_missing_answer"
    ELSE "no"

Candidates == {i \in DOMAIN responses : RankingExclusion(responses[i]) = "no"}

\* Bucket.add, for a page and for its site: citations are walked one by one.
RankedFor(bucket) ==
    {i \in Candidates :
        \E rank \in responses[i].cites :
            Rejection(responses[i], rank) = "no" /\ responses[i].results[rank] \in bucket}

RankedPage(page) == RankedFor({page})
RankedSite(host) == RankedFor({page \in Pages : HostOf[page] = host})

-----------------------------------------------------------------------------
(* Properties                                                              *)

Records == [prompt : 1..MaxPrompts, model : 1..MaxModels,
            error : {"no", "grounded_answer", "audit_extraction", "simulated_audit"},
            results : BoundedSeq(Pages, MaxResults), cites : SUBSET Ranks, marks : SUBSET Ranks,
            own : BOOLEAN,
            status : {"none", "no_citations", "valid", "repair_failed", "repair_error"},
            cost : Nat]

\* The rows never outgrow the cap of the run, nor the batch its models, and a
\* stored record is never left with a status the repair should have settled.
RecordsTyped ==
    /\ Len(responses) <= MaxResponses
    /\ Len(batch) <= models
    /\ \A i \in DOMAIN responses : responses[i] \in Records
    /\ spent \in Nat /\ wasted \in BOOLEAN

\* Whatever call fails, every prompt gets one row for each model, in the order
\* of the prompts and of the models, up to the cap: a failure of one model
\* neither drops nor shifts the rows of the others.
OneRowPerModel ==
    /\ \A i \in DOMAIN responses :
          /\ responses[i].prompt = ((i - 1) \div models) + 1
          /\ responses[i].model = ((i - 1) % models) + 1
    /\ phase = "done" => Len(responses) = Min({MaxPrompts * models, MaxResponses})

\* What records cost together: the units of price, each counted for its record.
Units(records) == UNION {{i} \X (1..records[i].cost) : i \in DOMAIN records}
Charged(records) == Cardinality(Units(records))

\* The rows never charge the user more than the vendors were paid, and they
\* charge exactly that when one model is asked and no paid call was lost.
CostNeverInflated ==
    phase \in {"search", "done"} =>
        /\ Charged(responses) <= spent
        /\ (models = 1 /\ ~wasted) => Charged(responses) = spent

\* The report finds a search result and a mark behind every citation of an
\* answer whose markers were found, or made, valid: none of them is rejected.
ValidIsCounted ==
    \A i \in DOMAIN responses :
        (Eligible(responses[i]) /\ responses[i].status \in Settled) => Rejected(responses[i]) = {}

\* A repair moves marks and never words: every stored answer is what its model
\* said, and a page the report counts was found by the search of that answer's
\* prompt and is marked in it.
NothingInvented ==
    \A i \in DOMAIN responses :
        /\ responses[i].own
        /\ \A page \in CountedPages(responses[i]) :
              \E rank \in DOMAIN responses[i].results :
                  /\ responses[i].results[rank] = page /\ page \notin Unreadable
                  /\ rank \in responses[i].marks /\ rank \in responses[i].cites

\* The report of a run and the ranking of its sector, which read two copies of
\* the rows apart and exclude answers by rules of their own, count the same answers
\* for a page and for a site, but for the questions that name the brand, which
\* only the report counts; a run that is not done is not ranked.
RankingAgrees ==
    LET probed == {i \in DOMAIN responses : responses[i].prompt \in Probes} IN
    /\ phase # "done" => Candidates = {}
    /\ phase = "done" =>
          /\ \A page \in Pages : RankedPage(page) = PageAnswers(page) \ probed
          /\ \A host \in {HostOf[page] : page \in Pages} :
                RankedSite(host) = SiteAnswers(host) \ probed

\* The rows are complete, in order, and what the models and the search said.
RecordsSound == RecordsTyped /\ OneRowPerModel /\ NothingInvented

\* The rows agree with the bills that are paid, and with the reports read from them.
NumbersAgree == CostNeverInflated /\ ValidIsCounted /\ RankingAgrees

-----------------------------------------------------------------------------
(***************************************************************************)
(* The inductive invariant behind them: what an answer in progress cites   *)
(* is backed by its search, the batch is as far as the models asked, and   *)
(* what is recorded or still to be recorded was paid.                      *)
(***************************************************************************)
Phases == {"search", "ask", "repair", "extract", "persist", "done", "raised"}
Drafts == [cites : SUBSET Ranks, marks : SUBSET Ranks, own : BOOLEAN,
           status : {"none", "no_citations", "valid", "missing_inline_markers",
                     "invalid_inline_markers", "repair_failed", "repair_error"},
           cost : Nat]

\* A draft, or a record, whose words are the model's and whose citations found
\* back a page, with a mark if its status says so.
Faithful(answer, found) ==
    /\ answer.own
    /\ \A rank \in answer.cites : rank \in DOMAIN found /\ found[rank] \notin Unreadable
    /\ answer.status \in Settled => answer.cites \subseteq answer.marks

DraftInv ==
    /\ mode \in {"measured", "simulated", "dry"} /\ models \in 1..MaxModels
    /\ phase \in Phases /\ (phase \in {"repair", "extract"} => mode = "measured")
    /\ results \in BoundedSeq(Pages, MaxResults)
    /\ draft \in Drafts /\ Faithful(draft, results)
    /\ phase \notin {"repair", "extract"} => draft = NoDraft
    /\ phase = "extract" =>
          draft.status \in {"no_citations", "valid", "repair_failed", "repair_error"}

BatchInv ==
    /\ batch \in Seq(Records)
    /\ \A k \in 1..Len(batch) :
          /\ batch[k].prompt = prompt /\ batch[k].model = k
          /\ Faithful(batch[k], batch[k].results)
    /\ phase \in {"search", "done", "raised"} => batch = <<>>
    /\ phase \in {"ask", "repair", "extract"} => Len(batch) < models
    /\ phase = "persist" => Len(batch) = models

RowsInv ==
    /\ prompt \in 1..MaxPrompts
    /\ responses \in Seq(Records) /\ Len(responses) <= MaxResponses
    /\ \A i \in 1..Len(responses) : Faithful(responses[i], responses[i].results)
    /\ OneRowPerModel
    /\ phase \notin {"done", "raised"} => Len(responses) = (prompt - 1) * models

\* What the models not yet asked will be charged of the search, and the draft.
Pending == IF mode = "measured" /\ phase \in {"ask", "repair", "extract"}
           THEN draft.cost + (models - Len(batch)) * Share(SearchPrice) ELSE 0
BillInv ==
    /\ spent \in Nat /\ wasted \in BOOLEAN
    /\ phase # "raised" =>
          /\ Charged(responses) + Charged(batch) + Pending <= spent
          /\ models = 1 /\ ~wasted =>
                Charged(responses) + Charged(batch) + Pending = spent

MeasureInv == DraftInv /\ BatchInv /\ RowsInv /\ BillInv
=============================================================================
