---------------------------- MODULE GeoScoring ----------------------------
(***************************************************************************)
(* What becomes of a run: its site is read and graded, its questions are   *)
(* planned and reviewed, each answer is merged with its measured facts     *)
(* into a record                                                           *)
(* (llm_analytics_measured.py, simulated.py), the claims of the model are  *)
(* audited against those facts (reliability.py), the records trigger       *)
(* templates of advice (interventions.py) and are averaged into the GEO    *)
(* score (scoring.py, geo_records.py), pages are computed from them, and a *)
(* search engine is asked as well (serp_visibility.py).                    *)
(*                                                                         *)
(* A sentence is the pattern of reliability.py it matches; a citation is   *)
(* "own" (on the brand's domain), "earned" (elsewhere, about the brand) or *)
(* "other".  Weights are hundredths and tenths, reliability thousandths.   *)
(***************************************************************************)
EXTENDS Insights, SearchVisibility, SeoAudit

CONSTANTS Runs,          \* profile, kind, mode, number of models and of questions of a run
          Reviews(_),    \* what a guided review may be sent for a plan
          Answers(_, _), \* the raw answers the n-th response of a run may bring
          MaxAnswers(_), \* settings.max_responses_per_job of a run
          Sites(_),      \* the sites discovery may find for a run
          SearchPages(_) \* what the search source may answer to a run

ASSUME RunsAssumption ==
    \A r \in Runs :
        /\ r.models \in Nat \ {0}
        /\ r.count \in Nat /\ r.queries \in Nat
        /\ r.profile.candidates \in Seq(Range(r.profile.candidates))
        /\ r.profile.products \in Nat /\ r.profile.solutions \in BOOLEAN
        /\ MaxAnswers(r) \in Nat
        /\ \A page \in SearchPages(r) : page[2] \in Seq(SUBSET {"own", "name"})

VARIABLES stage,        \* analyses.current_step, and "done"
          run,          \* one of Runs
          prompts,      \* the questions of the run
          records,      \* Response.audit of each response
          reliability,  \* analyses.reliability_score in thousandths, or Unknown
          interventions,\* what each template triggered comes to, analyses.interventions
          geo,          \* analyses.geo_score
          summary,      \* analyses.citation_summary
          headline,     \* analyses.footprint_count, total_responses
          site,         \* what discovery read, or NoSite
          seo,          \* analyses.seo_status, seo_grade, and the seo_checks
          queries,      \* the queries of the search
          checks,       \* the serp_checks
          search        \* analyses.serp_status, serp_hit_count, serp_query_count

scores == <<interventions, geo, summary, headline>>
reading == <<site, seo>>
searching == <<queries, checks, search>>
scoreVars == <<stage, run, prompts, records, reliability, scores, reading, searching>>

Unknown == -1

GapCategories == {"low_discoverability", "weak_ranking", "category_mismatch",
    "weak_trust_signals", "weak_feature_association", "competitor_dominance", "content_gap",
    "international_positioning_gap", "ux_positioning_gap", "reputation_gap"}

Claim(category, text) == [category |-> category, text |-> text]

-----------------------------------------------------------------------------
(* The record of an answer                                                 *)

\* measure_answer_visibility, compute_citation_metrics
Metrics(cites) ==
    [cited |-> cites \cap {"own", "earned"} # {}, owned |-> "own" \in cites,
     earned |-> "earned" \in cites]

NoMetrics == Metrics({})

\* _text_mentions_brand looks for words, the aliases too; normalize_record for the
\* brand that the model's own answer echoes, anywhere in the text.
Mentioned(raw) ==
    IF run.mode = "measured" THEN Whole(raw, run.profile.kyc) # {}
    ELSE \E word \in Range(raw.text) : raw.echo \in Holds(word)

\* The competitors of a record: what the model lists, and in a measured answer the
\* rivals of the profile that are found in it.
Listed(raw) ==
    IF run.mode = "measured"
    THEN (raw.listed \cup (Range(raw.text) \cap run.profile.kyc.rivals)) \ {"brand"}
    ELSE raw.listed

\* measure_search_visibility; a simulated answer has none.
Visibility(raw) ==
    IF run.mode = "measured"
    THEN [known |-> TRUE, brand |-> raw.rank > 0, owned |-> raw.ownRanks, rank |-> raw.rank,
          hits |-> raw.hits]
    ELSE [known |-> FALSE, brand |-> FALSE, owned |-> FALSE, rank |-> 0, hits |-> 0]

\* The lines merge_measured_record adds to the gaps of the model.
MeasuredLines(raw) ==
    (IF raw.rank = 0 THEN {Claim("low_discoverability", "not_in_results")} ELSE {})
    \cup (IF Mentioned(raw) THEN {} ELSE {Claim("low_discoverability", "not_in_the_grounded_answer")})
    \cup (IF raw.rivals THEN {Claim("competitor_dominance", "results_favored")} ELSE {})
    \cup (IF Mentioned(raw) /\ ~Metrics(raw.cites).cited
          THEN {Claim("content_gap", "present")} ELSE {})
    \cup (IF raw.ownRanks THEN {} ELSE {Claim("content_gap", "no_owned_result")})

\* The lines normalize_record adds to a simulated answer.
SimulatedLines(raw) ==
    (IF Mentioned(raw) THEN {} ELSE {Claim("low_discoverability", "absent")})
    \cup (IF ~Mentioned(raw) /\ raw.listed # {}
          THEN {Claim("competitor_dominance", "answer_favored")} ELSE {})
    \cup (IF Mentioned(raw) /\ ~Metrics(raw.cites).cited
          THEN {Claim("content_gap", "present")} ELSE {})

Lines(raw) == IF run.mode = "measured" THEN MeasuredLines(raw) ELSE SimulatedLines(raw)

\* A simulated mention without a context is a secondary recommendation; a
\* measured one keeps what the model said.
Context(raw) ==
    IF ~Mentioned(raw) THEN "not_mentioned"
    ELSE IF run.mode = "simulated" /\ raw.context = "not_mentioned" THEN "secondary_recommendation"
    ELSE raw.context

\* A brand that is not mentioned has no strengths.
Drivers(raw) == IF Mentioned(raw) THEN raw.drivers ELSE {}

Entities(raw) == IF run.mode = "simulated" /\ ~Mentioned(raw) THEN {} ELSE raw.entities

\* Every model answers a question before the next is asked.
Prompt(n) == prompts[((n - 1) \div run.models) + 1]
Model(n) == ((n - 1) % run.models) + 1

\* merge_measured_record, normalize_record
Merged(n, raw) ==
    [prompt |-> Prompt(n).text, category |-> Prompt(n).category, model |-> Model(n), error |-> FALSE,
     mentioned |-> Mentioned(raw), context |-> Context(raw), sentiment |-> raw.sentiment,
     metrics |-> Metrics(raw.cites), visibility |-> Visibility(raw),
     gaps |-> raw.gaps \cup Lines(raw), added |-> Lines(raw), drivers |-> Drivers(raw),
     entities |-> Entities(raw), overlaps |-> raw.overlaps, rivals |-> raw.rivals,
     text |-> raw.text, listed |-> Listed(raw)]

\* _measured_error_record, _simulated_error_record: a failed extraction keeps
\* the answer and what was measured of it.
Failed(n, raw) ==
    LET answered == run.mode = "measured" /\ raw.failed = "audit_extraction"
        mentioned == answered /\ Mentioned(raw)
    IN [prompt |-> Prompt(n).text, category |-> Prompt(n).category, model |-> Model(n), error |-> TRUE,
        mentioned |-> mentioned,
        context |-> IF mentioned THEN "secondary_recommendation" ELSE "not_mentioned",
        sentiment |-> "neutral", metrics |-> IF answered THEN Metrics(raw.cites) ELSE NoMetrics,
        visibility |-> Visibility(raw), gaps |-> {}, added |-> {}, drivers |-> {},
        entities |-> {}, overlaps |-> FALSE, rivals |-> raw.rivals,
        text |-> IF answered THEN raw.text ELSE <<>>,
        listed |-> IF answered THEN Listed(raw) ELSE {}]

\* The record of the n-th response, with its question's category and its model.
AuditRecord(n, raw) == IF raw.failed = "no" THEN Merged(n, raw) ELSE Failed(n, raw)

-----------------------------------------------------------------------------
(* Reliability of the claims                                               *)

Verified(holds) == IF holds THEN "verified" ELSE "contradicted"

\* The end of audit_gap_claim: no rule decides.
Qualitative(claim, rec) ==
    IF claim.category = "competitor_dominance" /\ rec.visibility.known /\ rec.rivals
       /\ claim.text = "names_the_top_rival"
    THEN "partial"
    ELSE IF rec.overlaps THEN "partial"
    ELSE "unverified"

RankOf(text) == IF text = "rank_1" THEN 1 ELSE IF text = "rank_2" THEN 2 ELSE 0

\* Variant: every claim that names the brand as present is checked in the
\* search results alone.
AuditGapBySearch(claim, rec) ==
    IF claim.text = "present" THEN Verified(rec.visibility.brand)
    ELSE Qualitative(claim, rec)

\* audit_gap_claim, whose first matching rule decides
AuditGap(claim, rec) ==
    IF claim.text = "results_favored" THEN "verified"
    ELSE IF claim.text = "no_owned_result" THEN Verified(~rec.visibility.owned)
    ELSE IF claim.text = "not_in_results" THEN Verified(~rec.visibility.brand)
    ELSE IF claim.text = "not_in_the_grounded_answer" THEN Verified(~rec.mentioned)
    ELSE IF claim.text = "uncited" THEN Verified(~rec.metrics.cited)
    ELSE IF RankOf(claim.text) > 0
         THEN Verified(rec.visibility.brand /\ rec.visibility.rank = RankOf(claim.text))
    ELSE IF \/ claim.text = "absent" /\ (rec.visibility.brand \/ rec.mentioned)
            \/ claim.text = "present" /\ ~rec.visibility.brand /\ ~rec.mentioned
         THEN "contradicted"
    ELSE Qualitative(claim, rec)

\* audit_driver_claim
AuditDriver(driver, rec) ==
    IF ~rec.mentioned THEN "contradicted"
    ELSE IF driver \in {"does_not_name_the_brand", "partly_in_the_evidence"} THEN "partial"
    ELSE IF driver = "largely_in_the_evidence" THEN "verified" ELSE "unverified"

\* audit_entity
AuditEntity(entity) ==
    CASE entity = "the_brand" -> "partial"
      [] entity = "a_competitor" -> "contradicted"
      [] entity = "in_the_evidence" -> "verified"
      [] OTHER -> "unverified"

\* STATUS_SCORES, in quarters
Quarters(status) ==
    CASE status = "verified" -> 4 [] status = "partial" -> 2
      [] status = "unverified" -> 1 [] status = "contradicted" -> 0

\* The audits of a record, each with the claim it is about.
Audits(rec) ==
    {<<"gap", claim, AuditGap(claim, rec)>> : claim \in rec.gaps}
    \cup {<<"driver", driver, AuditDriver(driver, rec)>> : driver \in rec.drivers}
    \cup {<<"entity", entity, AuditEntity(entity)>> : entity \in rec.entities}

\* round(sum / count, 3), in thousandths
Mean(sum, count) == (2 * sum + count) \div (2 * count)

\* _score_audits, analyze_record
RecordReliability(rec) ==
    LET audits == Audits(rec)
    IN  IF rec.error \/ audits = {} THEN Unknown
        ELSE Mean(250 * MapThenSumSet(LAMBDA a : Quarters(a[3]), audits), Cardinality(audits))

\* reliability.analyze_records: the mean of the records that have a score
Reliability(recs) ==
    LET scored == {i \in DOMAIN recs : RecordReliability(recs[i]) # Unknown}
    IN  IF scored = {} THEN Unknown
        ELSE Mean(MapThenSumSet(LAMBDA i : RecordReliability(recs[i]), scored),
                  Cardinality(scored))

-----------------------------------------------------------------------------
(* The GEO score                                                           *)

\* POSITION_WEIGHTS, in tenths
PositionWeight(context) ==
    IF context = "primary_recommendation" THEN 10
    ELSE IF context \in {"secondary_recommendation", "comparison_candidate"} THEN 7
    ELSE IF context \in {"alternative_option", "competitor_only"} THEN 4 ELSE 0

\* Variant: an owned citation is enough for the whole weight, none for most of it.
CitationWeightLoose(metrics) == IF metrics.cited THEN 100 ELSE 85

\* citation_weight of a mention, in hundredths
CitationWeight(metrics) ==
    IF metrics.cited /\ metrics.owned THEN 100 ELSE IF metrics.cited THEN 85 ELSE 60

\* sentiment_weight, in tenths: neutral when the claims are not reliable
SentimentWeight(sentiment, score) ==
    IF score # Unknown /\ score < 500 THEN 9
    ELSE IF sentiment = "positive" THEN 10 ELSE IF sentiment = "negative" THEN 5 ELSE 9

\* per_prompt_score, in ten-thousandths
PerPromptScore(rec, score) ==
    IF rec.mentioned
    THEN PositionWeight(rec.context) * CitationWeight(rec.metrics)
         * SentimentWeight(rec.sentiment, score)
    ELSE 0

\* geo_score: the sum over the records; the score is its mean.
GeoSum(recs, score) ==
    SumFunction([i \in DOMAIN recs |-> PerPromptScore(recs[i], score)])

\* aggregate_citation_summary
CitationSummary(recs) ==
    [count |-> Len(recs),
     cited |-> Cardinality({i \in DOMAIN recs : recs[i].metrics.cited}),
     owned |-> Cardinality({i \in DOMAIN recs : recs[i].metrics.owned}),
     earned |-> Cardinality({i \in DOMAIN recs : recs[i].metrics.earned})]

-----------------------------------------------------------------------------
(* Interventions                                                           *)

Template(id, impact, effort, gaps, needs) ==
    [id |-> id, impact |-> impact, effort |-> effort, gaps |-> gaps, needs |-> needs]

\* data/intervention_library.json: what triggers each template, in the order of
\* their titles, no two of which differ only in what is filled in
Titled == <<
    Template("schema_faq", 4, 1, {"low_discoverability", "content_gap"}, {"no_owned_result"}),
    Template("partnership_integration", 3, 4, {"international_positioning_gap",
             "competitor_dominance"}, {}),
    Template("crawlability", 3, 2, {"low_discoverability", "content_gap"}, {"not_in_results"}),
    Template("answer_body_gap", 5, 2, {"content_gap", "weak_ranking"}, {"cited", "secondary"}),
    Template("competitor_comparison", 4, 2, {"competitor_dominance", "weak_ranking"}, {}),
    Template("comparison_landing", 5, 2, {"low_discoverability", "content_gap",
             "category_mismatch", "competitor_dominance"}, {"no_owned_result"}),
    Template("localized_landing", 4, 3, {"international_positioning_gap"}, {}),
    Template("rank_improvement", 4, 3, {"weak_ranking", "low_discoverability"}, {"in_results"}),
    Template("csr_sustainability", 1, 5, {"reputation_gap"}, {}),
    Template("feature_launch", 4, 5, {"weak_feature_association", "category_mismatch"}, {}),
    Template("app_store_optimization", 3, 3, {"ux_positioning_gap", "weak_feature_association"},
             {"general_discovery"}),
    Template("third_party_listicle", 5, 3, {"competitor_dominance",
             "content_gap", "weak_ranking"}, {"earned", "not_cited"}),
    Template("ux_case_study", 3, 3, {"ux_positioning_gap", "weak_feature_association"}, {}),
    Template("trust_page", 4, 2, {"weak_trust_signals", "reputation_gap"}, {}),
    Template("llms_txt", 3, 1, {"low_discoverability", "weak_feature_association"},
             {"no_owned_result"}),
    Template("use_case_blog", 4, 2, {"category_mismatch",
             "weak_feature_association", "low_discoverability"}, {}),
    Template("awards_certifications", 3, 5, {"weak_trust_signals", "reputation_gap"}, {}),
    Template("not_mentioned_recovery", 5, 2, {"low_discoverability"}, {"not_mentioned"}),
    Template("digital_pr", 4, 4, {"competitor_dominance",
             "reputation_gap", "low_discoverability"}, {"one_result"}),
    Template("review_platforms", 4, 3, {"weak_trust_signals",
             "reputation_gap", "low_discoverability"}, {}),
    Template("paid_search", 2, 4, {"low_discoverability", "weak_ranking"}, {"not_mentioned"})>>
Library == Range(Titled)
Shelf(template) == CHOOSE n \in DOMAIN Titled : Titled[n] = template

\* _metric_conditions_match; a condition on a search that was not made fails.
Meets(rec, need) ==
    CASE need = "no_owned_result" -> rec.visibility.known /\ ~rec.visibility.owned
      [] need = "not_in_results" -> rec.visibility.known /\ ~rec.visibility.brand
      [] need = "in_results" -> rec.visibility.known /\ rec.visibility.brand
      [] need = "one_result" -> rec.visibility.hits = 1
      [] need = "general_discovery" -> rec.category = "general_discovery"
      [] need = "earned" -> rec.metrics.earned
      [] need = "not_cited" -> ~rec.metrics.cited
      [] need = "cited" -> rec.metrics.cited
      [] need = "not_mentioned" -> ~rec.mentioned
      [] need = "secondary" -> rec.context = "secondary_recommendation"

\* template_matches_record
Matches(template, rec) ==
    /\ \E claim \in rec.gaps : claim.category \in template.gaps
    /\ \A need \in template.needs : Meets(rec, need)

\* _priority_score, in thousandths
Priority(template) == Mean(1000 * template.impact, template.effort)

\* Variant: the boost begins with the third record.
BoostLate(priority, count) == priority + Min({500, 100 * (count - 2)})

\* The boost of the count-th record that triggers a template
Boost(priority, count) == priority + Min({500, 100 * (count - 1)})

\* What the title, the description and triggered_by take from a record
FilledIn(rec) == <<rec.prompt, rec.category, rec.visibility.rank>>

\* What a record makes of a template: the first has the words, the others count.
Raise(template, acc, rec) ==
    IF ~Matches(template, rec) THEN acc
    ELSE IF acc.count = 0
    THEN [count |-> 1, priority |-> Priority(template), words |-> FilledIn(rec)]
    ELSE [count |-> acc.count + 1, priority |-> Boost(acc.priority, acc.count + 1),
          words |-> acc.words]

Untriggered == [count |-> 0, priority |-> 0, words |-> <<>>]

\* aggregate_interventions: what the records come to in their order
Aggregated(recs) ==
    LET triggered == {t \in Library : \E i \in DOMAIN recs : Matches(t, recs[i])}
    IN  [t \in triggered |->
            FoldLeft(LAMBDA acc, rec : Raise(t, acc, rec), Untriggered, recs)]

\* The order it sorts them in
Precedes(advice, s, t) ==
    \/ advice[s].priority > advice[t].priority
    \/ /\ advice[s].priority = advice[t].priority
       /\ s.effort < t.effort \/ (s.effort = t.effort /\ Shelf(s) < Shelf(t))

-----------------------------------------------------------------------------
\* prompts_step.generate_prompts or checker_prompts.generate
Planned(r) ==
    IF r.kind = "checker" THEN CheckerPrompts(r.profile) ELSE GeneratePrompts(r.profile, r.count)

\* kyc_step.require_usable: a signal will do, whatever the filters leave of it.
Usable(r) == r.kind = "checker" \/ r.profile.candidates # <<>>

NoSite == <<>>

ScoreInit ==
    /\ stage = "discovery" /\ run \in Runs /\ prompts = <<>>
    /\ records = <<>>
    /\ reliability = Unknown /\ interventions = <<>>
    /\ geo = 0 /\ summary = CitationSummary(<<>>) /\ headline = [count |-> 0, total |-> 0]
    /\ site = NoSite /\ seo = NoAudit
    /\ queries = <<>> /\ checks = <<>> /\ search = NotSearched

\* discover_detailed and run_audit, which may fail at the cost of the grade alone;
\* a checker has no site.
ReadSite ==
    /\ stage = "discovery"
    /\ stage' = "kyc"
    /\ \/ /\ run.kind = "checker"
          /\ UNCHANGED reading
       \/ /\ run.kind # "checker"
          /\ site' \in Sites(run)
          /\ seo' \in {Audited(site'), AuditFailed}
    /\ UNCHANGED <<run, prompts, records, reliability, scores, searching>>

\* The profile is accepted, and the questions are planned.
Plan ==
    /\ stage = "kyc" /\ Usable(run)
    /\ stage' = "prompts"
    /\ prompts' = Planned(run)
    /\ UNCHANGED <<run, records, reliability, scores, reading, searching>>

\* patch_analysis_prompts of a guided run, and the approval; other runs go on.
Review ==
    /\ stage = "prompts"
    /\ stage' = "execute"
    /\ \/ prompts' = prompts
       \/ /\ run.kind = "guided"
          /\ prompts' \in {plan \in Reviews(prompts) : Reviewed(plan, run.count)}
    /\ UNCHANGED <<run, records, reliability, scores, reading, searching>>

\* A response is stored with its record.
Respond ==
    /\ stage = "execute"
    /\ Len(records) < Min({MaxAnswers(run), run.models * Len(prompts)})
    /\ \E raw \in Answers(run, Len(records) + 1) :
          records' = Append(records, AuditRecord(Len(records) + 1, raw))
    /\ UNCHANGED <<stage, run, prompts, reliability, scores, reading, searching>>

\* _run_measure_phase, the step "footprint" up to the search, which a run makes
\* when a source is configured
Footprint ==
    /\ stage = "execute"
    /\ Len(records) = Min({MaxAnswers(run), run.models * Len(prompts)})
    /\ stage' = "footprint"
    /\ reliability' = Reliability(records)
    /\ queries' = IF run.searches THEN BuildQueries(run.profile, run.queries) ELSE <<>>
    /\ search' = IF run.searches THEN Began(queries') ELSE NotSearched
    /\ UNCHANGED <<run, prompts, records, scores, reading, checks>>

\* A query of run_serp, whatever the source does with it
SearchOne ==
    /\ stage = "footprint" /\ Len(checks) < Len(queries)
    /\ \E page \in SearchPages(run) :
          LET check == SerpCheck(queries[Len(checks) + 1], page, run.kind # "checker") IN
          /\ checks' = Append(checks, check)
          /\ search' = CountAnswer(search, page, check)
    /\ UNCHANGED <<stage, run, prompts, records, reliability, scores, reading, queries>>

\* _run_measure_phase, the step "scoring"
Score ==
    /\ stage = "footprint" /\ Len(checks) = Len(queries)
    /\ stage' = "done"
    /\ interventions' = Aggregated(records)
    /\ geo' = GeoSum(records, reliability)
    /\ summary' = CitationSummary(records)
    /\ headline' = [count |-> Cardinality(Mentions(records, DOMAIN records)),
                    total |-> Len(records)]
    /\ UNCHANGED <<run, prompts, records, reliability, reading, searching>>

ScoreNext == ReadSite \/ Plan \/ Review \/ Respond \/ Footprint \/ SearchOne \/ Score

ScoreSpec == ScoreInit /\ [][ScoreNext]_scoreVars

-----------------------------------------------------------------------------
(* Properties                                                              *)

\* A plan is balanced and asks in its first wording first, whatever the profile
\* filters away and whoever is named like the brand; and so do the queries of the
\* search, which has no neutral topic to fall back to.
PlanSound ==
    /\ stage = "prompts" =>
          /\ PlanBalanced(run.profile, run.count, prompts)
          /\ run.kind # "checker" =>
                /\ CanonicalFirst(run.profile, prompts)
                /\ PlanFilled(run.profile, run.count, prompts)
    /\ (stage = "footprint" /\ run.searches) => QueriesSound(run.profile, queries, run.queries)

\* reliability.py calls the lines the pipeline adds "always reliable": its own
\* audit never contradicts one, in either mode.
AddedLinesHold ==
    \A i \in DOMAIN records :
        \A claim \in records[i].added : AuditGap(claim, records[i]) # "contradicted"

\* No strength is audited, and contradicted, for a brand that is not mentioned.
NoContradictedStrength ==
    \A i \in DOMAIN records :
        \A driver \in records[i].drivers : <<"driver", driver, "contradicted">> \notin Audits(records[i])

\* A run none of whose answers cites the brand scores at most 60 of 100, and one
\* that is cited but never on its own site at most 85: the score and the citation
\* summary, computed apart, tell one story.
ScoreFitsSummary ==
    /\ summary.cited = 0 => geo <= 6000 * Len(records)
    /\ summary.owned = 0 => geo <= 8500 * Len(records)
    /\ geo <= 10000 * Len(records)
    /\ headline.count = 0 => geo = 0

\* The checker's map "is always consistent with the headline score"
\* (checker_summary.py); so are the engines of the insights with the questions
\* that name the brand set aside, their intents and the categories -- but for a
\* reviewer's questions of category "custom", which are scored and in none of them.
MapsAgree ==
    LET presence == EnginePresence(records)
        Insight(model) == EngineInsight(records, run.profile.kyc, model)
        mentions == SumFunction([m \in Engines(records) |-> Insight(m).answers.mentioned])
    IN
    /\ headline.count = SumFunction([m \in DOMAIN presence |-> presence[m].mentioned])
    /\ headline.total = SumFunction([m \in DOMAIN presence |-> presence[m].total])
    /\ headline.count = mentions + Cardinality(Mentions(records, Probed(records)))
    /\ \A m \in Engines(records) :
          /\ Insight(m).answers.total =
                SumFunction([g \in Intents |-> Insight(m).groups[g].total])
                + Cardinality({i \in Uncategorized(records) : records[i].model = m})
          /\ Insight(m).answers.total <= presence[m].total
    /\ mentions =
          SumFunction([c \in Range(CATEGORIES) |-> CategoryShares(records)[c].mentioned])
          + Cardinality(Mentions(records, Uncategorized(records)))

\* An answer is not lost and won at once; a measured one that names the company
\* first mentions it, unless the name stands in it only inside other words, or is
\* one a mention is not looked for by: the insights find the company where the
\* mention does not, and may count an answer as lost that names it first. A
\* competitor of the insights is one of the checker's with no fewer answers; and
\* the landscape names nobody core in under half of the answers, nobody twice that
\* the profile does not have twice, and not the brand as its own competitor, if no
\* product is named like it -- in a measured run, by a name a mention is not looked
\* for by.
RivalsAgree ==
    LET kyc == run.profile.kyc
        shown == Landscape(records, kyc)
        appeared == CompetitorsAppeared(records, kyc)
        scored == Scored(records)
        doubled == (kyc.terms \cap kyc.places) \cup ({"brand"} \cap (kyc.terms \cup kyc.places))
    IN
    /\ AnswersLost(records, kyc) + Cardinality(Mentions(records, scored)) <= Cardinality(scored)
    /\ \A m \in Engines(records) :
          LET insight == EngineInsight(records, kyc, m) IN
          /\ run.mode = "measured" =>
                insight.first <= insight.answers.mentioned
                    + Cardinality(Hidden(records, {i \in scored : records[i].model = m}, kyc))
          /\ \A name \in DOMAIN insight.competitors :
                name \in DOMAIN appeared /\ insight.competitors[name] <= appeared[name]
    /\ \A e, f \in shown : e.name = f.name => e = f \/ e.name \in doubled
    /\ \A e \in shown :
          /\ (\/ kyc.terms \cap Exclusions = {}
              \/ run.mode = "measured" /\ kyc.terms \cap kyc.unmatched = {}) =>
                (e.ownership = "competitor" => e.name \notin Exclusions)
          /\ (e.tier = "core" /\ e.name # "brand") => 2 * e.answers >= Cardinality(scored)
    /\ \A term \in Present(records, kyc) : \E e \in shown : e.name = term /\ headline.count > 0

\* The pages of a run tell one story, each surface by itself.
ReportsAgree ==
    /\ stage = "kyc" => GradeHonest(site, seo)
    /\ stage = "done" =>
          ScoreFitsSummary /\ MapsAgree /\ RivalsAgree /\ SearchAgrees(checks, search)

\* Which advice is given, how many answers call for it and the order it is listed
\* in do not depend on the order the answers came in, and no two pieces tie; one
\* that more answers call for never ranks behind one of the same worth that fewer
\* do. Its words do depend on it: they are those of the first answer that calls
\* for it, and of none that does not.
AdviceIsFair ==
    stage = "done" =>
        LET given == DOMAIN interventions
            back == Aggregated(Reverse(records))
        IN
        /\ DOMAIN back = given
        /\ \A t \in given : back[t].count = interventions[t].count
        /\ \A s, t \in given :
              /\ Precedes(back, s, t) <=> Precedes(interventions, s, t)
              /\ s = t \/ Precedes(interventions, s, t) \/ Precedes(interventions, t, s)
              /\ (Priority(s) = Priority(t) /\ interventions[s].count > interventions[t].count)
                    => Precedes(interventions, s, t)
        /\ \A t \in given :
              \E i \in DOMAIN records :
                  /\ interventions[t].words = FilledIn(records[i])
                  /\ Matches(t, records[i])
                  /\ \A j \in 1 .. i - 1 : ~Matches(t, records[j])

\* Two templates of the library are never triggered: an earned citation names the
\* brand, so that no record is earned and not cited; and no question has the
\* category "general_discovery", neither planned nor reviewed.
NeverAdvised ==
    stage = "done" =>
        \A t \in DOMAIN interventions :
            t.id \notin {"third_party_listicle", "app_store_optimization"}

\* What the audit says of its own lines and of strengths is consistent.
ClaimsSound == AddedLinesHold /\ NoContradictedStrength

\* The advice is fair to the answers, and two templates are never among it.
AdviceSound == AdviceIsFair /\ NeverAdvised

=============================================================================
