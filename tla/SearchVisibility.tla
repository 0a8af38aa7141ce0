-------------------------- MODULE SearchVisibility --------------------------
(***************************************************************************)
(* The second surface of a run: what a search engine shows for a few       *)
(* queries built from the same topics (pipeline/serp_visibility.py,        *)
(* serp/base.py).                                                          *)
(*                                                                         *)
(* A query is <<shape, topic>>.  The answer of the search source is any    *)
(* choice: a page with its results in the order of their rank and whether  *)
(* some engine behind it refused, or an error.                             *)
(***************************************************************************)
EXTENDS PromptPlan

QUERY_SHAPES == <<"best", "top", "comparison", "reviews", "alternatives", "how-to-choose">>

\* _shapes: a place makes a second shape
QueryShapes(profile) ==
    IF profile.located THEN <<"best", "local">> \o Tail(QUERY_SHAPES) ELSE QUERY_SHAPES

\* The words a shape brings with it, the place's name among them
Words(shape) == IF shape = "local" THEN {"best", "place"} ELSE {shape}

\* build_queries: shape and topic advance on strides of their own, over the pool
\* as it is, without the fallback of the questions.
QueriesTried(profile) ==
    LET shapes == QueryShapes(profile)
        topics == TopicPool(profile)
        Lap1(n) == (n - 1) \div Len(shapes)
    IN  [n \in 1 .. Len(shapes) * Len(topics) |->
            <<shapes[((n - 1) % Len(shapes)) + 1],
              topics[((n - 1 + Lap1(n)) % Len(topics)) + 1].topic>>]

\* No query twice, and none that names the brand.
NewQueries(profile, tried) ==
    {n \in DOMAIN tried :
        (\A m \in 1 .. n - 1 : tried[m] # tried[n]) /\ Words(tried[n][1]) \cap profile.leaky = {}}

BuildQueries(profile, count) ==
    LET tried == QueriesTried(profile)
        fresh == NewQueries(profile, tried)
    IN  [k \in 1 .. Min({count, Cardinality(fresh)}) |-> tried[Nth(fresh, k)]]

-----------------------------------------------------------------------------

\* SerpPage.measurable: an empty page of engines that refused is no answer.
Measurable(answer) ==
    answer[1] = "page" /\ (answer[2] # <<>> \/ ~answer[3])

\* detect: the first result on the own site or with the name; a run without a
\* site of its own has the name only.
Hits(answer, sited) ==
    {i \in DOMAIN answer[2] : (sited /\ "own" \in answer[2][i]) \/ "name" \in answer[2][i]}
Detected(answer, sited) ==
    IF Hits(answer, sited) = {} THEN [hit |-> "no", rank |-> 0, via |-> "none"]
    ELSE LET first == Min(Hits(answer, sited)) IN
         [hit |-> "yes", rank |-> first,
          via |-> IF sited /\ "own" \in answer[2][first] THEN "domain" ELSE "text"]

\* SerpCheck, and record_unreadable when there is nothing to look at
SerpCheck(query, answer, sited) ==
    LET seen == IF Measurable(answer) THEN Detected(answer, sited)
                ELSE [hit |-> "unknown", rank |-> 0, via |-> "none"]
    IN  [query |-> query, hit |-> seen.hit, rank |-> seen.rank, via |-> seen.via]

\* run_serp's counters, and the outcome it returns from them
NotSearched == [status |-> "off", hits |-> 0, queries |-> 0]
Began(queries) == [status |-> IF queries = <<>> THEN "no_topics" ELSE "unavailable",
                   hits |-> 0, queries |-> 0]
CountAnswer(search, answer, check) ==
    IF ~Measurable(answer) THEN search
    ELSE [status |-> "ok", queries |-> search.queries + 1,
          hits |-> search.hits + (IF check.hit = "yes" THEN 1 ELSE 0)]

-----------------------------------------------------------------------------
(* What the search owes                                                    *)

\* No query names the brand and none is asked twice.  When nothing leaks there are
\* as many as were asked for, up to the pairs of shape and topic that the two
\* strides reach: all of them, unless a number above one divides both the topics
\* and the shapes plus one, in which case the strides move in lockstep.
QueriesSound(profile, queries, count) ==
    LET shapes == Len(QueryShapes(profile))
        topics == Len(TopicPool(profile))
        lockstep == Max({d \in 1 .. shapes + 1 : (shapes + 1) % d = 0 /\ topics % d = 0})
    IN
    /\ \A m, n \in DOMAIN queries : queries[m] = queries[n] => m = n
    /\ \A n \in DOMAIN queries : Words(queries[n][1]) \cap profile.leaky = {}
    /\ profile.leaky = {} => Len(queries) = Min({count, (shapes * topics) \div lockstep})

\* The published rate is over the queries that could be read: every row with a
\* verdict counts, no row without one does, and a page that could not be read is
\* told apart from one on which the brand is missing.
SearchAgrees(checks, search) ==
    /\ search.queries = Cardinality({n \in DOMAIN checks : checks[n].hit # "unknown"})
    /\ search.hits = Cardinality({n \in DOMAIN checks : checks[n].hit = "yes"})
    /\ search.queries = 0 <=> search.status # "ok"
    /\ \A n \in DOMAIN checks : checks[n].hit = "yes" <=> checks[n].rank > 0

=============================================================================
