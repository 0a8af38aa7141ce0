--------------------------- MODULE MCGeoScoring ---------------------------
(***************************************************************************)
(* Instances of the scoring for TLC, kinds of runs that each vary one      *)
(* thing: the answers, in everything a rule looks at and in what two of    *)
(* them can disagree about; the names answers contain; the profile and the *)
(* plan; the search, its queries and its pages; the site that is read.     *)
(***************************************************************************)
EXTENDS GeoScoring

Kyc == [terms |-> {"term"}, places |-> {"city"}, rivals |-> {"rival"},
        unmatched |-> {}]
Topic(n) == [topic |-> n, shoppable |-> TRUE, names |-> FALSE]
Profile(topics, products, leaky) ==
    [candidates |-> [n \in 1 .. topics |-> Topic(n)], products |-> products, leaky |-> leaky,
     named |-> {}, solutions |-> FALSE, located |-> FALSE, kyc |-> Kyc]
Run(kind, mode, models, count, profile) ==
    [kind |-> kind, mode |-> mode, models |-> models, count |-> count, profile |-> profile,
     searches |-> FALSE, queries |-> 0]
Searched(r, count) == [r EXCEPT !.searches = TRUE, !.queries = count]

Scorings == {Run("quick", mode, 2, 1, Profile(1, 0, {})) : mode \in {"measured", "simulated"}}
\* The profile has a place and another name of the company among its terms, too.
Twice == [Profile(1, 0, {}) EXCEPT !.kyc.terms = {"term", "city", "alias"}]
\* The other name of the company has one letter.
Terse == [Profile(1, 0, {}) EXCEPT !.kyc.unmatched = {"alias"}]
Readings == {Run("guided", mode, 2, 1, profile) :
                mode \in {"measured", "simulated"}, profile \in {Profile(1, 0, {}), Twice}}
            \cup {Run("guided", "measured", 2, 1, Terse)}

\* One topic of many is no category of things, another is named like the brand, and
\* one is listed twice.
Filtered == [Profile(5, 3, {"rival"}) EXCEPT !.candidates[2].shoppable = FALSE,
                                             !.candidates[3].names = TRUE,
                                             !.candidates[5] = Topic(1)]
\* The only signal is no category of things; and the company is named "Solutions".
Nothing == [Profile(1, 1, {}) EXCEPT !.candidates[1].shoppable = FALSE]
Leaky == [Nothing EXCEPT !.solutions = TRUE]
\* Companies named "Best" and "Options", about their first topic
LastResorts == {"numbered"} \X {1} \X (1 .. 160)
Best == [Profile(1, 4, {"best"}) EXCEPT !.named =
            {<<"recommendation", 1, 0>>, <<"makers", 1, 1>>, <<"makers", 1, 2>>,
             <<"best-of", 1, 0>>, <<"use-case", 1, 1>>} \cup LastResorts]
Options == [Profile(1, 4, {}) EXCEPT !.named =
               {<<"recommendation", 1, 0>>, <<"padder", 1, 5>>} \cup LastResorts]
Worded == {Run(kind, "measured", 1, count, profile) :
             kind \in {"quick", "checker"}, count \in {4, 16, 26, 40}, profile \in {Best, Options}}
Plannings ==
    {Run("quick", "measured", 1, count, Profile(topics, products, {})) :
        count \in {1, 4, 9, 14}, topics \in {0, 1, 2, 7, 8}, products \in {0, 1, 3}}
    \cup {Run("quick", "measured", 1, 40, Profile(1, 1, leaky)) :
             leaky \in SUBSET {"rival", "place", "industry"}}
    \cup {Run(kind, "measured", 1, 10, profile) :
             kind \in {"quick", "checker"}, profile \in {Filtered, Nothing, Leaky, Profile(3, 2, {"place"})}}
Located(profile) == [profile EXCEPT !.located = TRUE]
Searches ==
    {Searched(Run(kind, "measured", 1, 1, profile), 3) :
        kind \in {"quick", "checker"}, profile \in {Profile(2, 0, {}), Filtered, Nothing}}
\* Queries alone: nothing is answered, so that many may be asked.
Queries ==
    {Searched(Run("quick", "measured", 1, 2, profile), count) : count \in {0, 6, 20},
        profile \in {Profile(topics, 0, leaky) : topics \in {1, 3, 7, 8}, leaky \in {{}, {"best"}}}
                    \cup {Located(Profile(topics, 0, leaky)) :
                             topics \in {1, 2, 7, 8}, leaky \in {{}, {"place"}}}}
Sighted == Run("quick", "measured", 1, 3, Profile(1, 0, {}))
MCRuns == Scorings \cup Readings \cup Plannings \cup Worded \cup Searches \cup Queries \cup {Sighted}

MCPages(r) ==
    IF r \in Queries THEN {<<"page", <<{}>>, FALSE>>}
    ELSE {<<"error", <<>>, FALSE>>} \cup
         {<<"page", results, refused>> : refused \in BOOLEAN,
             results \in {<<>>, <<{}, {"own", "name"}>>, <<{"own"}, {"name"}>>, <<{"name"}>>, <<{}>>}}

\* Sites vary in what a check looks at, all of one tier or all of two.
Home(noindex, text, secure, has, h1, types) ==
    [noindex |-> noindex, text |-> text, secure |-> secure, has |-> has, h1 |-> h1,
     types |-> types, linked |-> FALSE, images |-> 0, missing |-> 0]
Inner(types, linked, images, missing) ==
    [types |-> types, linked |-> linked, images |-> images, missing |-> missing]
Robots == {[status |-> 200, blocked |-> blocked, sitemaps |-> blocked = {}] :
              blocked \in {{}, {"ignoring"}, {"training"}, {"retrieval", "training"}}}
          \cup {[status |-> status, blocked |-> {}, sitemaps |-> FALSE] : status \in {0, 403, 404}}
Good == Home(FALSE, "enough", TRUE, {"title_present", "lang_declared", "meta_description",
                                     "canonical", "open_graph"}, 1, {"entity"})
MCSites(r) ==
    IF r # Sighted THEN {[robots |-> [status |-> 404], pages |-> <<Good>>]}
    ELSE {[robots |-> robots, pages |-> <<Home(noindex, text, secure, has, h1, types), inner>>] :
             robots \in Robots, noindex \in BOOLEAN, text \in {"none", "thin", "enough"},
             secure \in BOOLEAN, h1 \in 0 .. 2,
             has \in {{}, {"title_present", "canonical"}, Good.has},
             types \in {{}, {"other"}, {"entity"}},
             inner \in {Inner({}, FALSE, 0, 0), Inner({}, TRUE, 4, 2), Inner({"entity"}, TRUE, 3, 2)}}

\* A review may hand the questions over to categories of its own.
User(n, category) == [text |-> <<"user", n, 0>>, category |-> category]
MCReviews(plan) ==
    {<<>>, <<User(1, "general_discovery")>>, <<User(1, "best-of"), User(2, BRAND_PROBE)>>,
     <<User(1, "use-case"), User(2, "custom")>>}

MCMaxAnswers(r) ==
    CASE r \in Scorings -> 2 [] r \in Readings -> 3 [] r \in Queries -> 0 [] OTHER -> 1

Said == {{}} \cup {{Claim("content_gap", t)} : t \in {"not_in_results", "uncited", "absent",
                                                      "present", "vague"}}
             \cup {{Claim("weak_ranking", t)} : t \in {"rank_1", "rank_2"}}
             \cup {{Claim("competitor_dominance", t)} : t \in {"names_the_top_rival", "vague"}}
             \cup {{Claim(c, "vague")} : c \in {"reputation_gap", "ux_positioning_gap",
                                                "international_positioning_gap"}}

Raw(mode, failures, contexts, said, drivers, entities) ==
    {raw \in [failed : failures, rank : IF mode = "simulated" THEN {0} ELSE {0, 1, 2},
              ownRanks : BOOLEAN, rivals : BOOLEAN, hits : {0, 1, 2},
              cites : {{}, {"own", "other"}, {"earned"}, {"other"}}, context : contexts,
              sentiment : {"positive", "negative"}, gaps : said, drivers : drivers,
              entities : entities, overlaps : BOOLEAN,
              echo : {"brand"}, text : {<<"rival">>, <<"brand">>}, listed : {{}, {"rival"}}] :
        /\ raw.hits = (CASE raw.rank = 0 -> 0 [] raw.rank = 1 -> 2 [] raw.rank = 2 -> 1)
        /\ raw.overlaps <=> raw.entities = {}
        /\ raw.ownRanks => raw.rank = 1
        /\ raw.rivals <=> raw.listed # {}
        /\ raw.failed # "no" => (raw.failed = "simulated_audit") = (mode = "simulated")}

\* What drives the answer and what it names are audited apart: one of them varies.
Rich(mode) ==
    {raw \in Raw(mode, {"no", "audit_extraction", "simulated_audit"},
                 {"primary_recommendation", "not_mentioned"}, Said,
                 {{}, {"largely_in_the_evidence", "does_not_name_the_brand"}},
                 {{}, {"a_competitor"}, {"in_the_evidence", "the_brand"}}) :
        raw.drivers = {} \/ raw.entities = {}}

Plain(mode) == {raw \in Raw(mode, {"no"}, {"primary_recommendation"},
                            {{Claim("weak_ranking", "rank_1")}}, {{}}, {{"a_competitor"}}) :
                   /\ raw.sentiment = "positive" /\ raw.rivals /\ raw.cites # {"other"}
                   /\ raw.rank # 2 /\ (raw.ownRanks <=> raw.rank = 1)}

\* An answer of which only the names matter.
Naming1(failed, text, listed) ==
    [failed |-> failed, rank |-> 0, ownRanks |-> FALSE, rivals |-> FALSE, hits |-> 0,
     cites |-> {}, context |-> "primary_recommendation", sentiment |-> "positive", gaps |-> {},
     drivers |-> {}, entities |-> {}, overlaps |-> FALSE, echo |-> "brand",
     text |-> text, listed |-> listed]
Told(mode) ==
    {Naming1(IF mode = "measured" THEN "audit_extraction" ELSE "simulated_audit",
             <<"rival", "brand">>, {"rival"}),
     Naming1("no", <<"other", "brand", "term">>, {"other", "brand"}),
     Naming1("no", <<"brand", "rival", "city">>, {"rival", "city"}),
     Naming1("no", <<"alias", "other">>, {}),
     Naming1("no", <<"rival", "term", "other">>, {"other", "term"}),
     Naming1("no", <<"brandville", "rival">>, {"rival"}),
     Naming1("no", <<"brandville", "brand">>, {"brandville"}),
     [Naming1("no", <<"rival", "alias", "term">>, {"rival"}) EXCEPT !.echo = "rival"],
     Naming1("no", <<"term", "city">>, {})}

RichMeasured == Rich("measured")
RichSimulated == Rich("simulated")
PlainMeasured == Plain("measured")
PlainSimulated == Plain("simulated")

MCAnswers(r, n) ==
    CASE r \in Scorings /\ n = 1 -> IF r.mode = "measured" THEN RichMeasured ELSE RichSimulated
      [] r \in Scorings /\ n > 1 -> IF r.mode = "measured" THEN PlainMeasured ELSE PlainSimulated
      [] r \in Readings -> Told(r.mode)
      [] OTHER -> {Naming1("no", <<"brand">>, {})}

=============================================================================
