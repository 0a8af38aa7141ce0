------------------------------ MODULE Insights ------------------------------
(***************************************************************************)
(* What a run's pages tell, computed when they are read from the stored    *)
(* answers (services/insights.py, services/checker_summary.py).            *)
(*                                                                         *)
(* The text of an answer is the sequence of the names in it; "brand" and   *)
(* "alias" are the company's, and "brandville" is a longer word that holds *)
(* one.  A row also has the competitors its audit lists.  Lists the pages  *)
(* cut (the first 3, 5, 10 or 20) are whole here.                          *)
(***************************************************************************)
EXTENDS PromptPlan, Functions

Exclusions == {"brand", "alias"}   \* brand_exclusions

\* str.find: what is found in a word, as the whole of it or inside
Holds(word) == {word} \cup (IF word = "brandville" THEN {"brand"} ELSE {})

\* The company's names that are found as a word of their own: names of one letter
\* never are, nor those that end in a mark.
Whole(row, kyc) == Range(row.text) \cap (Exclusions \ kyc.unmatched)

\* Answers in which the company stands inside other words only, or under a name
\* that is not looked for
Hidden(rows, these, kyc) ==
    {i \in these : /\ Whole(rows[i], kyc) = {}
                   /\ \E word \in Range(rows[i].text) : Holds(word) \cap Exclusions # {}}

\* INTENT_GROUPS
Intent(category) ==
    IF category \in {"makers", "best-of"} THEN "discovery"
    ELSE IF category \in {"comparison", "alternatives"} THEN "comparison"
    ELSE IF category \in {"recommendation", "use-case"} THEN "recommendation" ELSE "none"
Intents == {"discovery", "comparison", "recommendation"}

Scored(rows) == {i \in DOMAIN rows : rows[i].category # BRAND_PROBE}
Probed(rows) == DOMAIN rows \ Scored(rows)
\* Answers to the questions of a review that are in none of the CATEGORIES
Uncategorized(rows) == {i \in Scored(rows) : rows[i].category \notin Range(CATEGORIES)}
Mentions(rows, these) == {i \in these : rows[i].mentioned}

\* audited_competitor_pool of some of the rows
Pool(rows, these, kyc) == (UNION {rows[i].listed : i \in these}) \ (Exclusions \cup kyc.places)

\* audited_names_in_answer
Named(row, pool) == pool \cap Range(row.text)
Naming(rows, these, name) == {i \in these : name \in Range(rows[i].text)}

Rivals(rows, i, kyc) == Named(rows[i], Pool(rows, Scored(rows), kyc))

\* _first_brand_index stands before every rival: both are found inside words, too.
First(rows, i, kyc) ==
    \E n \in DOMAIN rows[i].text :
        /\ Holds(rows[i].text[n]) \cap Exclusions # {}
        /\ \A m \in 1 .. n : Holds(rows[i].text[m]) \cap Rivals(rows, i, kyc) = {}

Ratio(rows, these) == [mentioned |-> Cardinality(Mentions(rows, these)), total |-> Cardinality(these)]

\* EngineInsight of one model; the share is mentioned / shareBase.
Engines(rows) == {rows[i].model : i \in Scored(rows)}
EngineInsight(rows, kyc, model) ==
    LET own == {i \in Scored(rows) : rows[i].model = model}
        rivalled == {i \in own : Rivals(rows, i, kyc) # {}}
    IN  [answers |-> Ratio(rows, own),
         shareBase |-> Cardinality(Mentions(rows, own)) + Cardinality(rivalled),
         first |-> Cardinality({i \in own : First(rows, i, kyc)}),
         groups |-> [g \in Intents |->
                        Ratio(rows, {i \in own : Intent(rows[i].category) = g})],
         competitors |-> [name \in UNION {Rivals(rows, i, kyc) : i \in own} |->
                             Cardinality(Naming(rows, own, name))]]

\* VisibilityGap: the answers that name a rival and not the brand
CategoryGap(rows, kyc, category) ==
    LET asked == {i \in Scored(rows) : rows[i].category = category}
        lost == {i \in asked \ Mentions(rows, asked) : Rivals(rows, i, kyc) # {}}
    IN  [total |-> Cardinality(asked), lost |-> Cardinality(lost),
         competitors |-> UNION {Rivals(rows, i, kyc) : i \in lost}]
AnswersLost(rows, kyc) ==
    SumFunction([c \in Range(CATEGORIES) |-> CategoryGap(rows, kyc, c).lost])

\* _tier, against half of the answers rounded up
CoreThreshold(rows) == Max({1, (Cardinality(Scored(rows)) + 1) \div 2})
Tier(rows, answers) ==
    IF answers >= CoreThreshold(rows) THEN "core" ELSE IF answers > 0 THEN "secondary" ELSE "none"

Entity(rows, name, answers, ownership) ==
    [name |-> name, answers |-> answers, ownership |-> ownership, tier |-> Tier(rows, answers)]

\* The brand's own terms: shared when an answer names the term and the brand.
OwnEntity(rows, term) ==
    LET naming == Naming(rows, Scored(rows), term)
    IN  Entity(rows, term, Cardinality(naming),
               IF Mentions(rows, naming) # {} THEN "shared"
               ELSE IF naming # {} THEN "competitor" ELSE "unclaimed")
Present(rows, kyc) == {term \in kyc.terms : OwnEntity(rows, term).ownership = "shared"}

\* EntityLandscape: a stranger is listed from its second answer on.
Landscape(rows, kyc) ==
    LET scored == Scored(rows)
        Count(name) == Cardinality(Naming(rows, scored, name))
        places == {name \in kyc.places : Count(name) > 0}
        pool == (UNION {Rivals(rows, i, kyc) : i \in scored}) \ (kyc.terms \cup kyc.places)
    IN  {[Entity(rows, "brand", Cardinality(Mentions(rows, scored)), "ours") EXCEPT !.tier = "core"]}
        \cup {OwnEntity(rows, term) : term \in {t \in kyc.terms : Count(t) > 0}}
        \cup {Entity(rows, name, Count(name), "location") : name \in places}
        \cup {Entity(rows, name, Count(name), "competitor") :
                 name \in {n \in pool : Count(n) >= 2 \/ n \in kyc.rivals}}

\* DriverStat: the mentions of each category
CategoryShares(rows) ==
    [c \in Range(CATEGORIES) |-> Ratio(rows, {i \in Scored(rows) : rows[i].category = c})]

-----------------------------------------------------------------------------
\* _engine_presence and _competitors_appeared of the public checker: every answer.
EnginePresence(rows) ==
    [model \in {rows[i].model : i \in DOMAIN rows} |->
        Ratio(rows, {i \in DOMAIN rows : rows[i].model = model})]

CompetitorsAppeared(rows, kyc) ==
    LET pool == Pool(rows, DOMAIN rows, kyc) IN
    [name \in UNION {Named(rows[i], pool) : i \in DOMAIN rows} |->
        Cardinality(Naming(rows, DOMAIN rows, name))]

=============================================================================
