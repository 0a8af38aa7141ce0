----------------------------- MODULE PromptPlan -----------------------------
(***************************************************************************)
(* The questions a run asks (pipeline/prompts.py, checker_prompts.py),     *)
(* planned from a profile without a language model.                        *)
(*                                                                         *)
(* A text is <<category, topic, wording>>: two questions are the same text *)
(* when all three agree.  A profile says how many topics survive the       *)
(* filters of topic_pool, how many products there are, which phrases name  *)
(* the brand (a rival, a place or an industry that is named like it), and  *)
(* which texts do with the words of their template (a company "Best").     *)
(***************************************************************************)
EXTENDS Integers, Sequences, FiniteSets, SequencesExt, FiniteSetsExt

BRAND_PROBE == "brand-probe"

CATEGORIES == <<"recommendation", "makers", "comparison", "alternatives", "best-of", "use-case">>

Lap == Len(CATEGORIES)
Wordings == 3   \* shapes of a category
Padders == 6

\* The k-th of some numbers, and what a sequence has at these places.
Nth(S, k) == CHOOSE n \in S : Cardinality({m \in S : m <= n}) = k
Kept(seq, S) == [k \in 1 .. Cardinality(S) |-> seq[Nth(S, k)]]

\* topic_pool: a candidate is a category of things people shop for and does not name
\* the brand; no topic is taken twice.
Askable(profile) ==
    {i \in DOMAIN profile.candidates :
        profile.candidates[i].shoppable /\ ~profile.candidates[i].names}
TopicPool(profile) ==
    Kept(profile.candidates,
         {i \in Askable(profile) :
             \A j \in Askable(profile) :
                 profile.candidates[j].topic = profile.candidates[i].topic => i <= j})

\* _question_topics: without a topic, the neutral "solutions"
Topics(profile) ==
    LET pool == TopicPool(profile) IN
    IF pool = <<>> THEN <<[topic |-> "solutions", names |-> profile.solutions]>>
    ELSE [i \in DOMAIN pool |-> [topic |-> pool[i].topic, names |-> FALSE]]

\* _shapes: the phrases of the profile a wording puts in, besides the topic
Phrases(text) ==
    CASE text[1] = "alternatives" -> {"rival"}
      [] text[1] \in {"makers", "best-of"} -> {"place"}
      [] text[1] = "comparison" /\ text[3] = 0 -> {"industry"}
      [] OTHER -> {}

\* leaks_brand
Leaks(profile, text) ==
    \/ text \in profile.named
    \/ Phrases(text) \cap profile.leaky # {}
    \/ \E i \in DOMAIN Topics(profile) :
          Topics(profile)[i].topic = text[2] /\ Topics(profile)[i].names

\* _question_specs: the wordings tried, in the order they are tried.  The steps
\* repeat themselves once every wording had its turn.
StepText(topics, step) ==
    <<CATEGORIES[(step % Lap) + 1],
      topics[((step + (step \div Lap)) % Len(topics)) + 1].topic,
      (step \div (Lap * Len(topics))) % Wordings>>

Tried(profile, count) ==
    LET topics == Topics(profile)
        steps == Min({count * Lap * Len(topics) + count, Wordings * Lap * Len(topics)})
        pads == Padders * Len(topics) + count
        Pad(n) == <<"padder", topics[(n % Len(topics)) + 1].topic, n % Padders>>
    IN  [n \in 1 .. steps |-> StepText(topics, n - 1)]
        \o [n \in 1 .. pads |-> Pad(n - 1)]
        \o [n \in 1 .. 4 * count |-> <<"numbered", topics[1].topic, n>>]

\* The places of the texts that name no brand, each where it comes first.
Fresh(profile, tried) ==
    {n \in DOMAIN tried :
        ~Leaks(profile, tried[n]) /\ \A m \in 1 .. n - 1 : tried[m] # tried[n]}

\* The first `count` of them.
Texts(profile, count) ==
    LET tried == Tried(profile, count)
        fresh == Fresh(profile, tried)
    IN  [k \in 1 .. Min({count, Cardinality(fresh)}) |-> tried[Nth(fresh, k)]]

\* A padder belongs to the category whose turn it is.
QuestionSpecs(profile, count) ==
    LET texts == Texts(profile, count) IN
    [n \in DOMAIN texts |->
        [text |-> texts[n],
         category |-> IF texts[n][1] \in Range(CATEGORIES) THEN texts[n][1]
                      ELSE CATEGORIES[((n - 1) % Lap) + 1]]]

\* What a review may call a question of its own
ALLOWED_PROMPT_CATEGORIES == Range(CATEGORIES) \cup {BRAND_PROBE, "custom"}
USER_PROMPT_EXTRA == 3

\* patch_analysis_prompts refuses a plan that is empty, too long, asks twice or
\* leaves the categories.
Reviewed(plan, count) ==
    /\ Len(plan) \in 1 .. count + USER_PROMPT_EXTRA
    /\ \A n \in 1 .. Len(plan) : plan[n].category \in ALLOWED_PROMPT_CATEGORIES
    /\ \A m, n \in 1 .. Len(plan) : plan[m].text = plan[n].text => m = n

\* Variant: the spread begins with the first question.
BrandPositionsEarly(budget, count) == {(i * count) \div (budget + 1) : i \in 0 .. budget - 1}

\* _brand_positions, counted from 0
BrandPositions(budget, count) == {((i + 1) * count) \div (budget + 1) : i \in 0 .. budget - 1}

\* generate_prompts: a minority of probes between the questions; without a
\* question left the plan ends.
GeneratePrompts(profile, count) ==
    LET budget == Min({profile.products, count \div 4})
        probes == BrandPositions(budget, count)
        questions == QuestionSpecs(profile, count)
        Before(pos) == Cardinality({p \in probes : p < pos})
        Turn(pos) == pos - Before(pos) + 1
        missing == {pos \in 0 .. count - 1 \ probes : Turn(pos) \notin DOMAIN questions}
    IN  [n \in 1 .. (IF missing = {} THEN count ELSE Min(missing)) |->
            IF n - 1 \in probes
            THEN [text |-> <<BRAND_PROBE, Before(n - 1) + 1, 0>>, category |-> BRAND_PROBE]
            ELSE questions[Turn(n - 1)]]

\* checker_prompts.generate: two wordings of each category about the first topic.
\* The rival and the place are not looked at again.
CheckerPrompts(profile) ==
    [n \in 1 .. 2 * Lap |->
        LET category == CATEGORIES[((n - 1) \div 2) + 1] IN
        [text |-> <<category, Topics(profile)[1].topic, (n - 1) % 2>>, category |-> category]]

-----------------------------------------------------------------------------
(* What a plan owes                                                        *)

\* Nothing but a topic names the brand.
Nameless(profile) == profile.leaky = {} /\ profile.named = {}

\* No text is asked twice; probes are at most a quarter of what the plan is to hold,
\* never come first and never follow one another; and the categories take turns, unless
\* one of them cannot be asked: none is ahead of another by more than a question.
PlanBalanced(profile, count, plan) ==
    LET probes == {n \in DOMAIN plan : plan[n].category = BRAND_PROBE}
        Share(category) == Cardinality({n \in DOMAIN plan : plan[n].category = category})
    IN
    /\ \A m, n \in DOMAIN plan : plan[m].text = plan[n].text => m = n
    /\ 4 * Cardinality(probes) <= count
    /\ \A n \in probes : n > 1 /\ n - 1 \notin probes
    /\ Nameless(profile) =>
          \A c, d \in Range(CATEGORIES) : Share(c) <= Share(d) + 1

\* "Alternate phrasings only start once every (category, topic) pair has been
\* asked in its canonical wording" (prompts.py) -- but for pools whose size 7
\* divides: there the two strides move in lockstep and every category keeps to
\* one topic.
CanonicalFirst(profile, plan) ==
    LET topics == {Topics(profile)[i].topic : i \in DOMAIN Topics(profile)}
        asked == {plan[n].text : n \in {m \in DOMAIN plan : plan[m].category # BRAND_PROBE}}
    IN  (Nameless(profile) /\ Cardinality(topics) % 7 # 0) =>
            ((\E text \in asked : text[3] > 0) =>
                \A category \in Range(CATEGORIES), topic \in topics :
                    <<category, topic, 0>> \in asked)

\* A plan never holds more questions than it should, and fewer only where even the words
\* of the last resort, or its topic, name the brand.
PlanFilled(profile, count, plan) ==
    /\ Len(plan) <= count
    /\ (/\ profile.solutions = FALSE
        /\ \A n \in 1 .. 4 * count : <<"numbered", Topics(profile)[1].topic, n>> \notin profile.named) =>
           Len(plan) = count

=============================================================================
