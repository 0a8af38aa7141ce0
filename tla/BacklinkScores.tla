-------------------------- MODULE BacklinkScores --------------------------
(***************************************************************************)
(* What the backlink module concludes from the links it believes in: the   *)
(* toxicity of a referring domain with its reasons (toxicity.py) and the   *)
(* authority of a profile (authority.py).  Both are functions of `live`,   *)
(* the active links of one subject.                                        *)
(*                                                                         *)
(* A vendor's numbers about a domain and the look of a link stay the same  *)
(* from page to page.  Fractions are ten-thousandths.                      *)
(***************************************************************************)
EXTENDS Integers, FiniteSets, FiniteSetsExt, Functions

CONSTANTS
    Keys,        \* (source, target) identities of links
    DomainOf,    \* the referring domain of each
    LinkTrait,   \* follow: it passes authority; money: its anchor sells; class: its anchor class
    Log(_),      \* log10(1 + n) / log10(1001)
    DomainTrait, \* authority, spam: a vendor's spam score of 60 or more; tld: a suspicious one
    None

RefDomains == {DomainOf[k] : k \in Keys}

ASSUME ScoreAssumption ==
    /\ IsFiniteSet(Keys) /\ DOMAIN DomainOf = Keys
    /\ LinkTrait \in [Keys -> [follow : BOOLEAN, money : BOOLEAN,
                               class : {"empty", "naked", "generic", "brand", "partial"}]]
    /\ \A n \in 1 .. Cardinality(Keys) : Log(n) \in Nat /\ Log(n) >= 1003
    /\ DomainTrait \in [RefDomains -> [authority : 0 .. 100, spam : BOOLEAN, tld : BOOLEAN]]

LinksFrom(d, live) == {k \in live : DomainOf[k] = d}
Linking(live) == {DomainOf[k] : k \in live}
Followed(live) == {k \in live : LinkTrait[k].follow}

-----------------------------------------------------------------------------
(* Toxicity                                                                *)

\* Domains of one /24 network: stored links carry no address, so none is known.
SubnetPeers(d) == 0

\* Most of the anchors are commercial phrases.
MoneyAnchors(d, live) ==
    LET from == LinksFrom(d, live)
        money == {k \in from : LinkTrait[k].money}
    IN  money # {} /\ 2 * Cardinality(money) >= Cardinality(from)

Weight == [vendor_spam_score |-> 30, subnet_cluster |-> 25, near_zero_authority |-> 20,
           money_anchor_density |-> 20, suspicious_tld |-> 10]

\* assess_domain: every reason that applies
Reasons(d, live) ==
    {reason \in DOMAIN Weight :
        \/ reason = "vendor_spam_score" /\ DomainTrait[d].spam
        \/ reason = "near_zero_authority" /\ DomainTrait[d].authority < 5
        \/ reason = "suspicious_tld" /\ DomainTrait[d].tld
        \/ reason = "subnet_cluster" /\ SubnetPeers(d) >= 3
        \/ reason = "money_anchor_density" /\ MoneyAnchors(d, live)}

ToxicityOf(d, live) == Min({100, SumFunctionOnSet(Weight, Reasons(d, live))})

\* band_for
BandOf(score) == IF score >= 70 THEN "high" ELSE IF score >= 40 THEN "medium" ELSE "low"

-----------------------------------------------------------------------------
(* Authority                                                               *)

Share(fraction) == Max({0, Min({10000, fraction})})

Reach(n) == IF n = 0 THEN 0 ELSE Share(Log(n))

\* The mean of the domains' authorities, each weighted with its square.
Quality(live) ==
    LET authority(d) == DomainTrait[d].authority
        weights == SumFunction([d \in Linking(live) |-> authority(d) * authority(d)])
        weighted == SumFunction(
            [d \in Linking(live) |-> authority(d) * authority(d) * authority(d)])
    IN  IF weights = 0 THEN 0 ELSE Share((100 * weighted) \div weights)

Trust(live) ==
    IF live = {} THEN 0
    ELSE Share((10000 * Cardinality(Followed(live))) \div Cardinality(live))

\* One less the concentration, against the least that many domains can have.
Diversity(live) ==
    LET n == Cardinality(Linking(live))
        total == Cardinality(live) * Cardinality(live)
        squares == SumFunction([d \in Linking(live) |->
                       Cardinality(LinksFrom(d, live)) * Cardinality(LinksFrom(d, live))])
    IN  IF n <= 1 THEN 0 ELSE Share((10000 * (total - squares) * n) \div (total * (n - 1)))

\* compute_authority, rounded to 0 .. 100
Authority(live) ==
    LET points == 40 * Reach(Cardinality(Linking(live))) + 30 * Quality(live)
                  + 20 * Trust(live) + 10 * Diversity(live)
    IN  Max({0, Min({100, (points + 5000) \div 10000})})

=============================================================================
