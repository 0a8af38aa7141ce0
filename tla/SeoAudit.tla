------------------------------ MODULE SeoAudit ------------------------------
(***************************************************************************)
(* Can an answer engine read the site?  The grade of the pages discovery   *)
(* has read and of robots.txt (pipeline/seo_audit.py, robots.py).          *)
(*                                                                         *)
(* A site is the answer to the request for robots.txt and its pages, the   *)
(* home page first; of a page its checks are told, not its HTML.  The      *)
(* length of the text is "none", "thin" or "enough".                       *)
(***************************************************************************)
EXTENDS Integers, Sequences, FiniteSets, FiniteSetsExt, Functions

NotGraded == "-"

\* fetch: what is known of robots.txt.  An answer of 400 or more, save 401 and
\* 403, says that there is none and everything is allowed.
RobotsReport(reply) ==
    LET Report(measured, blocked, sitemaps) ==
            [measured |-> measured, blocked |-> blocked, sitemaps |-> sitemaps]
    IN  IF reply.status \in {0, 401, 403} THEN Report(FALSE, {}, FALSE)
        ELSE IF reply.status >= 400 THEN Report(TRUE, {}, FALSE)
        ELSE IF reply.status # 200 THEN Report(FALSE, {}, FALSE)
        ELSE Report(TRUE, reply.blocked, reply.sitemaps)

\* blocked_retrieval, blocked_training: crawlers that do not honour it never count.
AiAccess(robots) ==
    IF ~robots.measured THEN "not_measured"
    ELSE IF "retrieval" \in robots.blocked THEN "fail"
    ELSE IF "training" \in robots.blocked THEN "warn" ELSE "pass"

Verdict(holds) == IF holds THEN "pass" ELSE "fail"

\* _check_image_alt
ImageAlt(images, missing) ==
    IF images = 0 THEN "not_applicable"
    ELSE IF missing = 0 THEN "pass"
    ELSE IF 2 * missing <= images THEN "warn" ELSE "fail"

CRITICAL == {"ai_crawler_access", "indexable", "server_rendered_content", "thin_content", "https"}
IMPORTANT == {"organization_schema", "entity_links_sameas", "title_present", "h1_present",
              "lang_declared"}
MINOR == {"meta_description", "canonical", "sitemap", "open_graph", "image_alt"}
CHECKS == CRITICAL \cup IMPORTANT \cup MINOR

\* What blocks an engine: the home page is not to be indexed, has no text, is in the clear
AccessChecks(home) ==
    [indexable |-> Verdict(~home.noindex),
     server_rendered_content |-> Verdict(home.text # "none"),
     thin_content |-> IF home.text = "none" THEN "fail"
                      ELSE IF home.text = "thin" THEN "warn" ELSE "pass",
     https |-> Verdict(home.secure)]

\* Who the site is about, on any of its pages
EntityChecks(pages) ==
    LET types == UNION {pages[i].types : i \in DOMAIN pages} IN
    [organization_schema |-> IF "entity" \in types THEN "pass"
                             ELSE IF types # {} THEN "warn" ELSE "fail",
     entity_links_sameas |-> Verdict(\E i \in DOMAIN pages : pages[i].linked)]

\* The markup of the home page
MARKUP == {"title_present", "lang_declared", "meta_description", "canonical", "open_graph"}
Heading(home) == IF home.h1 = 1 THEN "pass" ELSE IF home.h1 = 0 THEN "fail" ELSE "warn"

Sitemap(robots) == IF robots.measured THEN Verdict(robots.sitemaps) ELSE "not_measured"

\* run_checks: one verdict per check, from the home page or from all of them.
RunChecks(site) ==
    LET robots == RobotsReport(site.robots)
        home == site.pages[1]
        access == AccessChecks(home)
        entity == EntityChecks(site.pages)
        images == SumFunction([i \in DOMAIN site.pages |-> site.pages[i].images])
        missing == SumFunction([i \in DOMAIN site.pages |-> site.pages[i].missing])
    IN  [check \in CHECKS |->
            IF check = "ai_crawler_access" THEN AiAccess(robots)
            ELSE IF check = "sitemap" THEN Sitemap(robots)
            ELSE IF check = "image_alt" THEN ImageAlt(images, missing)
            ELSE IF check = "h1_present" THEN Heading(home)
            ELSE IF check \in MARKUP THEN Verdict(check \in home.has)
            ELSE IF check \in DOMAIN access THEN access[check] ELSE entity[check]]

Weight ==
    [check \in CHECKS |-> IF check \in CRITICAL THEN 5 ELSE IF check \in IMPORTANT THEN 3 ELSE 1]

\* Verdicts that are in the ratio, and their credit in halves
Credit == [pass |-> 2, warn |-> 1, fail |-> 0]
Evaluated(checks) == {check \in DOMAIN checks : checks[check] \in DOMAIN Credit}

\* audit_score of checks of which one was evaluated, in tenths
AuditScore(checks) ==
    LET total == SumFunctionOnSet(Weight, Evaluated(checks))
        earned == SumFunction([c \in Evaluated(checks) |-> Weight[c] * Credit[checks[c]]])
    IN  (1000 * earned + total) \div (2 * total)

CriticalFailures(checks) == {check \in CRITICAL \cap DOMAIN checks : checks[check] = "fail"}

\* The band of a score
Band(score) ==
    IF score >= 900 THEN "A" ELSE IF score >= 750 THEN "B" ELSE IF score >= 600 THEN "C"
    ELSE IF score >= 400 THEN "D" ELSE "F"

\* audit_grade: one critical failure caps it at C, two or more at F.
AuditGrade(checks) ==
    IF Evaluated(checks) = {} THEN NotGraded
    ELSE IF Cardinality(CriticalFailures(checks)) >= 2 THEN "F"
    ELSE IF Cardinality(CriticalFailures(checks)) = 1 /\ Band(AuditScore(checks)) \in {"A", "B"}
         THEN "C" ELSE Band(AuditScore(checks))

\* audit, and the outcomes of run_audit without one
Audited(site) == [status |-> "ok", checks |-> RunChecks(site), grade |-> AuditGrade(RunChecks(site))]
NoAudit == [status |-> "off", checks |-> <<>>, grade |-> NotGraded]
AuditFailed == [NoAudit EXCEPT !.status = "error"]

-----------------------------------------------------------------------------

Rank(grade) ==
    IF grade = "A" THEN 5 ELSE IF grade = "B" THEN 4 ELSE IF grade = "C" THEN 3
    ELSE IF grade = "D" THEN 2 ELSE IF grade = "F" THEN 1 ELSE 0

\* A check "is never a failure, and never a free pass" when it could not be made,
\* and no fatal problem is averaged away (seo_audit.py): whatever a check says, or
\* whether it says anything, the grade lies between the one the site would get if
\* the check failed and the one if it passed; a site closed to the crawlers that
\* answer, or not to be indexed, is never an A or B; and a page without text, which
\* two critical checks look at, is an F.
GradeHonest(site, audit) ==
    audit.status = "ok" =>
        /\ audit.grade # NotGraded
        /\ \A check \in DOMAIN audit.checks :
              LET Graded(verdict) == AuditGrade([audit.checks EXCEPT ![check] = verdict]) IN
              Rank(audit.grade) \in Rank(Graded("fail")) .. Rank(Graded("pass"))
        /\ (site.robots.status = 200 /\ "retrieval" \in site.robots.blocked) \/ site.pages[1].noindex
              => audit.grade \notin {"A", "B"}
        /\ site.pages[1].text = "none" => audit.grade = "F"

=============================================================================
