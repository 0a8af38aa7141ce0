----------------------------- MODULE PageRules -----------------------------
(***************************************************************************)
(* What a site audit says of one crawled page and of all of them           *)
(* (site_audit/analyzer.py, rules.py, scoring.py).                         *)
(*                                                                         *)
(* A crawled page is what the crawler reports of it and, when it was read, *)
(* what parse_page finds in its HTML: the title, how many H1 there are,    *)
(* which languages its alternates declare, and what is missing.            *)
(***************************************************************************)
EXTENDS Integers, FiniteSets, Sequences, FiniteSetsExt

ErrorCodes == {"http_status_error", "missing_title", "missing_h1", "duplicate_hreflang",
               "crawl_failed"}
WarningCodes == {"http_redirect", "title_too_long", "multiple_h1", "missing_meta_description",
                 "missing_html_lang", "missing_image_alt"}
NoticeCodes == {"url_redirected", "empty_anchor_text", "blocked_by_robots"}

When(holds, code) == IF holds THEN {code} ELSE {}

Unread(page) == page.status < 200 \/ page.status >= 400
Declares(page) ==
    \E i, j \in DOMAIN page.hreflangs : i # j /\ page.hreflangs[i] = page.hreflangs[j]

\* evaluate_page
EvaluatePage(page) ==
    When(Unread(page), "http_status_error")
    \cup When(~Unread(page) /\ page.status >= 300, "http_redirect")
    \cup When(page.redirected, "url_redirected")
    \cup When(page.title = "none", "missing_title")
    \cup When(page.title = "long", "title_too_long")
    \cup When(page.h1 = 0, "missing_h1")
    \cup When(page.h1 > 1, "multiple_h1")
    \cup {code \in {"missing_meta_description", "missing_html_lang", "missing_image_alt",
                    "empty_anchor_text"} : code \in page.lacks}
    \cup When(Declares(page), "duplicate_hreflang")

\* analyze_page: a page that was not read has no other finding.
Findings(page) ==
    CASE page.outcome = "blocked" -> {"blocked_by_robots"}
      [] page.outcome = "failed" -> {"crawl_failed"}
      [] OTHER -> EvaluatePage(page)

\* A page without an answer has the status 0.
StatusCode(page) == IF page.outcome = "read" THEN page.status ELSE 0

\* The row of a page, SiteAuditPage
AnalyzedPage(page) == [status |-> StatusCode(page), issues |-> Findings(page)]

\* _severity_counts
Severities(issues) ==
    [errors |-> Cardinality(issues \cap ErrorCodes),
     warnings |-> Cardinality(issues \cap WarningCodes),
     notices |-> Cardinality(issues \cap NoticeCodes)]

\* is_scorable_page
Scorable(row) == "blocked_by_robots" \notin row.issues

\* page_health_score of a scorable page
PageHealth(row) ==
    IF row.status = 0 \/ row.status >= 400 THEN 0
    ELSE Max({0, 100 - 15 * Severities(row.issues).errors - 5 * Severities(row.issues).warnings})

\* round() of a quotient: a half goes to the even neighbour
Rounded(sum, number) ==
    LET below == sum \div number
        twice == 2 * (sum % number)
    IN  IF twice > number \/ (twice = number /\ below % 2 = 1) THEN below + 1 ELSE below

\* audit_health_score of scores that sum up to `sum`
AuditHealth(sum, number, none) == IF number = 0 THEN none ELSE Rounded(sum, number)

=============================================================================
