---------------------------- MODULE CrawlPromise ----------------------------
(***************************************************************************)
(* What a crawl promises the audit it runs for: pages are reported one at  *)
(* a time, each requested URL at most once, no more of them than the page  *)
(* limit, each with a final URL of the project's site, and the crawl ends.                     *)
(***************************************************************************)
EXTENDS FiniteSets, Naturals

CONSTANTS Site, PageLimit

VARIABLES reported, finals, open

Init == reported = {} /\ finals = {} /\ open = TRUE

Report(u, f) ==
    /\ open
    /\ u \notin reported
    /\ Cardinality(reported) < PageLimit
    /\ reported' = reported \cup {u}
    /\ finals' = finals \cup {f}
    /\ UNCHANGED open

Close == open /\ open' = FALSE /\ UNCHANGED <<reported, finals>>

Next == Close \/ \E u, f \in Site : Report(u, f)

Spec == Init /\ [][Next]_<<reported, finals, open>> /\ <>~open
=============================================================================
