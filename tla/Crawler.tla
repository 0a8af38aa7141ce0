------------------------------ MODULE Crawler ------------------------------
(***************************************************************************)
(* One crawl of a site: the frontier, the robots policies read and cached  *)
(* per origin, the sitemaps, and the browser. A main-frame request passes  *)
(* the route handler, be it the crawl's or one a page makes itself; where  *)
(* a server redirects it the browser follows without asking, and the crawl *)
(* looks at the address it ends up with.                                   *)
(*                                                                         *)
(* URLs are normalized. The web is the environment: what robots.txt says,  *)
(* where a request is redirected and what a page links to is any choice.   *)
(***************************************************************************)
EXTENDS Integers, FiniteSets, Sequences, SequencesExt

CONSTANTS
    Urls,         \* normalized crawl URLs, numbered in page order
    Seed,
    Origin,       \* scheme and host of each
    Site,         \* those in the seed's scope
    Public,       \* those whose host resolves to public addresses
    Path,         \* host and path of each
    Queried,      \* those with a query string
    PageLimit, MaxQueueUrls, MaxQueryVariants, SitemapUrlLimit,
    MaxHops,      \* bound: redirects and navigations of its own a page makes
    None

ASSUME CrawlAssumption ==
    /\ Urls \subseteq Nat /\ IsFiniteSet(Urls)
    /\ Seed \in Site \cap Public /\ Site \subseteq Urls /\ Public \subseteq Urls
    /\ Seed \notin Queried /\ None \notin Urls
    /\ \A n \in {PageLimit, MaxQueueUrls, MaxQueryVariants, SitemapUrlLimit, MaxHops} :
          n \in Nat \ {0}

VARIABLES
    pc,         \* where the crawl stands
    queue,      \* the frontier's queue
    visited,    \* every URL the frontier ever took
    robots,     \* robots_cache: what is known per origin
    current,    \* the URL being processed
    asked,      \* the main-frame request the route handler has to answer
    at,         \* where the document of the main frame is
    blocked,    \* navigation_block: the request that robots forbade
    hops,       \* redirects and navigations followed for it
    processed,  \* pages counted against the limit
    reported,   \* requested URLs given to on_page
    finals      \* final URLs given to on_page

\* History.
VARIABLES passed   \* URLs the handler let the browser through to

pageVars == <<asked, at, blocked, hops>>
crawlVars == <<queue, visited, robots, current, processed, reported, finals>>
vars == <<pc, pageVars, crawlVars, passed>>

Origins == {Origin[u] : u \in Urls}
Readings == {"ok", "not_found", "unreadable"}

TypeOK ==
    /\ pc \in {"start", "pick", "ask", "load", "done"}
    /\ queue \in Seq(Urls) /\ visited \subseteq Urls
    /\ robots \in [Origins -> [status : Readings, allowed : SUBSET Urls] \cup {None}]
    /\ current \in Urls \cup {None} /\ asked \in Urls \cup {None}
    /\ at \in Urls \cup {None} /\ blocked \in Urls \cup {None}
    /\ hops \in 0 .. MaxHops /\ processed \in 0 .. PageLimit
    /\ reported \subseteq Urls /\ finals \subseteq Urls
    /\ passed \subseteq Urls

-----------------------------------------------------------------------------
\* The frontier.

Variants(p, known) == {v \in known \cap Queried : Path[v] = Path[p]}

\* _Frontier.add
Takes(u, known) ==
    /\ u \in Site
    /\ u \notin known
    /\ Cardinality(known) < MaxQueueUrls
    /\ u \in Queried => Cardinality(Variants(u, known)) < MaxQueryVariants

Ascending(S) == {s \in [1 .. Cardinality(S) -> S] : \A i, j \in DOMAIN s : i < j => s[i] < s[j]}

\* The links of a page are offered in their order: each is taken, or not, when
\* those before it were.
Take(links) ==
    \E taken \in SUBSET links :
        /\ \A u \in links : u \in taken <=> Takes(u, visited \cup {v \in taken : v < u})
        /\ visited' = visited \cup taken
        /\ \E next \in Ascending(taken) : queue' = queue \o next

-----------------------------------------------------------------------------
\* Robots.

\* 404 and 410 allow everything; any other failure to read allows nothing.
SafelyRead(o) == robots[o].status \in {"ok", "not_found"}
Allows(u) ==
    LET policy == robots[Origin[u]] IN
    \/ policy.status = "not_found"
    \/ policy.status = "ok" /\ u \in policy.allowed

Reading(o) ==
    \E status \in Readings :
        \E allowed \in IF status = "ok" THEN SUBSET {u \in Urls : Origin[u] = o} ELSE {{}} :
            robots' = [robots EXCEPT ![o] = [status |-> status, allowed |-> allowed]]

Init ==
    /\ pc = "start"
    /\ queue = <<Seed>> /\ visited = {Seed}
    /\ robots = [o \in Origins |-> None]
    /\ current = None /\ asked = None /\ at = None /\ blocked = None /\ hops = 0
    /\ processed = 0
    /\ reported = {} /\ finals = {} /\ passed = {}

\* The seed's robots.txt, and the pages of the sitemaps it names.
Start ==
    /\ pc = "start"
    /\ Reading(Origin[Seed])
    /\ \E pages \in SUBSET Site :
          /\ Cardinality(pages) <= SitemapUrlLimit
          /\ Take(pages)
    /\ pc' = "pick"
    /\ UNCHANGED <<current, pageVars, processed, reported, finals, passed>>

More == queue # <<>> /\ processed < PageLimit

\* The policy of an origin is read when the first URL of it comes up.
ReadRobots ==
    /\ \/ /\ pc = "pick" /\ More
          /\ queue # <<>> /\ robots[Origin[Head(queue)]] = None
          /\ Reading(Origin[Head(queue)])
       \/ /\ pc = "ask" /\ asked \in Site \cap Public
          /\ robots[Origin[asked]] = None
          /\ Reading(Origin[asked])
    /\ UNCHANGED <<pc, queue, visited, current, pageVars, processed, reported, finals, passed>>

-----------------------------------------------------------------------------
\* Pages.

\* The page counts and the next URL is up.
NextPage ==
    /\ processed' = processed + 1
    /\ pc' = "pick"
    /\ current' = None /\ asked' = None /\ at' = None /\ blocked' = None /\ hops' = 0

\* on_page(requested, final)
Report(u, f) ==
    /\ reported' = reported \cup {u}
    /\ finals' = finals \cup {f}
    /\ NextPage

\* A URL whose policy is unreadable or forbids it is reported, not requested.
Pick ==
    LET u == Head(queue) IN
    /\ pc = "pick" /\ More
    /\ queue # <<>> /\ robots[Origin[u]] # None
    /\ queue' = Tail(queue)
    /\ IF SafelyRead(Origin[u]) /\ Allows(u)
       THEN /\ current' = u /\ asked' = u
            /\ pc' = "ask"
            /\ UNCHANGED <<at, blocked, hops, processed, reported, finals>>
       ELSE Report(u, u)
    /\ UNCHANGED <<visited, robots, passed>>

\* Variant: the policy is looked at for the requested URL only.
GuardLeavesRobots == asked \in Site \cap Public
\* _route_browser_request for a main-frame request.
LetThrough ==
    /\ asked \in Site \cap Public
    /\ robots[Origin[asked]] # None
    /\ SafelyRead(Origin[asked]) /\ Allows(asked)

\* The request goes out. What a page asks for itself may come too late to be
\* where it is looked for.
Through ==
    /\ pc = "ask" /\ LetThrough
    /\ at' \in {asked} \cup ({at} \ {None})
    /\ passed' = passed \cup {asked}
    /\ asked' = None
    /\ pc' = "load"
    /\ UNCHANGED <<blocked, hops, crawlVars>>

\* The handler aborts, and remembers what robots forbade. The document that is
\* there, if there is one, stays.
Blocked ==
    /\ pc = "ask"
    /\ asked \in Site \cap Public => robots[Origin[asked]] # None
    /\ ~LetThrough
    /\ blocked' = IF asked \in Site \cap Public THEN asked ELSE blocked
    /\ asked' = None
    /\ pc' = "load"
    /\ UNCHANGED <<at, hops, crawlVars, passed>>

\* A server's redirect: the handler is not called for it. An address that is
\* no crawl URL goes by the URL that is processed.
Redirected ==
    /\ pc = "load" /\ at # None
    /\ hops < MaxHops
    /\ hops' = hops + 1
    /\ at' \in Urls
    /\ UNCHANGED <<pc, asked, blocked, crawlVars, passed>>

\* The page sends the main frame elsewhere: a request of its own.
Navigates ==
    /\ pc = "load" /\ at # None
    /\ hops < MaxHops
    /\ hops' = hops + 1
    /\ asked' \in Urls
    /\ pc' = "ask"
    /\ UNCHANGED <<at, blocked, crawlVars, passed>>

\* Variant: the address it ended up with is not looked at.
KeptAnywhere == pc = "load" /\ at # None
\* The document came, and from the project's site: any other raises.
Kept == pc = "load" /\ at \in Site

\* An HTML page: its links are offered to the frontier, then it is reported.
Loaded ==
    /\ Kept
    /\ \E links \in SUBSET Urls : Take(links)
    /\ Report(current, at)
    /\ UNCHANGED <<robots, passed>>

\* Anything else that is not a page counts against the limit and is not reported.
NotHtml ==
    /\ Kept
    /\ NextPage
    /\ UNCHANGED <<queue, visited, robots, reported, finals, passed>>

\* An abort, a timeout, a lost connection, no response, too many redirects, a page
\* of another site: reported as requested, or as the URL that robots forbade.
Failed ==
    /\ pc \in {"ask", "load"}
    /\ Report(current, IF blocked = None THEN current ELSE blocked)
    /\ UNCHANGED <<queue, visited, robots, passed>>

Finish ==
    /\ pc = "pick"
    /\ ~More
    /\ pc' = "done"
    /\ UNCHANGED <<pageVars, crawlVars, passed>>

Next ==
    \/ Start \/ ReadRobots \/ Pick \/ Through \/ Blocked \/ Redirected \/ Navigates
    \/ Loaded \/ NotHtml \/ Failed \/ Finish

Spec == Init /\ [][Next]_vars
FairSpec == Spec /\ WF_vars(Next)

-----------------------------------------------------------------------------
Allowed(u) ==
    /\ u \in Site \cap Public
    /\ robots[Origin[u]] # None
    /\ SafelyRead(Origin[u]) /\ Allows(u)

\* Whatever the crawl requests or a page asks for itself, the browser is let
\* through to public URLs of the project's site only that the policy of their own
\* origin was read for and allows. Where servers redirect, nobody is asked.
NothingForbidden == \A u \in passed : Allowed(u)

\* Every URL the frontier took waits, is being processed, or was counted, once;
\* the frontier's limits hold whatever the pages link to.
FrontierAccounts ==
    /\ Cardinality(visited) = Len(queue) + processed + (IF current = None THEN 0 ELSE 1)
    /\ Cardinality(ToSet(queue)) = Len(queue)
    /\ ToSet(queue) \cap (reported \cup {current}) = {}
    /\ Cardinality(visited) <= MaxQueueUrls
    /\ \A u \in visited : Cardinality(Variants(u, visited)) <= MaxQueryVariants

\* The browser is sent where it may go and the frontier loses no page.
CrawlSound == TypeOK /\ NothingForbidden /\ FrontierAccounts

\* The crawl keeps what SiteAudits is told of it, and ends whatever the site does.
Promise == INSTANCE CrawlPromise WITH open <- pc # "done"
KeepsPromise == Promise!Spec

-----------------------------------------------------------------------------
(***************************************************************************)
(* The inductive invariant behind them: every URL the frontier took is in  *)
(* one place, and the browser stands where a policy was asked for.         *)
(***************************************************************************)
CrawlInv ==
    /\ \A i, j \in DOMAIN queue : queue[i] = queue[j] => i = j
    /\ ToSet(queue) \subseteq visited /\ reported \subseteq visited /\ visited \subseteq Site
    /\ ToSet(queue) \cap (reported \cup {current}) = {}
    /\ finals \subseteq Site
    /\ Cardinality(visited) = Len(queue) + processed + (IF current = None THEN 0 ELSE 1)
    /\ Cardinality(reported) <= processed
    /\ Cardinality(visited) <= MaxQueueUrls
    /\ \A u \in visited : Cardinality(Variants(u, visited)) <= MaxQueryVariants
    /\ (pc \in {"ask", "load"}) <=> (current # None)
    /\ pc \in {"ask", "load"} =>
          /\ current \in visited \ reported
          /\ processed < PageLimit
    /\ blocked \in Site \cup {None}
    /\ pc = "start" => passed = {} /\ queue = <<Seed>>
    /\ pc = "start" => \A o \in Origins : robots[o] = None
=============================================================================
