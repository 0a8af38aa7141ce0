----------------------------- MODULE SiteAudits -----------------------------
(***************************************************************************)
(* Tracked projects of one organization and the crawls queued for them:    *)
(* the requests that create, delete and re-audit a project, the queue in   *)
(* the table `site_audits`, and the workers that claim, crawl, lapse and   *)
(* are taken over.                                                         *)
(*                                                                         *)
(* A worker keeps the audit it claimed in memory and writes back only what *)
(* it changed since, so it can overwrite what another one wrote. A crawl   *)
(* itself is the set of URLs it visits; Crawler says which those may be,   *)
(* and PageRules what is said of them.                                     *)
(* How old a claim is matters, and is kept, only while the audit runs.     *)
(***************************************************************************)
EXTENDS PageRules

CONSTANTS
    Users,          \* members of the organization
    Domains,        \* normalized domain keys
    Requests,       \* API request threads
    Workers,        \* site audit worker processes
    Urls,           \* URLs a crawl may request
    Finals,         \* URLs they may redirect to
    Page(_, _),     \* what a request that ends at a URL reports
    MaxProjects,    \* bound: projects ever created
    MaxAudits,      \* bound: audits ever queued
    MAX_ATTEMPTS,
    ProjectLimit,   \* the plan's projects
    None

ASSUME AuditAssumption ==
    /\ IsFiniteSet(Requests) /\ IsFiniteSet(Urls)
    /\ \A n \in {MaxProjects, MaxAudits, MAX_ATTEMPTS, ProjectLimit} : n \in Nat \ {0}
    /\ None \notin Users \cup Domains \cup Int \cup [user : Users, domain : Domains]

ProjectIds == 1 .. MaxProjects
AuditIds == 1 .. MaxAudits     \* in order of created_at

VARIABLES
    projects,   \* seo_projects
    mirrors,    \* projects: the tenancy row each one is created with
    audits,     \* site_audits with their site_audit_pages
    req,        \* requests: what they ask for and what they have read
    worker      \* workers: the audit they hold and their copy of it

\* History.
VARIABLES
    tracked,    \* projects created so far
    queued,     \* audits queued so far
    lapsed      \* audits whose claim ran out under a worker that went on

dbVars == <<projects, mirrors, audits>>
history == <<tracked, queued, lapsed>>
vars == <<dbVars, req, worker, history>>

ActiveStatuses == {"queued", "running"}
Totals == [pages : Nat, errors : Nat, warnings : Nat, notices : Nat]
RowOf == [u \in Urls |-> [f \in Finals |-> AnalyzedPage(Page(u, f))]]
Rows == {[final |-> f, page |-> RowOf[u][f]] : u \in Urls, f \in Finals}
Audits == [project : ProjectIds, status : ActiveStatuses \cup {"done", "failed"},
           attempts : 0 .. MAX_ATTEMPTS + 1, fresh : BOOLEAN,
           pages : SUBSET Rows, totals : Totals, health : (0 .. 100) \cup {None}]

Nothing == [pages |-> 0, errors |-> 0, warnings |-> 0, notices |-> 0]
NoScores == [sum |-> 0, number |-> 0]
NoRequest == [pc |-> "idle", user |-> None, domain |-> None, project |-> None]
Off == [pc |-> "idle", audit |-> None, todo |-> {}, seen |-> {}, copy |-> Nothing,
        scores |-> NoScores]

TypeOK ==
    /\ projects \in [ProjectIds -> [user : Users, domain : Domains] \cup {None}]
    /\ mirrors \in [ProjectIds -> Domains \cup {None}]
    /\ audits \in [AuditIds -> Audits \cup {None}]
    /\ req \in [Requests ->
          [pc : {"idle", "create", "queue"},
           user : Users \cup {None}, domain : Domains \cup {None},
           project : ProjectIds \cup {None}]]
    /\ worker \in [Workers ->
          [pc : {"idle", "start", "crawl"}, audit : AuditIds \cup {None},
           todo : SUBSET Urls, seen : SUBSET Finals, copy : Totals,
           scores : [sum : Nat, number : Nat]]]
    /\ tracked \in 0 .. MaxProjects
    /\ queued \in 0 .. MaxAudits
    /\ lapsed \subseteq AuditIds

Init ==
    /\ projects = [p \in ProjectIds |-> None]
    /\ mirrors = [p \in ProjectIds |-> None]
    /\ audits = [a \in AuditIds |-> None]
    /\ req = [r \in Requests |-> NoRequest]
    /\ worker = [w \in Workers |-> Off]
    /\ tracked = 0
    /\ queued = 0
    /\ lapsed = {}

Tracked == {p \in ProjectIds : projects[p] # None}
Existing == {a \in AuditIds : audits[a] # None}
ActiveOf(p) == {a \in Existing : audits[a].project = p /\ audits[a].status \in ActiveStatuses}

-----------------------------------------------------------------------------
\* Requests.

End(r) == req' = [req EXCEPT ![r] = NoRequest]

\* What a request reads before it writes only decides whether it goes on: the
\* checks are one step, and a refused request is none.
CreateProject(r, u, d) ==
    /\ req[r].pc = "idle"
    /\ ~\E p \in Tracked : projects[p] = [user |-> u, domain |-> d]
    /\ Cardinality(Tracked) + 1 <= ProjectLimit
    /\ req' = [req EXCEPT ![r] = [NoRequest EXCEPT !.pc = "create", !.user = u, !.domain = d]]
    /\ UNCHANGED <<dbVars, worker, history>>

\* The project is loaded, and no audit of it is active.
RequestAudit(r, p) ==
    /\ req[r].pc = "idle"
    /\ p \in Tracked
    /\ ActiveOf(p) = {}
    /\ req' = [req EXCEPT ![r] = [NoRequest EXCEPT !.pc = "queue", !.project = p]]
    /\ UNCHANGED <<dbVars, worker, history>>

\* uq_projects_org_domain_key and uq_seo_projects_user_domain_key.
Taken(r) ==
    \/ \E p \in ProjectIds : mirrors[p] = req[r].domain
    \/ \E p \in Tracked : projects[p] = [user |-> req[r].user, domain |-> req[r].domain]

\* The row of an audit that was just queued.
Queued(p) == [project |-> p, status |-> "queued", attempts |-> 0, fresh |-> FALSE,
              pages |-> {}, totals |-> Nothing, health |-> None]

\* Project, mirror, first audit and the month's counter, which Submissions
\* models, commit together or not at all. The audit is left out by a process
\* that was started with site_audit_enabled off.
CommitCreate(r) ==
    /\ req[r].pc = "create"
    /\ \/ /\ Taken(r)
          /\ UNCHANGED <<projects, mirrors, audits, tracked, queued>>
       \/ /\ ~Taken(r)
          /\ tracked < MaxProjects
          /\ projects' = [projects EXCEPT ![tracked + 1] =
                             [user |-> req[r].user, domain |-> req[r].domain]]
          /\ mirrors' = [mirrors EXCEPT ![tracked + 1] = req[r].domain]
          /\ tracked' = tracked + 1
          /\ \/ UNCHANGED <<audits, queued>>
             \/ /\ queued < MaxAudits
                /\ audits' = [audits EXCEPT ![queued + 1] = Queued(tracked + 1)]
                /\ queued' = queued + 1
    /\ End(r)
    /\ UNCHANGED <<worker, lapsed>>

\* Variant: there is no such index, and the check of the request has to do.
MayQueueChecked(p) == p \in Tracked
\* The foreign key and uq_site_audits_one_active_per_project.
MayQueue(p) == p \in Tracked /\ ActiveOf(p) = {}

CommitAudit(r) ==
    /\ req[r].pc = "queue"
    /\ \/ /\ MayQueue(req[r].project)
          /\ queued < MaxAudits
          /\ audits' = [audits EXCEPT ![queued + 1] = Queued(req[r].project)]
          /\ queued' = queued + 1
       \/ /\ ~MayQueue(req[r].project)
          /\ UNCHANGED <<audits, queued>>
    /\ End(r)
    /\ UNCHANGED <<projects, mirrors, worker, tracked, lapsed>>

\* Variant: only the row the customer sees is removed.
MirrorKept(p) == mirrors
MirrorRemoved(p) == [mirrors EXCEPT ![p] = None]

\* Not guarded on a running crawl; audits and pages go by cascade.
DeleteProject(p) ==
    /\ p \in Tracked
    /\ projects' = [projects EXCEPT ![p] = None]
    /\ mirrors' = MirrorRemoved(p)
    /\ audits' = [a \in AuditIds |->
                    IF audits[a] # None /\ audits[a].project = p THEN None ELSE audits[a]]
    /\ lapsed' = {a \in lapsed : audits'[a] # None}
    /\ UNCHANGED <<req, worker, tracked, queued>>

-----------------------------------------------------------------------------
\* Workers.

\* Variant: a running audit is somebody's.
ClaimableQueued(a) == a \in Existing /\ audits[a].status = "queued"
\* Variant: whatever was not claimed lately waits.
ClaimableUnclaimed(a) == a \in Existing /\ ~audits[a].fresh
Claimable(a) ==
    /\ a \in Existing
    /\ \/ audits[a].status = "queued"
       \/ audits[a].status = "running" /\ ~audits[a].fresh

Crawling(w, a) == worker[w].pc # "idle" /\ worker[w].audit = a

Spent(a) == audits[a].attempts + 1 > MAX_ATTEMPTS

\* The oldest audit that waits or whose claim ran out, one attempt the poorer.
Claim(w) ==
    /\ worker[w].pc = "idle"
    /\ \E a \in AuditIds :
          /\ Claimable(a)
          /\ \A b \in AuditIds : Claimable(b) => a <= b
          /\ \/ /\ Spent(a)
                /\ audits' = [audits EXCEPT ![a].attempts = @ + 1, ![a].status = "failed"]
                /\ UNCHANGED worker
             \/ /\ ~Spent(a)
                /\ audits' = [audits EXCEPT ![a].attempts = @ + 1, ![a].status = "running",
                                            ![a].fresh = TRUE]
                /\ worker' = [worker EXCEPT ![w] = [Off EXCEPT
                                 !.pc = "start", !.audit = a, !.copy = audits[a].totals]]
    /\ UNCHANGED <<projects, mirrors, req, history>>

\* Every commit of a worker renews the claim.
Heartbeat(a) == audits[a].status = "running"

\* A commit writes the columns that differ from the worker's copy.
Written(row, copy, new) == [c \in DOMAIN row |-> IF new[c] = copy[c] THEN row[c] ELSE new[c]]

\* The clean page set of an attempt, and its counters.
StartCrawl(w) ==
    LET a == worker[w].audit IN
    /\ worker[w].pc = "start"
    /\ a \in Existing
    /\ audits' = [audits EXCEPT ![a].pages = {}, ![a].fresh = Heartbeat(a),
                    ![a].totals = Written(@, worker[w].copy, Nothing)]
    /\ worker' = [worker EXCEPT ![w].pc = "crawl", ![w].todo = Urls, ![w].copy = Nothing]
    /\ UNCHANGED <<projects, mirrors, req, history>>

\* What an exception leaves: the audit is failed, if there still is one.
FailAudit(w) ==
    LET a == worker[w].audit IN
    /\ worker' = [worker EXCEPT ![w] = Off]
    /\ audits' = IF a \in Existing THEN [audits EXCEPT ![a].status = "failed", ![a].fresh = FALSE]
                                    ELSE audits

Repeated(w, f) == f \in worker[w].seen

\* The worker's copy of the counters, and its scores, with one more page.
Counted(totals, row) ==
    LET found == Severities(row.issues) IN
    [pages |-> totals.pages + 1, errors |-> totals.errors + found.errors,
     warnings |-> totals.warnings + found.warnings, notices |-> totals.notices + found.notices]
Scored(scores, row) ==
    IF Scorable(row) THEN [sum |-> scores.sum + PageHealth(row), number |-> scores.number + 1]
    ELSE scores

\* on_page: one row per final URL, counted from the worker's own copy. A row
\* of another worker's violates the unique constraint, a vanished audit the
\* foreign key.
CrawlPage(w, u, f) ==
    LET a == worker[w].audit
        row == RowOf[u][f]
        copy == worker[w].copy
    IN
    /\ worker[w].pc = "crawl"
    /\ u \in worker[w].todo
    /\ \/ /\ a \in Existing /\ Repeated(w, f)
          /\ worker' = [worker EXCEPT ![w].todo = @ \ {u}]
          /\ audits' = [audits EXCEPT ![a].fresh = Heartbeat(a)]
       \/ /\ a \in Existing /\ ~Repeated(w, f) /\ \A other \in audits[a].pages : other.final # f
          /\ worker' = [worker EXCEPT ![w].todo = @ \ {u}, ![w].seen = @ \cup {f},
                            ![w].copy = Counted(copy, row), ![w].scores = Scored(@, row)]
          /\ audits' = [audits EXCEPT ![a].fresh = Heartbeat(a),
                            ![a].pages = @ \cup {[final |-> f, page |-> row]},
                            ![a].totals = Written(@, copy, Counted(copy, row))]
       \/ /\ a \in Existing => (~Repeated(w, f) /\ \E other \in audits[a].pages : other.final = f)
          /\ FailAudit(w)
    /\ UNCHANGED <<projects, mirrors, req, history>>

\* The last heartbeat and the result. The status is written whatever it has
\* become meanwhile.
Finish(w) ==
    LET a == worker[w].audit IN
    /\ worker[w].pc = "crawl"
    /\ worker[w].todo = {}
    /\ IF a \in Existing
       THEN /\ audits' = [audits EXCEPT ![a].status = "done", ![a].fresh = FALSE,
                          ![a].health = AuditHealth(worker[w].scores.sum, worker[w].scores.number, None)]
            /\ worker' = [worker EXCEPT ![w] = Off]
       ELSE FailAudit(w)
    /\ UNCHANGED <<projects, mirrors, req, history>>

\* The browser, the network or the audit itself is gone.
CrawlFails(w) ==
    /\ worker[w].pc # "idle"
    /\ FailAudit(w)
    /\ UNCHANGED <<projects, mirrors, req, history>>

\* The process dies and is started again.
Crash(w) ==
    /\ worker[w].pc # "idle"
    /\ worker' = [worker EXCEPT ![w] = Off]
    /\ UNCHANGED <<dbVars, req, history>>

\* site_audit_stale_claim_seconds pass without a heartbeat.
Lapse(a) ==
    /\ a \in Existing
    /\ audits[a].status = "running" /\ audits[a].fresh
    /\ audits' = [audits EXCEPT ![a].fresh = FALSE]
    /\ lapsed' = IF \E w \in Workers : Crawling(w, a) THEN lapsed \cup {a} ELSE lapsed
    /\ UNCHANGED <<projects, mirrors, req, worker, tracked, queued>>

LapseAlone(a) == Lapse(a) /\ ~\E w \in Workers : Crawling(w, a)

Work(w) ==
    \/ StartCrawl(w)
    \/ \E u \in Urls, f \in Finals : CrawlPage(w, u, f)
    \/ Finish(w) \/ CrawlFails(w)

Next ==
    \/ \E r \in Requests :
          \/ \E u \in Users, d \in Domains : CreateProject(r, u, d)
          \/ \E p \in ProjectIds : RequestAudit(r, p)
          \/ CommitCreate(r) \/ CommitAudit(r)
    \/ \E p \in ProjectIds : DeleteProject(p)
    \/ \E w \in Workers : Claim(w) \/ Work(w) \/ Crash(w)
    \/ \E a \in AuditIds : Lapse(a)

Spec == Init /\ [][Next]_vars

\* Workers poll and go on crawling; the clock goes on for a claim nobody holds.
Fairness ==
    /\ \A w \in Workers : WF_vars(Claim(w)) /\ WF_vars(Work(w))
    /\ \A a \in AuditIds : WF_vars(LapseAlone(a))

FairSpec == Spec /\ Fairness

-----------------------------------------------------------------------------
\* An organization tracks a domain once, whoever of its members added it, and
\* a deleted project leaves nothing behind that would refuse the domain: a
\* mirror stands for a project the customer can see.
DomainTrackedOnce ==
    /\ \A p, q \in Tracked : p # q => projects[p].domain # projects[q].domain
    /\ \A p \in ProjectIds : mirrors[p] # None => p \in Tracked /\ projects[p].domain = mirrors[p]

\* A project is crawled by one worker at a time, except where a claim ran out
\* under a live worker.
CrawledByOne ==
    \A v, w \in Workers : \A a, b \in Existing :
        /\ v # w /\ Crawling(v, a) /\ Crawling(w, b)
        /\ audits[a].project = audits[b].project
        => {a, b} \cap lapsed # {}

\* What the rows of a crawl add up to: the findings of a severity are one for
\* each row and code.
Findable(rows, codes) == {f \in rows \X codes : f[2] \in f[1].page.issues}
Tally(rows) ==
    [pages |-> Cardinality(rows), errors |-> Cardinality(Findable(rows, ErrorCodes)),
     warnings |-> Cardinality(Findable(rows, WarningCodes)),
     notices |-> Cardinality(Findable(rows, NoticeCodes))]
ScoresOf(rows) == {PageHealth(r.page) : r \in {s \in rows : Scorable(s.page)}}
OnePerFinal(rows) == \A r, s \in rows : r.final = s.final => r = s

\* A finished audit that no claim ran out on reports one crawl, whatever crashed
\* before: a row for each final URL, counters that are the sums over its rows, and
\* a health between its worst and its best page, pages that robots.txt closes left
\* out, and none when there is no other.
Complete(audit) ==
    LET scores == ScoresOf(audit.pages) IN
    /\ audit.attempts \in 1 .. MAX_ATTEMPTS
    /\ OnePerFinal(audit.pages)
    /\ audit.totals = Tally(audit.pages)
    /\ IF scores = {} THEN audit.health = None
       ELSE audit.health \in Min(scores) .. Max(scores)
DoneIsComplete ==
    \A a \in Existing \ lapsed : audits[a].status = "done" => Complete(audits[a])

\* Claims are exclusive and a finished audit is one whole crawl.
CrawlsSound == TypeOK /\ CrawledByOne /\ DoneIsComplete

\* An audit that ended stays as it ended, except where a claim ran out under a
\* live worker: that one may still write done over failed, or failed over done.
OutcomeKept ==
    [][\A a \in Existing \ lapsed :
          audits[a].status \in {"done", "failed"} =>
              audits'[a] = audits[a] \/ audits'[a] = None]_vars

\* Every queued audit ends or is deleted with its project, however often its
\* workers crash and its claim runs out: the attempts are used up.
AuditsEnd ==
    \A a \in AuditIds :
        (audits[a] # None /\ audits[a].status \in ActiveStatuses)
            ~> (audits[a] = None \/ audits[a].status \notin ActiveStatuses)

-----------------------------------------------------------------------------
(***************************************************************************)
(* The inductive invariant behind CrawlsSound, beside the one of claims:   *)
(* what a worker that crawls alone remembers is what the rows it wrote     *)
(* add up to.                                                              *)
(***************************************************************************)

\* A sum of scores and their number, as bounds on the average.
Averages(scores, found) ==
    /\ scores.number = 0 <=> found = {}
    /\ \A m \in 0 .. 100 :
          /\ (\A h \in found : m <= h) => m * scores.number <= scores.sum
          /\ (\A h \in found : h <= m) => scores.sum <= m * scores.number

Remembers(own, audit) ==
    /\ audit.attempts \in 1 .. MAX_ATTEMPTS
    /\ own.copy = audit.totals
    /\ own.pc = "start" => own.seen = {} /\ own.scores = NoScores
    /\ own.pc = "crawl" =>
          /\ IsFiniteSet(audit.pages)
          /\ own.seen = {r.final : r \in audit.pages}
          /\ OnePerFinal(audit.pages)
          /\ own.copy = Tally(audit.pages)
          /\ Averages(own.scores, ScoresOf(audit.pages))

WorkersRemember ==
    \A w \in Workers : \A a \in Existing \ lapsed : Crawling(w, a) => Remembers(worker[w], audits[a])
ScoresBounded == \A w \in Workers : worker[w].scores.sum <= 100 * worker[w].scores.number
AttemptsBounded ==
    \A a \in Existing : audits[a].status \in ActiveStatuses => audits[a].attempts <= MAX_ATTEMPTS

CrawlInv == TypeOK /\ DoneIsComplete /\ WorkersRemember /\ ScoresBounded /\ AttemptsBounded
=============================================================================
