# Verification of Yanki

TLA+ models, TLC runs and TLAPS proofs for the parts of Yanki (`src/backend`)
whose correctness depends on what happens *between* the lines: workers that die,
leases that run out, transactions that overtake each other, tokens presented
twice, a paid call that fails after it was billed, two reports computed apart
from the same rows. Clients of vendors, text generation and presentation are
outside.

Contents: [the system](#the-system) · [modules](#modules) · [runs](#runs) ·
[bounds](#bounds) · [fairness](#fairness) · [proofs](#proofs) ·
[disagreements](#disagreements-with-the-documentation) ·
[abstractions](#abstractions) · [plan](#plan) · [not modelled](#not-modelled)

To reproduce: `tlc -config QueueDeployed.cfg MCAnalysisQueue.tla` (the table of
runs names the module of each configuration) and `tlapm AnalysisQueueProofs.tla`.

## The system

Yanki measures how language models speak about a company's website. A FastAPI
process serves the API, a worker process runs the analyses, a second worker
process crawls sites; all of them share one PostgreSQL database. Redis holds a
list of hints that let the worker start at once instead of at its next poll.
Every process can be killed at any moment (a deployment does so each time) and
is started again by the container runtime.

### Inventory

| component | code (`backend/app`) | state | hard behaviour | what makes it correct |
|---|---|---|---|---|
| Analysis queue, worker, runner | `jobs/`, `worker.py`, `pipeline/runner.py` | `analyses` rows: status, attempts, `claimed_at`, progress; Redis list | killed between any two transactions, expired leases, lost or duplicate hints, restart from the middle | attempts bounded; one runner per leased job; one pass of answers; one outcome; every job leaves the queue |
| Cost settlement | `services/analyses.py` | ledger rows of a run | repeat, crash, loss between read and insert | never overcharged, exact without a mishap |
| Guided review | `services/guided_*.py` | status `awaiting_review`, profile and prompts | unlocked check, then write | a paused run can be resumed, and is measured only when approved |
| Site reading and grade | `pipeline/discovery.py`, `robots.py`, `seo_audit.py` | `seo_checks`, grade | checks that cannot be made, a failed audit | a fatal problem is not averaged away; an unread check is neither a pass nor a failure |
| Questions | `pipeline/kyc.py`, `prompts.py`, `checker_prompts.py` | `prompts` | filters that empty a pool, strides that lock, names that leak | balanced, distinct, full, canonical wording first |
| Paid answers | `pipeline/llm_analytics_measured.py`, `simulated.py`, `execute_measured.py` | `responses` with their audit | any call fails, before or after it was billed; the cap cuts a prompt in two | no row is dropped or shifted; rows never charge more than was paid; a repair changes no words |
| Scores and advice | `pipeline/reliability.py`, `scoring.py`, `geo_records.py`, `interventions.py` | columns of `analyses` | phrase rules decide by order, a boost compounds | the audit agrees with the facts it was given; score and summary agree |
| Search visibility | `pipeline/serp_visibility.py`, `serp/` | `serp_checks`, counters | a source that fails, engines that refuse | what could not be read is not a miss; no query names the brand |
| Reports | `services/insights.py`, `checker_summary.py`, `citations/`, `industry_citations/` | none: computed on request | the same rows read by different rules | they tell one story |
| Submission gate | `api/routes.py`, `services/rate_limit.py`, `quota.py`, `checker.py` | usage counters, counts of rows | concurrent read, compare, write | limits hold up to requests that overlap; no run is counted that was not started |
| Credit ledger | `services/billing.py` | entries with `balance_after` | sum read before the insert | overdraft bounded but for what analyses are charged unasked; the balance is the sum unless another entry is committed between sum and insert |
| Refresh sessions | `services/auth_sessions.py` | rows in families | tabs refreshing at once, locks on a snapshot, deadlock | a token is exchanged once, revoked stays revoked |
| Accounts | `services/auth.py`, `tenancy.py`, `api/auth_routes.py` | users, identities, slugs | two sign-ups, links and an address that changes hands | unique; nobody but the founder enters |
| Members and invitations | `api/admin_routes.py`, `services/invitations.py` | memberships, `users.status`, invitations | check then act, locked count over a join; accept against revoke and resend | an organization keeps an owner; a token seats once, a revoked one nobody |
| Site audits | `site_audit/queue.py`, `runner.py`, `services/seo_projects.py` | projects, mirrors, audits, pages | takeover of a slow crawl, deletion during one | a domain is tracked once; a finished audit is one whole crawl |
| Site crawler | `site_audit/crawler.py` | frontier, policies | redirects nobody is asked about, policies read on the way, limits | what the browser asks for is where it may go; a page kept is of the site; none lost or repeated |
| Page rules | `site_audit/rules.py`, `analyzer.py`, `scoring.py` | issues of a page | pages that could not be read | counters and health agree with the pages |
| Backlinks | `services/backlinks.py`, `backlink/` | imports, links, events, rollups | two refreshes at once, committed out of their order; truncated, shrunken, failed pulls | a loss only after measured misses; history, rollups and pages agree |

Also there, and not modelled: audit trail, keyword research, health, waitlist and
mail, vendors' clients, migrations, deployment, front end
([why](#not-modelled)).

### How they interact

* The API commits a row as `queued` and *then* pushes its id to Redis; the push
  may fail or repeat. The worker pops a hint and claims that row under
  `FOR UPDATE SKIP LOCKED`, or claims the oldest eligible row if there is none.
  The database is the truth and Redis a shortcut, but one the worker asks first:
  while a configured Redis cannot be reached, nothing is claimed.
* The runner commits after every step; its heartbeat renews the lease at the
  same points. When it returns or raises, the worker writes the audit event,
  the ledger row and, for a failed run, the deletion: three separate
  transactions, each best effort.
* A guided run leaves the queue as `awaiting_review`. The review routes edit
  its children and put it back as `queued` at progress 45, from which the
  runner recognises that only the measurement is left.
* One run crosses three models: `Submissions` lets it in, `AnalysisQueue` moves
  it (its content reduced to which run produced it), `GeoScoring` follows the
  content, with `MeasuredAudits` for the calls behind one answer.
* Accounts are shared by organizations: a seat (`memberships`) belongs to one,
  `users.status` to all. Disabling a member also revokes all their refresh
  sessions, in the same transaction.
* The credit ledger of an organization is written by its refreshes, which reserve,
  and by the worker's settlements of its analyses, which do not. `AnalysisQueue`
  follows what one run is charged, `Backlinks` what the entries do to each other.
* A project of `SiteAudits` has a mirror in the tenancy tables; its audit runs
  `Crawler`, of which it relies on `CrawlPromise` only.

## Modules

| module | what it is | instance |
|---|---|---|
| `AnalysisQueue` | queue, worker, pipeline, settlement and guided review: one action per transaction | `MCAnalysisQueue` |
| `AnalysisLifecycle` | abstract: the arrows of the status a user polls, a bounded number of tries, nobody stays queued | |
| `AnalysisQueueRefinement` | the queue under the refinement mapping | |
| `RefreshSessions` | the sign-ins of one user under row locks at READ COMMITTED | `MCRefreshSessions` |
| `Organizations` | seats, accounts, the owner guard, invitations | `MCOrganizations` |
| `Accounts` | sign-up, sign-in, linking, provisioning | `MCAccounts` |
| `Submissions` | the gates of a submission and of the public checker | `MCSubmissions` |
| `SiteAudits`, `PageRules` | projects, the audit queue, crawls; what is said of a page | `MCSiteAudits` |
| `Crawler` | one crawl: frontier, robots, redirects | `MCCrawler` |
| `CrawlPromise` | abstract: what a crawl promises its audit, its end included | |
| `Backlinks`, `BacklinkScores` | refresh, diff, history, rollups, credit, pages; authority and toxicity | `MCBacklinks` |
| `MeasuredAudits` | the calls behind the answers, the citation report, the ranking | `MCMeasuredAudits` |
| `GeoScoring` | a run from its site to its scores | `MCGeoScoring` |
| `PromptPlan`, `SeoAudit`, `SearchVisibility`, `Insights` | its questions, its grade, its search, its pages: operators and what they owe | |
| `AnalysisQueueProofs`, `SignInProofs`, `OrganizationProofs`, `RunProofs`, `SiteAuditProofs`, `CrawlerProofs`, `BacklinkProofs` | theorems: `SignInProofs` about `RefreshSessions` and `Accounts`, `RunProofs` about `Submissions`, `MeasuredAudits`, `GeoScoring` and its operators, `SiteAuditProofs` about `SiteAudits` and `PageRules`, `BacklinkProofs` about `Backlinks` and `BacklinkScores`, the others about the module each is named for | |
| `NumberLemmas` | lemmas on sums over sets, places among numbers, remainders | |

An operator whose comment begins with *Variant* is a deliberate mistake in the
operator it precedes or stands beside. No specification uses it; it exists so
that a property can be shown to notice that mistake (`PROJECT.json`, "mutants").

### AnalysisQueue

`row[j]` is the committed `analyses` row and what the properties distinguish of
its children. `hints` is the Redis list, `redis` whether it answers (always, where none is
configured), `unsent` the rows committed and not yet pushed. A worker is a program counter (`pc`), a job, a step and `view`, the
columns as its ORM session last saw them: the session keeps them over commits
and emits an UPDATE only for a column whose new value differs (`Emit`), so a
value another process wrote may survive. `req` holds review requests between
their check and their write. `lapsed`, `late` and `mishap` are history: jobs
whose lease ran out under a live worker, whose review was overtaken, whose
worker was killed or lost a write.

| actions | code |
|---|---|
| `Submit`, `Notify`, `DeleteByOwner` | `api/routes.py` submit and delete, `services/analyses.py` |
| `PopHint`, `ClaimByHint`, `ClaimNext`, `NothingToClaim` | `worker.run_once`, `jobs/queue.py` with `_finalize_claim` |
| `ResetRun`, `ResetMeasure`, `StartStep`, `GenerateKyc`, `RunMeasuredExecute`, `CompleteStep`, `AwaitReview`, `FinishRun`, `StepRaises` | `pipeline/runner.py` |
| `RecordFailure`, `RecordTerminalEvent`, `SettleCost`, `RecordCharge`, `PurgeFailed` | what `run_once` does after the pipeline |
| `OpenRequest`, `PatchKyc`, `PatchPrompts`, `RequestExecute`, `DropRequest` | the guided review routes |
| `RedisFails`, `RedisReturns` | an outage; a poll fails in it (`Polls`), a restart may empty the list |
| `Age` | `claimed_at` falls behind `stale_claim_seconds` |
| `Crash` | the worker process is killed |

### RefreshSessions

`rows[f]` is the sequence of rows of one sign-in in order of creation, each
consumed, revoked and with the rank of its random id. A request is in one
statement (`phase`), wants the rows that were in that statement's snapshot and
holds the locks it got, one at a time. Rotation and logout lock the family by
`ORDER BY id`; the other revocations are UPDATEs of a snapshot and lock rows in
any order. `Deadlocked` and `DeadlockVictim` are PostgreSQL's deadlock detector.

### Organizations, Accounts

`seat[o][u]` is a membership, `account[u]` is `users.status`, `inv[i]` an
invitation. A request loads its rows in one step (`ManageMember`,
`HandleInvitation`, `Invite`, `LockInvitation`, `Heal`) and commits in another.
`CountOwners` and `LockOwners` are `_owner_count`: the snapshot of its SELECT,
then the locks, after which PostgreSQL reads the changed *memberships* again but
not the `users` rows joined to them. `gone` marks a request whose loaded row was
deleted since.

In `Accounts` a password stands for the person who chose it, a subject for a
provider's permanent id of a person; a token carries any address. Requests read
first (`SignUp`, `LogIn`, `PresentIdentity`, `ReadSlug`) and commit later
(`Register`, `Identify`, `Enter`, `StartSession`), nothing is locked, and the
unique constraints decide at the commit. `BeginDisable` takes the snapshot of
`revoke_all_sessions_for_user`, `Disable` commits the status with it; a sign-in or a
rotation (`Renew`) that inserts a session in between is not in the snapshot, and
`outpaced` names the account. `Backfill` provisions accounts that
predate organizations.

### Submissions

Every gate is a SELECT of its own and a request remembers only that it passed:
`CheckRate`, `CheckDailyCap`, `EnforceUserLimit`, `CheckQuota`, `ReadCounter`,
`CreateAnalysis`, or `RollBack` when an insert fails, for a signed-in user;
`PeekCache`, `CheckCheckerIp`, `CheckBrand`, `CheckCost`, `CreateChecker` for the
public checker. Meanwhile rows finish, are deleted, leave the windows they are
counted in (`AgeRow`, `AgeSubmission`), and the month turns.

### SiteAudits, PageRules, Crawler

`CreateProject` and `RequestAudit` check, `CommitCreate` and `CommitAudit` write;
`DeleteProject` removes the project with its mirror and audits. `Claim` takes the
oldest audit that is queued or stale, or fails it when its attempts are used up;
`Work` is the next commit of `run_site_audit`, from the reset through the pages
to done or failed; `Crash` and `Lapse` are the killed worker and the stale claim.
A worker keeps the audit it loaded and writes back only what it changed. A page's
issues come from `EvaluatePage`, its health and the audit's from `PageHealth` and
`AuditHealth`.

`Crawler` is `crawl_site` with the browser's route handler: `Start`,
`ReadRobots` (a policy is read once per origin, also in the middle of a
navigation), `Pick`, then what the handler decides of a main-frame request,
`Through` or `Blocked`. A server's redirect (`Redirected`) does not pass the handler,
which Playwright calls for the first URL of a chain; a request that the page makes
itself (`Navigates`) does. Where it ends is looked at afterwards, for the site only
(`Kept`): `Loaded`, `NotHtml`, or `Failed`, and `Finish`. What the site answers is
any choice. It implements `CrawlPromise`, which is what `SiteAudits` takes a crawl to
be.

### Backlinks, BacklinkScores

A refresh is one transaction: `RequestRefresh`, `Reserve` (its insert may wait for
another's commit on the partial unique index, and its quota for the row of the
month's counter), `FetchAndSettle`, `CommitRefresh` with any page of the vendor, or
`Abandon`. An import is as old as its `created`, taken before the wait, so that the
newest need not be the one committed last. `Settle`, `CommitSettlement` and
`LoseSettlement` are what the worker charges for an analysis meanwhile. Every entry
of the ledger is `NewEntry`, and carries the sum its transaction read. The diff decides by whether a page is
measurable: complete, and not half the size of the last complete one. The
operators behind the properties are the routes that read a profile: summary,
referring domains, toxicity bands, anchors, velocity, disavow file, mentions.

### MeasuredAudits

One prompt is searched once; each model answers from the same results (`Ask`,
`AskFails`), its marks are repaired at most once (`Repair`), and a second call
extracts the audit (`Extract`). Any call may fail, and a failed one may have been
billed. `Simulate` and `DryRun` are the other modes; `Persist` writes the prompt's
rows up to the cap. `Rejection` and `CountedPages` are the citation report,
`RankingExclusion` and `RankedFor` the ranking of a sector, over the stored rows.

### GeoScoring and its operators

A run goes through `discovery` (`ReadSite`), `kyc` (`Plan`), `prompts` (`Review`),
`execute` (`Respond`, once per answer), `footprint` (`Footprint`, then `SearchOne`
for each query) and `scoring` (`Score`). A raw answer says everything a rule looks
at: which names it contains and lists, where the brand ranks, what it cites, the
model's claims, each a pattern of `reliability.py`. `Merged` and `Failed` make the
record of it. A mention is a whole word (`Whole`); the insights look for the company
inside words, too (`Holds`). `Aggregated` is the advice, each piece with its count,
its priority and the words of the first record that called for it.

`PromptPlan` and `SearchVisibility` are the two walks over categories, shapes and
topics on strides of their own. `SeoAudit` is the grade from fifteen checks.
`Insights` is what the pages compute from the stored answers when they are read.

## Runs

Each finishes in a few minutes on two cores.

| run | module, configuration | instance | properties |
|---|---|---|---|
| `queue_deployed` | `MCAnalysisQueue`, `QueueDeployed.cfg` | 1 job, guided or quick, 1 worker, 1 review client, 3 attempts, fair | `TypeOK`, `RunsBounded`, `LedgerSound`, `SettledExactly`, `ReviewGate`, `QueueDrains`, `ImplementsLifecycle` |
| `queue_interleaved` | `MCAnalysisQueue`, `QueueInterleaved.cfg` | 1 job, guided or quick, 2 workers, 2 review clients, 2 attempts | `ClaimExclusive`, `OnePassOfAnswers`, `OneOutcome`, `DoneIsFinal` |
| `sessions` | `MCRefreshSessions`, `SessionsConcurrent.cfg` | 1 family, 2 requests, 3 generations, fair | `OneTip`, `ClosedStaysClosed`, `SweptUnlessOvertaken`, `DevicesServed`, `RequestsEnd` |
| `seats_guarded` | `MCOrganizations`, `SeatsGuarded.cfg` | 1 personal organization, 2 users, 2 requests, owner and admin, 1 invitation | `SeatsSound` |
| `invitations_raced` | `MCOrganizations`, `InvitationsRaced.cfg` | 1 organization, 2 users, 2 requests, 2 invitations, 2 tokens each | `LinksWorkOnce`, `RevokedSeatsNobody` |
| `accounts` | `MCAccounts`, `AccountsEntered.cfg` | 2 people, 2 addresses, 3 identities, 1 wanted name, 2 requests | `RegisteredOnce`, `OwnersEnter`, `IdentityStays` |
| `submissions` | `MCSubmissions`, `SubmissionsGated.cfg` | 1 user, 1 brand, 2 requests, 3 rows, limits of 1 (2 per brand), runs that cost more than their estimate, 2 months | `GatesSound`, `QuotaCountsRuns`, `SpendBounded` |
| `site_audits` | `MCSiteAudits`, `AuditsCrawled.cfg` | 2 projects, 2 audits, 2 requests, 2 workers, 2 attempts, 2 URLs that end at one page, fair | `DomainTrackedOnce`, `CrawlsSound`, `OutcomeKept`, `AuditsEnd` |
| `crawler` | `MCCrawler`, `CrawlBounded.cfg` | 6 URLs on 3 origins, 3 pages, frontier of 4, two redirects or navigations, fair | `CrawlSound`, `KeepsPromise` |
| `backlinks` | `MCBacklinks`, `BacklinksDiffed.cfg` | 2 subjects, 3 links of 2 domains, 3 imports, 2 requests, 1 analysis, velocity of 2 imports, 2 months | `LossesMeasured`, `InventorySound`, `CreditHolds` |
| `answers_measured` | `MCMeasuredAudits`, `AnswersMeasured.cfg` | 2 prompts, 1 or 2 models, cap of 3, all three modes | `RecordsSound`, `NumbersAgree` |
| `answers_scored` | `MCGeoScoring`, `AnswersScored.cfg` | 154 runs, each varying one thing (below) | `ClaimsSound`, `ReportsAgree`, `AdviceSound`, `PlanSound` |

Some properties are conjunctions whose parts are defined just above them:
`SeatsSound` is `TypeOK` and `OwnersGuarded`; `LinksWorkOnce` is `TokenUsedOnce`
and `OneWorkingLink`; `ReviewGate` is `ReviewIsResumable` and `ApprovalRespected`;
`DevicesServed` is `StableOrder` and `ListMirrorsUse`; `GatesSound`,
`RecordsSound`, `RegisteredOnce`, `CrawlsSound`, `CrawlSound`, `InventorySound`
hold their module's type invariant.

What they show:

* **The queue.** However crashes, expired leases, duplicate hints and approvals
  combine, a job starts at most `MAX_ATTEMPTS` runs, profile and measure phase
  together; two workers run one job only after its lease ran out under a live
  worker; a finished row stays finished, with one pass of answers and one
  outcome; the ledger never charges more than was spent and is exact without a
  mishap; without a crash nothing is measured that was not approved. Under
  fairness every job leaves the queue. The whole implements
  `AnalysisLifecycle`, safety and liveness.
* **Sign-ins.** Refreshes of one cookie exchange a token once. A logout or a reuse
  revocation is complete for good, although the rows it locks are those of a
  snapshot: whoever locks a family locks its first row. The revocations without
  that lock are complete *unless* a rotation commits a successor while they wait
  for a row; `overtaken` cannot be dropped.
* **Owners.** The locked count closes the race it was written for. Four things
  can still take the last owner, and `OwnersGuarded` shows there is no fifth: a
  request that loaded its target before they were an active owner, a disablement
  by another organization, a lesser role accepted through an invitation, and a
  request that waited for a lock and counted an owner disabled meanwhile.
* **Invitations.** A token seats somebody once, through every race with its
  revocation, resend, or a second accept; that a resend replaces the token is what
  keeps the old link dead.
* **Accounts.** Addresses, identities and slugs stay unique; an address that
  passes to somebody else at the provider does not carry the account along; an
  identity is replaced only where two were linked at once. Disabling an account ends
  its sessions, unless a sign-in was under way or a session was inserted behind the
  snapshot of the revocation (`outpaced`).
* **Gates.** A limit checked before the insert is exceeded by one row per other
  request that passed the same check meanwhile, never more. The month's counter
  may lose increments but never counts a run that was not committed, and is exact
  where nothing overlaps. The checker's spending stays under the cap plus one
  estimate per request, times the factor by which a run may exceed its estimate: the
  code bounds nobody's cost, it only plans with the estimate.
* **Site audits.** A domain is tracked once, also through deletions; a finished
  audit whose claim held is one whole crawl: a row per final URL, counters that
  sum over the rows, a health between the worst page and the best. Every audit
  ends.
* **Crawls.** Every URL the route handler is asked about and lets through, for the
  crawl or for a page that navigates by itself, is public, in scope and allowed by
  the policy of its own origin. Of a server's redirects nothing of the kind holds:
  only that what is kept ended on the project's site (the check of `page.url`, on
  which `CrawlPromise` relies). The frontier loses and repeats nothing. The crawl
  ends.
* **Backlinks.** A link is lost exactly after as many measured misses as the
  engine asks for; history, rollups and every page of the profile agree, also
  after a failed import; one signal sends nobody to the disavow file. Velocity counts
  a link once, when it was first stored. The authority in the header is that of the
  links unless the newest import was not the last to be committed. Credit is overdrawn
  by less than an estimate per refresh in flight, and by what analyses were charged
  since the last reservation. `balance_after` is the sum unless another entry was
  committed between the reading of the sum and the insert.
* **Answers.** Whatever call fails, each prompt has a row per model in order. A
  repair moves marks, never words. A citation whose marks were found valid is
  never rejected, and report and ranking count the same answers apart from
  questions that name the brand.
* **Scores.** The audit never contradicts a line the pipeline itself added. Score,
  summary, checker map, insights, landscape, grade and search each agree with the
  rows and with one another; a company that is counted first in a measured answer is
  mentioned in it, unless its name stands there only inside other words or is not
  looked for. Which advice is given, how often it was called for and how it is ranked do
  not depend on the order of the answers; its words are those of the first answer that
  calls for it. Plans and queries are balanced, distinct and full.

## Bounds

* *Attempts.* 3, the code's own value, where one worker runs; 2 with two
  workers. At 2 a guided run can use its second attempt for the measurement or
  for a retry, and a third claim meets the guard.
* *Workers and requests.* Races are between two of them: a lease passes from one
  worker to another, a request overtakes another. The theorems hold for any
  number.
* *Jobs.* Jobs interact only through the choice of which to claim; one is used.
* *Prices* tell apart the answers, the profile and their sum (1, 2, 3).
* *Generations.* 3 rows in a family: a first row everybody locks, one that a
  snapshot may miss, and one more.
* *Invitations, tokens.* Two invitations for what one replaces and another
  revives; two tokens for a resend. In `seats_guarded` one invitation suffices
  to make a second owner, and expiry is left out (`Expiring`).
* *Gates.* Limits of one with two requests: the second is the overlap. A run costs 3
  where 2 were estimated. Three rows
  are the limit, the overlap, and one more that must be refused.
* *Audits.* Two URLs that end at the same page, because a row is per final URL;
  two projects and audits for a deletion next to a crawl; one attempt more than
  the first, for takeover.
* *Crawl.* The seed, two query variants of one page, the same page over http, a
  page with a private address, a page of another site: one URL for each rule of
  the handler. The frontier of 4 is smaller than the web. Two hops: a redirect behind
  a navigation, and the reverse.
* *Imports.* Three pulls: a sighting and two misses (`MISSES_BEFORE_LOST`), or a
  sighting, a truncated page and a revival. A velocity of two imports, where the code
  shows twelve, so that one drops out. The month turns before the third, whose
  reservation therefore does not wait for the counter of the others. Two links of one
  domain and one of another, for rollups. Grants of 2 and 6 with an estimate of 2: one
  refresh is affordable, or all are; a settlement of 5 overdraws either.
* *Answers.* A cap of 3 cuts the second of two prompts between its two models.
* *Scored runs.* Kinds of runs that vary one thing, so that each can vary in full:
  two answers in all a rule looks at; three in the names they contain, with a
  profile that names one thing twice; plans of up to 40 questions from 0 to 8 topics,
  with everything the filters may leave, a topic that is listed twice and companies
  named "Best" and "Options", whose plans of 26 and 40 end early; reviews that
  empty a plan, leave the categories, or add a probe or a "custom" question;
  searches of three queries with every kind of page; up to 20 queries from pools of
  0 to 8 topics, with and without a place; sites in everything a check looks at.

The bounds are guards of the model: a family as long as `MaxGenerations` is not
extended, an invitation or an account beyond the last is lost, a subject with
`MaxImports` imports is not refreshed. `CHECK_DEADLOCK FALSE` appears where the
modelled system comes to rest: every job deleted, an organization with nobody
left to administer it, a run scored. The sign-ins never rest and are checked for
deadlock. Symmetry is used only in runs without liveness.

## Fairness

* A worker is an endless loop under a container runtime that restarts it, so
  some step of each worker is fair, crashes being free. In `SiteAudits` weak fairness
  is enough: a worker's next step stays enabled until it is taken. In `AnalysisQueue`
  a poll needs Redis, which may fail and return for ever; the worker polls every few
  seconds, so that it meets an answer sooner or later: strong fairness of its steps,
  and weak fairness of `RedisReturns`, since an outage ends. With a Redis that never
  returns nothing is claimed, and `QueueDrains` is not claimed. Time passes, so
  `Age` (and in `SiteAudits` `LapseAlone`, the clock of a claim nobody holds) is
  weakly fair. Users and API requests owe nothing.
* The lifecycle's fairness is that an analysis in flight is not ignored; the
  queue's fairness implies it (`ImplementsLifecycle`).
* Requests of the sessions end because each statement is executed once its
  locks are free. PostgreSQL grants locks in order of arrival and breaks
  deadlocks; that is strong fairness of a request's steps.
* A crawl is one coroutine whose waits for the network have a timeout: its next step
  is weakly fair. Between two pages it sleeps for the `Crawl-delay` of the site's
  robots.txt, which is not capped (`site_audit/crawler.py:302`, `699-704`): the sleep
  is finite, so the crawl ends, but it may take as long as the site says, and the claim
  may go stale meanwhile. The site owes nothing, it may redirect and link for ever.

## Proofs

For all values of the constants, checked by `tlapm`:

| theorem | module | statement |
|---|---|---|
| `TypeCorrect` | `AnalysisQueueProofs` | `Spec => []TypeOK` |
| `AttemptsAreBounded` | | `Spec => []RunsBounded` |
| `ClaimsAreExclusive` | | `Spec => []ClaimExclusive` |
| `DoneStaysDone` | | `Spec => DoneIsFinal` |
| `AnswersAreOfOnePass` | | `Spec => []OnePassOfAnswers` |
| `ReviewIsAGate` | | `Spec => []ReviewGate` |
| `OutcomesAreSingle` | | `Spec => []OneOutcome` |
| `QueueImplementsLifecycle` | | `Spec /\ [](lapsed = {} /\ late = {})` implements the safety part of `AnalysisLifecycle` |
| `DeployedQueueIsCalm` | | one worker and one review client: `Spec => [](lapsed = {} /\ late = {})` |
| `LedgerIsSound`, `SettlementIsExact` | | `Spec /\ []OneHolder => []LedgerSound`, `=> []SettledExactly` |
| `OneWorkerSettles` | | one worker: `Spec => [](LedgerSound /\ SettledExactly)` |
| `RotationKeepsOneTip` | `SignInProofs` | `Spec => []OneTip` |
| `LockedRevocationIsComplete` | | `Spec => []ClosedStaysClosed` |
| `SweepIsCompleteUnlessOvertaken` | | `Spec => []SweptUnlessOvertaken` |
| `DevicesAreServed` | | `Spec => []DevicesServed` |
| `EverythingIsOneAccounts` | | `AccountSpec => []RegisteredOnce` |
| `OnlyOwnersEnter` | | `AccountSpec => []OwnersEnter` |
| `IdentitiesStay` | | `AccountSpec => IdentityStays` |
| `EveryOrgIsOwned` | `OrganizationProofs` | finitely many users: `Spec => []SeatsSound` |
| `LinksWorkOnceEverywhere` | | `Spec => []LinksWorkOnce` |
| `RevokedIsFinal` | | `Spec => RevokedSeatsNobody` |
| `LimitsHold` | `RunProofs` | `Spec => []GatesSound` |
| `QuotaIsHonest` | | `Spec => []QuotaCountsRuns` |
| `SpendingIsBounded` | | `Spec => []SpendBounded` |
| `RecordsAreSound` | | `MeasureSpec => []RecordsSound` |
| `NumbersDoAgree` | | `MeasureSpec => []NumbersAgree` |
| `ClaimsAreSound` | | `ScoreSpec => []ClaimsSound` |
| `PlansAreSound` | | `ScoreSpec => []PlanSound` |
| `ReportsDoAgree` | | `ScoreSpec => []ReportsAgree` |
| `AdviceIsSound` | | `ScoreSpec => []AdviceSound` |
| `ListiclesAreNeverAdvised` | | `ScoreSpec => []` of: no template `third_party_listicle` among the advice |
| `DomainsTrackedOnce` | `SiteAuditProofs` | `Spec => []DomainTrackedOnce` |
| `ClaimsExclusive` | | `Spec => []CrawledByOne` |
| `OutcomesKept` | | `Spec => OutcomeKept` |
| `CrawlsAreSound` | | `Spec => []CrawlsSound` |
| `CrawlIsSound` | `CrawlerProofs` | `Spec => []CrawlSound` |
| `CrawlImplementsPromise` | | `Spec` implements the safety part of `CrawlPromise` |
| `LossesAreMeasured` | `BacklinkProofs` | `Spec => []LossesMeasured` |
| `HistoryFollows` | | `Spec => []EventsAgree` |
| `CreditIsHeld` | | `Spec => []CreditHolds` |
| `InventoryIsSound` | | `Spec => []InventorySound` |

Every safety property a run checks is the statement of one of these theorems.

*Assumptions.* Each component names those on its constants (`QueueAssumption`,
`SessionAssumption`, `AuditAssumption`, ...): positive bounds, prices that are
natural numbers, a `None` that is no member of the sets it completes, and finite
sets where the code counts what is in them. `RunsAssumption` says what a run is: at
least one model, counts that are natural numbers, signals of a profile and results of
a page in sequences. Nothing is assumed of who is named like what: rivals, places,
industries, topics and the templates' own words may name the brand.
`ScoreAssumption` types the links and their domains and bounds the scaled logarithm of
a positive count by that of 1 (`log10(2) / log10(1001)`, 1003 ten-thousandths).
Two hypotheses speak of behaviours:
`OneHolder`, that one worker at a time is busy with a job, and that nothing lapsed
or came late. Both are discharged for the deployment (`OneWorkerSettles`,
`DeployedQueueIsCalm`); with two workers that settle one run the ledger really is
wrong, and after a lapse the lifecycle's arrows really are broken.

*The queue.* The attempt bound is not inductive: the claim compares `attempts`, a
column, while the bound is on runs. `RunsInv` adds that a live row has counted
every run started. Exclusive claims need to know that a job somebody works on is
not eligible: its row says `running` with a fresh lease (`WorkingRuns`). That
survives other workers' bookkeeping only if a failed outcome means a failed row
(`FailureStands`), and a purge deletes only after a failure (`PurgeIsOfFailure`).
Jobs whose lease ran out under a live worker, or whose review was overtaken, are
excused by history variables; the proof shows those are the only two ways.
On top of it `PhaseInv` says how far a run is by what its row holds, and that the
session of its worker is current, which is why a stale UPDATE cannot mix two
passes; `ApprovalInv` that nothing but a crash puts a running row back before a
claim; `OutcomeInv` that the outcome about to be recorded is the row's;
`TriesInv` that the row counts the runs exactly, which the abstract tries need.
`LedgerInv` covers what is stored, what is paid and not yet committed, and what is
about to be charged, by what the providers were paid; `SettlementInv` makes it
equality.

*Sign-ins.* `SessionInv` says what each phase of a request may rely on:
`Chain` (all rows but the last are consumed), `LocksInv` (locks exclude each
other; who locks a family wants its first row), `ExchangeInv` (the presented row
stays as it was found while its lock is held), `RevokeInv` (a revocation wants
every live row, if it holds the first row or was not overtaken). The heart is
that every holder of a family lock holds the *first* row, so holders exclude
each other although each knows a different set of later rows. `OrderInv` adds that
ranks differ and that what a locker holds ranks before what it misses: two lockers
waiting for each other would need two rows each before the other.

*Seats and invitations.* `OwnersInv` joins the owner of each organization to
`AnotherHeld`: a request about to unseat an owner holds the lock of another one
it counted. The proof found the fourth way to lose the last owner
(`miscounted`), which the instance of two users cannot reach. `LinksInv` says
that a token that granted a seat is spent or superseded, and that one request at
most accepts a pending invitation.

*Accounts.* What a request remembers is true of the rows, or excused: `FoundersInv`
ties passwords and identities to who registered, `EntrantsInv` a request to the
account it is about to enter and a disablement to the sessions it found, or to the
excuse that one was inserted since, `LinksInv` two requests that link.

*Gates.* Who passed a gate and has not inserted its row yet counts against the
limit like the row (`GatesInv`), and with the most that a run may cost in `SpendInv`:
a cost is assumed to have a bound (`MaxCost`), not to stay within the estimate. The month's counter is at most the
runs committed (`CounterInv`); `ReadInv` says why a lost update loses and never
invents.

*Answers.* `MeasureInv` says that an answer in progress is its model's and cites what
its search backs (`DraftInv`), that the batch is one record for each model asked so
far (`BatchInv`), that the rows before it are complete and in place (`RowsInv`), and
what was paid (`BillInv`): rows, batch and draft, with the share of the search of the
models not yet asked (`Pending`), cost at most what was spent. Without `Pending` the
bill is not inductive, since a search is paid at once and charged model by model. The
units of price are counted as a set (`Units`), so that `ChargedJoined` gives what
two tables charge together without a recursion. That prices are divided by the
numbers of models is the choice of a unit: the code's shares are fractions.

*Sums.* What the pages show are sums, folds and choices over as many rows as there
are. No operator may be a parameter of a lemma the provers can use, so the induction
of `NumberLemmas` is over a *set of sets*: a collection that holds the empty set and is
closed under adding an element holds every finite set (`SetInduction`,
`StrongInduction`). From it come the sum's independence of the order in which `CHOOSE`
takes the elements, what adding and removing an element does to it, comparisons, and
`CountByPart`: what is counted class by class adds up. Those lemmas turn each page into
a count over the same rows, and equal sets have equal counts.

*Plans.* `PlanSound` is about two strides over one list, and its proof is arithmetic.
A step is a place in a lap of six and a lap; two steps have the same text exactly when
they are at the same place of their laps and their laps meet in topic and wording
(`StepsSame`). So a lap is fresh as a whole or not at all (`StepFresh`), and the k-th
question kept is of category k modulo six (`FreshTurns`, `LapPlaces`), which is the
balance (`FairTurns`). The numbered texts alone fill every plan (`EnoughTexts`), unless
their words or their topic name the brand: then it ends where the questions do
(`PlanPlaced`), and before the first one if the only topic left is the neutral one and
names the brand. Probes stand at the quotients of numbers two quotients apart (`ProbesSpread`).
Unless seven divides the topics, seven steps on are another topic until all were
reached (`SevenReaches`), so that the first wordings come first. The search walks with
a stride of seven, or of eight where there is a place: two laps meet at a multiple of
the topics divided by what they have in common with the stride (`FirstMeeting`), and
what is new are exactly the laps before that (`NewCounted`). That is why the queries
that exist are fewer than the pairs of a shape and a topic, and how many they are.

*Claims.* Every record is `Consistent` by itself (`ClaimsInv`): the lines the pipeline
adds are drawn from the very facts they are audited against, case by case of the first
rule that matches; it has strengths only if the brand is mentioned; and what is earned
is cited, so that the template asking for one without the other is dead. Nothing is
assumed of what the runs, answers or pages are.

*Advice.* A template's worth depends on how many records match it, never on which, so
that the folds over the records in either direction give the same counts and
priorities; `Precedes` looks at nothing else of a piece of advice, for no two templates
have the same title. The fold is followed over the sets of records it has seen,
newest last: a later record does not change which was the first to match (`FirstStays`). `PlanInv`
follows the categories through a run: what is planned, and what a review may leave, is
in `ALLOWED_PROMPT_CATEGORIES`, and so is every record; `general_discovery` is not, so
the template that asks for it is dead as well.

*Pages.* `PagesInv` says what the pages are computed from: the grade is that of the
site read, who names the company in a measured answer by a word that is looked for is a
mention, the counters of the
search count its rows, and the published numbers are those of the records. Each page
then splits the same answers into parts that are disjoint and leave out none, but for
those named (`MapsAgree`). A grade lies between what it would be if one check failed
and if it passed since a failed check only takes marks away, and scaling keeps order.

*Site audits.* `AuditInv` joins the shape of the rows (`ShapeInv`),
projects and mirrors in step (`ProjectsInv`), one active audit per project
(`QueueInv`), and a claim that is live and held alone until it lapses
(`ClaimsInv`). The last needs that a worker's audit was queued already, since a
worker whose audit was deleted still holds its id and a new audit must not come
to be its own. `WorkStep` states once what every write of a worker has in common:
a worker that goes on leaves the status and renews the claim. That ended audits
are kept then follows: nobody holds one, and `Claimable` names none. `CrawlInv`
adds that the totals a worker carries are those of the rows it has written
(`WorkersRemember`; totals are numbers of pairs of a row and a code, so that a new
row adds its own), and that the average it divides lies between the extremes.

*Crawls.* Every URL the frontier took is in one of three places (`CrawlInv`). What was
let through stays allowed, since a policy is read once, and what is kept is of the site
by the check at the end.

*Backlinks.* `BeliefInv` says that what is stored of a link is a function of the
imports since it was seen; `CreditInv` that the credit of every refresh in flight is
set aside, once what analyses were charged since the last reservation (`unreserved`) is
added again: a settlement lowers one and raises the other. `BalanceInv` says that who
was not overtaken has summed the ledger as it is. `ProfileInv` keeps, between two
imports, the rollups those of the links believed now, the events those of their gains
and losses, what an import counts as new the links it was the first to store (`Born`),
and the losses counted ever (`ShedEver`) at least the links lost now; the authority is
that of the import committed last, which is the newest only where they were committed in
order. `ThreadInv` types the rest and says that a request is about one subject. The
pages then read sums over the same sets. A vendor's page and an import's rows are sets, counted by
`Cardinality`.

*Only model-checked.* Liveness: `QueueDrains`, `RequestsEnd`, `AuditsEnd`, the end of a
crawl, and with it the fairness of the two refinements (`ImplementsLifecycle`,
`KeepsPromise`), whose safety parts are theorems. The proof system reasons about
neither `ENABLED` nor fairness.

## Disagreements with the documentation

Met while modelling; the first word says where the model shows it. No run refutes
them: each is what a property excuses, or states as the code has it. Paths are under
`backend/app` unless they begin with `docs` or `src`.

Queue (`AnalysisQueue`; the properties excuse these by `mishap`, `lapsed`, `late`):

* A guided run "pauses after prompts" until approved (`api/routes.py:139-141`).
  Killed between the commit of the prompts and that of the pause
  (`pipeline/runner.py:273`) it looks approved, and is measured and paid for.
* "Profile and prompt rows are kept" once measured (`api/routes.py:577-579`). A
  crash inside the measure phase makes the next claim a full run
  (`pipeline/runner.py:186`), which replaces what was approved.
* Settlement runs on both terminal outcomes and failed rows are purged
  (`worker.py:52`, `services/analyses.py:82`). A row failed by the claim itself
  (`jobs/queue.py:28`) is neither settled nor purged.
* The difference is charged when a retry spends more (`services/analyses.py:415`).
  The next attempt deletes the record of what an interrupted one spent before it
  is charged (`pipeline/runner.py:189`).
* The worker prefers a hint, "then fall[s] back to Postgres FIFO claim"
  (`worker.py:110`). With `redis_url` set and Redis unreachable `try_pop` raises
  (`worker.py:112`), the poll ends there, and no run is claimed until Redis is back,
  though the queue is all in the database (`Polls`).
* Two workers that settle one run at once charge it twice. A review edit may commit
  after the window it was checked against.

Members, invitations, accounts:

* "The last active owner cannot be disabled" (`docs/architecture.md:461-462`).
  Another organization, where the owner holds a lesser seat, disables the account
  everywhere (`api/admin_routes.py:281`). A request that waits in `_owner_count`
  for a lock is shown the changed seat and not the changed account, and counts an
  owner disabled meanwhile (`miscounted`).
* `Invitation.status` is said never to move back to pending, and
  `resend_invitation` moves it back. A founder removed from their personal
  organization is seated there again by their next request (`Heal`).
* The caller "retries on IntegrityError" (`services/tenancy.py:128`); sign-up
  answers 409. Two concurrent links overwrite one another. A sign-in overtaken by a
  disablement leaves a session row.
* Disabling a member revokes "every live refresh session this user holds"
  (`services/auth_sessions.py:362`). The UPDATE is of a snapshot: a rotation under way
  inserts a successor behind it (`:148-242`), which outlives the disablement. The
  account's requests are refused while it is disabled (`get_current_user`); the session
  works again once it is not (`outpaced`).

Gates and money:

* Concurrent increments of the usage counter are lost (`services/billing.py:351`).
* The daily cap of the checker plans with an estimate that "only needs to stay within a
  small factor of the true per-run cost" (`services/rate_limit.py:276-277`). Nothing
  keeps a run within any factor of it; `SpendBounded` carries the factor.
* A refresh reserves before its call, so that "the worst failure is an over-estimate"
  (`services/billing.py:17-24`). The settlement of an analysis takes from the same credit
  and asks for none (`services/analyses.py:439`, on purpose, `services/billing.py:418`),
  so that what a refresh reserved may be gone with no two refreshes at once
  (`unreserved`). Two entries in flight at once both stamp a `balance_after`
  that misses the other, the very disagreement `db/models.py:1568-1571` says it is there
  to show.
* "Birth" of a link is to be classified "from the **vendor's** `first_seen`", never as
  "absent from our stored rows" (`backlink/delta.py:13-17`, `backlink/base.py:54-58`);
  the diff counts as new what it has no row of (`backlink/delta.py:217-245`) and stores
  the vendor's date beside it. `HeaderAgrees` states the rule of the code (`Born`): a
  higher row cap does make new links of old ones.
* The newest import is the one with the latest `created_at` (`backlink/delta.py:190`,
  `services/backlinks.py:148`), which is stamped before the insert waits: of two
  overlapping refreshes the one committed last may be the older, and header, velocity
  and the next comparison then speak of the other (`InOrder`).
* A second backlink refresh waits on the partial unique index, then goes on and is
  charged (`db/models.py:1057-1059` expects a refusal); two spellings of one new
  link violate `uq_backlinks_identity` and are reported as a refresh in progress.
* `_set_record_cost` divides the shared search, and the grounded answer with it, by
  the number of models; a paid call whose record is lost is charged to nobody.
* `audit.emit` "never raises", but a failed flush leaves the session in need of a
  rollback.
* "Redirected final origins get their own cached robots policy check"
  (`docs/site-audit-integration.md:43`), and a redirect target that robots.txt forbids
  "is never fetched" (`test_redirect_target_disallowed_by_robots_is_never_fetched`,
  `src/backend/tests/test_site_audit_engine.py:232`, which calls the handler for it). Playwright calls a route handler for the first URL of a
  redirect chain only, and what the code checks afterwards is the scope of `page.url`
  (`site_audit/crawler.py:629-631`): a target on the site is fetched and stored whatever
  the policy of its origin says, and a target elsewhere is fetched and then dropped.
* A flush outside the `try` makes a raced duplicate audit of a project a 500.

Questions, queries, grade:

* "Alternate phrasings only start once every (category, topic) pair" was asked
  (`pipeline/prompts.py:523-528`) fails for a multiple of 7 topics, where category
  and topic move in lockstep (`CanonicalFirst` excludes it); with more than 6 topics
  the 7th step skips one.
* `build_queries` promises that two strides reach all pairs of shape and topic
  (`pipeline/serp_visibility.py:157`). They do unless a number above one divides the
  topics and the shapes plus one: a multiple of 7 topics, and with a place, which
  makes 7 shapes, *any even number* of them. `QueriesSound` states the exact count.
* `require_usable` (`pipeline/kyc.py:401-416`) promises that no run asks about
  "solutions", yet signals that the filters remove still fall back to it.
* A company whose name is a word of the templates gets a shorter plan, as
  `_question_specs` says of "Solutions"; its probes are a quarter of what was asked for
  (`pipeline/prompts.py:595-598`), which may be more than a quarter of what is left.
* The checker's questions promise never to name the brand; their slots for a
  competitor, a place and the fallback are not filtered for it.
* `robots.fetch` keeps a 404, which "is an answer", apart from failures, and treats
  a 500 as a 404: everything is allowed.

Answers, scores, reports:

* A measured mention keeps the model's "not_mentioned" context and scores 0, where a
  simulated one is corrected. Failed extractions count as unmentioned answers.
* Two templates of the intervention library can never trigger
  (`third_party_listicle`; `app_store_optimization`, whose category no question
  has); `NeverAdvised` shows it.
* The insights find the company inside other words (`services/insights.py:233-236`),
  a measured mention is a word of its own with two letters or more
  (`pipeline/llm_analytics_measured.py:221-232`): an answer may name it first and not
  mention it, and be counted as lost to a rival at the same time (`Hidden`).
* A stored piece of advice keeps title and description of the first record that called
  for it, the name of its question among them, and ties are broken by that title
  (`pipeline/interventions.py:285-311`): asked in another order, a run gets the same
  advice in other words (`FilledIn`).
* A simulated answer under an alias is no mention, though the insights count it as
  the first one, and a product named like an alias is listed as a competitor.
  `names_in_answer` counts two spellings twice; the landscape lists a name twice when
  a term of the profile is also one of its places, or is named like the brand.
* A question a reviewer adds as "custom" is scored and belongs to no intent and no
  category, so that the insights' groups do not add up to the headline for it
  (`MapsAgree` counts what is in no group).
* `toxicity_score` and `toxicity_band` of a backlink, and the rollups of
  competitors, are read and never written; `subnet_cluster` never fires;
  `classify_anchor` never answers "exact". Velocity shows a regained link in neither
  column.
* `page_health`'s floor of zero never bites. A failed page whose final URL another
  request reaches later hides the good one (`persisted_urls`).
* An empty answer of DataForSEO counts as a page without the brand, as it names no
  engine that refused.

## Abstractions

*Queue.* Time is the one comparison of the lease, `fresh`. Content of the
profile, prompts, answers and scores is reduced to which run produced it and
what it cost. `usable` in `GenerateKyc` is the call that raises; a profile that
parses but is useless fails in `StepRaises` after its commit. After a lost
bookkeeping write the session's rollback rereads the row, where the model keeps
the outcome it was recording. The heartbeat file is left out.

*Sessions.* One user. A transaction's writes appear when it commits. The SELECT
before an UPDATE without a lock is merged with the UPDATE's snapshot. Expiry
only matters when a token is presented. Audit events commit with the revocation
and are left out.

*Organizations.* Four of the ten roles, and the permissions the modelled routes
ask for. Organizations are open (none is suspended). A user has one address. The
permission check and the load of the target are one step; each is a read of
committed state. The locks of one count are taken together (both counts scan the
same rows in the same order). A seat read by `redeem` is either the one found
when the invitation was locked or the one at the commit. Revoking the sessions
of a disabled user is the business of `RefreshSessions`. A personal organization
created by healing somebody who founded none is outside `Orgs`.

*Accounts.* A token is a claim of a subject and an address; signatures, nonces and
hashes are knowledge of a secret. The password policy is a predicate on texts. Who
holds a session is kept, not how many; disabling an account that is disabled already
is left out.

*Submissions.* A row's age is the shortest window that still holds it; a row that
no count will see again is forgotten. The counters of quota and gates of one user;
other users are other instances of the same counters, except the daily cap. What a
run costs is any number up to `MaxCost`, a bound of the model's.

*Site audits, crawler.* A page is what the crawler reports: HTML is a choice of
facts. Time in a claim matters only while the audit runs. URLs are normalized. A
redirect or navigation beyond `MaxHops` is not followed, as with too many redirects.

*Backlinks.* One vendor. The profiles of competitors and `changed` events are left
out. Fractions are ten-thousandths. One clock ticks with every refresh that is asked
for, and the month is a function of it. A refused quota, and the first refresh of a
month that finds its counter inserted by another, are ends like any other (`Abandon`).
The page of the vendor is chosen at the commit, which is alone with its subject. An
analysis is settled once; how often that may be tried is the business of
`AnalysisQueue`.

*Answers.* A text is the ranks it marks and whether its words are still the
model's; prices are whole numbers the number of models divides. In `GeoScoring` a
sentence is the pattern of `reliability.py` it matches, and the text of an answer is
the sequence of the names in it. Rounding is that of whole thousandths. Lists the
pages cut (the first 3, 5, 10 or 20) are whole, and the insights' heuristics for
rows of older versions are left out. A run is of one sector: where the profile has
none, the code takes the one each answer's audit names
(`pipeline/llm_analytics_measured.py:721`), so that the rows of such a run count in
several rankings. Of a piece of advice the claims, evidence and list of questions
merged from later records are left out, and its words are the question, category and
rank they are filled in with.

*Grade and search.* A page is what a check looks at. What `RobotFileParser` decides
is the set of the kinds of crawlers that are blocked. Queries are pairs of shape and
topic; which result is the brand's is a mark on it.

## Plan

Next, in this order:

1. `Backlinks` with the profiles of competitors, once something writes them.
2. Schema validation of `site_audit/schema_validator.py` among the page rules.
3. Liveness, should the proof system come to reason about fairness.

## Not modelled

* *Audit trail* (`services/audit.py`): an append-only table whose rows each carry a
  hash of themselves. Nothing interleaves, and abstracting the hash to equality
  leaves nothing to check.
* *Keyword research* (`keyword/`): requests that answer from their inputs and the
  vendor's and keep nothing.
* *Health and metrics* (`health.py`): reads and reports.
* *Waitlist and mail*: one insert under a unique key; best-effort SMTP.
* *Vendors' clients* (`providers/`, `serp/searxng.py`, `serp/dataforseo.py`,
  `backlink/mock.py`): HTTP; the models take their answers as a choice.
* *Reading a site* (`pipeline/discovery.py`, `sanitize.py`, `textfold.py`,
  `site_audit/parser.py`) and *validating structured data*: functions on HTML and
  JSON.
* *Passwords, tokens, cookies*: hashing and predicates on texts.
* *Migrations and deployment*: linear scripts, each step one command; what they
  could damage is the schema, which is data to every module.
* *API schemas and configuration*: validation of shapes, and constants, which are
  the models' CONSTANTS.
* *Front end*: a client of the API that keeps no state the server depends on.
