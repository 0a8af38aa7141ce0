----------------------------- MODULE Backlinks -----------------------------
(***************************************************************************)
(* Backlink refreshes of the projects of one organization: the import that *)
(* diffs a vendor's page against what is believed, the events it appends,  *)
(* the rollups it rebuilds, the credit it reserves and settles, and what   *)
(* the workers settle for the analyses of the organization meanwhile.      *)
(*                                                                         *)
(* A refresh is one transaction from its insert to its commit. The partial *)
(* unique index on active imports makes a second insert for the subject    *)
(* wait for the first transaction, which leaves no active import behind:   *)
(* the second one then goes on.  The row of usage_counters, updated before *)
(* the vendor is called, makes the refreshes of one month wait as well.    *)
(***************************************************************************)
EXTENDS BacklinkScores, Sequences

CONSTANTS
    Subjects,             \* projects with their own domain
    Mentions,             \* domains an answer or a search showed naming a brand
    Requests,             \* API request threads
    Analyses,             \* finished analyses of the organization, to be settled
    MISSES_BEFORE_LOST,
    Estimate,             \* price_estimate
    Cost,                 \* what a fetched page is charged
    Charges,              \* what may be outstanding of an analysis
    Grants,               \* what may have been granted to the organization
    VelocityLimit,        \* the imports velocity shows
    MaxImports,           \* bound: refreshes asked for
    MonthOf,              \* the calendar month each is asked for in
    Respelled,            \* links a page may list in two spellings
    MaxRows               \* bound: rows of a page

Absent == {"missing_pending", "lost"}
\* Rows of backlinks, and the kinds of link_events that are told.
Beliefs == [status : {"active"} \cup Absent, misses : 0 .. MISSES_BEFORE_LOST]
Events == {"new", "regained", "lost"}
\* Rows of referring_domain_rollups.
Rollups == [links : 0 .. Cardinality(Keys), follow : 0 .. Cardinality(Keys),
            score : (0 .. 100) \cup {None}, band : {"low", "medium", "high", None}]

ASSUME BacklinkAssumption ==
    /\ \A n \in {MISSES_BEFORE_LOST, Estimate, VelocityLimit, MaxImports, MaxRows} : n \in Nat \ {0}
    /\ Grants \subseteq Nat /\ Charges \subseteq Nat
    /\ Cost \in 0 .. Estimate
    /\ IsFiniteSet(Requests) /\ Requests # {} /\ None \notin Subjects
    /\ Requests \cap Analyses = {}
    /\ None \notin Beliefs \cup Events \cup Rollups \cup (0 .. 100)

VARIABLES
    imports,   \* backlink_imports per subject, in the order they were committed
    links,     \* backlinks per subject
    last,      \* the kind of the last link_events row of a link
    rollups,   \* referring_domain_rollups, None before a domain is first listed
    credit,    \* the sum of credit_ledger
    balance,   \* balance_after_usd of the newest entry
    req,       \* requests and what they have read
    work,      \* the workers' settlements of analyses
    clock      \* ticks with every refresh asked for: what created_at is taken from

\* History.
VARIABLES
    overlapped, \* the last reservation was made while another refresh had one
    unreserved, \* what analyses were charged since
    overtaken,  \* transactions whose sum of the ledger misses an entry committed since
    exact       \* the newest entry's sum missed none

profile == <<imports, links, last, rollups>>
ledger == <<credit, balance, overtaken, exact, unreserved>>
vars == <<profile, ledger, req, work, clock, overlapped>>

\* How often a page lists each link; spellings of one URL share an identity.
RowsOf(f) == Cardinality({row \in Keys \X (1 .. 2) : row[2] <= f[row[1]]})
Listings == {f \in [Keys -> 0 .. 2] :
                RowsOf(f) <= MaxRows /\ \A k \in Keys \ Respelled : f[k] <= 1}
Pages == [coverage : {"complete", "partial"}, rows : Listings]
NoRows == [k \in Keys |-> 0]
Failed == [coverage |-> "failed", rows |-> NoRows]

Idle == [pc |-> "idle", subject |-> None, created |-> 0, heard |-> FALSE, after |-> 0]

TypeOK ==
    /\ \A s \in Subjects : imports[s] \in Seq([created : Nat,
                                               coverage : {"complete", "partial", "failed"},
                                               rows : Listings, measurable : BOOLEAN,
                                               new : Nat, lost : Nat,
                                               authority : (0 .. 100) \cup {None}])
    /\ links \in [Subjects -> [Keys -> Beliefs \cup {None}]]
    /\ last \in [Subjects -> [Keys -> Events \cup {None}]]
    /\ rollups \in [Subjects -> [RefDomains -> Rollups \cup {None}]]
    /\ credit \in Int /\ balance \in Int
    /\ req \in [Requests ->
          [pc : {"idle", "asking", "calling", "settled"}, subject : Subjects \cup {None},
           created : Nat, heard : BOOLEAN, after : Int]]
    /\ work \in [Analyses -> [pc : {"finished", "settled", "done"}, charge : Nat, after : Int]]
    /\ clock \in Nat
    /\ overlapped \in BOOLEAN /\ exact \in BOOLEAN
    /\ unreserved \in Nat /\ overtaken \subseteq Requests \cup Analyses

Init ==
    /\ imports = [s \in Subjects |-> <<>>]
    /\ links = [s \in Subjects |-> [k \in Keys |-> None]]
    /\ last = [s \in Subjects |-> [k \in Keys |-> None]]
    /\ rollups = [s \in Subjects |-> [d \in RefDomains |-> None]]
    /\ credit \in Grants
    /\ balance = credit
    /\ req = [r \in Requests |-> Idle]
    /\ work = [a \in Analyses |-> [pc |-> "finished", charge |-> 0, after |-> 0]]
    /\ clock = 0
    /\ overlapped = FALSE /\ unreserved = 0
    /\ overtaken = {} /\ exact = TRUE

-----------------------------------------------------------------------------
\* What an import concludes from a page.

\* The newest of some imports is the one created last, before its insert began
\* to wait: not always the one committed last.
Latest(rows, these) == {n \in these : \A m \in these : rows[m].created <= rows[n].created}
Newest(s, these) == Max(Latest(imports[s], these))

\* The imports that are done, and the rows of the newest of them.
Done(s) == {n \in DOMAIN imports[s] : imports[s][n].coverage = "complete"}
PreviousRows(s) == RowsOf(imports[s][Newest(s, Done(s))].rows)

\* Variant: the vendor's own word is enough.
ClaimsComplete(s, page) == page.coverage = "complete"
\* is_measurable: complete, and not collapsed below SHRINK_FLOOR = 1/2.
Measurable(s, page) ==
    /\ page.coverage = "complete"
    /\ \/ Done(s) = {} \/ PreviousRows(s) = 0
       \/ 2 * RowsOf(page.rows) >= PreviousRows(s)

Sighted == [status |-> "active", misses |-> 0]

\* A link the page does not list.
Miss(link, measured) ==
    IF ~measured \/ link.status = "lost" THEN link
    ELSE [status |-> IF link.misses + 1 >= MISSES_BEFORE_LOST THEN "lost" ELSE "missing_pending",
          misses |-> link.misses + 1]

\* The diff of run_import over the links stored for the subject.
Diffed(s, page) ==
    [k \in Keys |->
        IF page.rows[k] > 0 THEN Sighted
        ELSE IF links[s][k] = None THEN None
        ELSE Miss(links[s][k], Measurable(s, page))]

\* _emit: the event the diff appends for a link, None without one.
EventNow(before, after) ==
    IF before = None THEN (IF after = None THEN None ELSE "new")
    ELSE IF before.status \in Absent /\ after.status = "active" THEN "regained"
    ELSE IF before.status # "lost" /\ after.status = "lost" THEN "lost"
    ELSE None

\* The last event of a link, once the diff is made.
Event(before, after, kind) ==
    IF EventNow(before, after) = None THEN kind ELSE EventNow(before, after)

Live(now) == {k \in Keys : now[k] # None /\ now[k].status = "active"}

\* assess_project: what a domain with links is given
Assessed(d, live) ==
    [links |-> Cardinality(LinksFrom(d, live)),
     follow |-> Cardinality(Followed(LinksFrom(d, live))),
     score |-> ToxicityOf(d, live), band |-> BandOf(ToxicityOf(d, live))]

\* What remains of one that lost them
Unlinked == [links |-> 0, follow |-> 0, score |-> None, band |-> None]

\* Variant: a domain that lost its links keeps its row as it was.
RolledKept(s, now) ==
    [d \in RefDomains |->
        IF d \in Linking(Live(now)) THEN Assessed(d, Live(now)) ELSE rollups[s][d]]
\* rebuild_rollups: active links are counted and assessed anew; a domain once
\* listed stays, with no links and no score.
Rolled(s, now) ==
    [d \in RefDomains |->
        IF d \in Linking(Live(now)) THEN Assessed(d, Live(now))
        ELSE IF rollups[s][d] = None THEN None
        ELSE Unlinked]

\* A new identity listed twice is inserted twice, against uq_backlinks_identity.
Collides(s, page) == \E k \in Keys : page.rows[k] > 1 /\ links[s][k] = None

-----------------------------------------------------------------------------
\* A refresh.

InTransaction(r) == req[r].pc \in {"calling", "settled"}
Busy(s) == \E r \in Requests : InTransaction(r) /\ req[r].subject = s
End(r) == req' = [req EXCEPT ![r] = Idle]

\* Transactions that have summed the ledger and not yet committed their entry.
Writing ==
    {r \in Requests : req[r].pc = "settled"} \cup {a \in Analyses : work[a].pc = "settled"}

\* _append: a new entry of the ledger, with the balance its transaction stamped on
\* it.  Whoever has summed the ledger and waits to commit did not see it.
NewEntry(who, delta, after) ==
    /\ credit' = credit + delta
    /\ balance' = after
    /\ exact' = (who \notin overtaken)
    /\ overtaken' = Writing \ {who}

\* active_import finds nothing: an active import is never committed.  The month of
\* the counter and created_at are taken before the insert waits.
RequestRefresh(r, s) ==
    /\ req[r].pc = "idle"
    /\ clock < MaxImports /\ clock' = clock + 1
    /\ req' = [req EXCEPT ![r] = [Idle EXCEPT !.pc = "asking", !.subject = s,
                                              !.created = clock + 1]]
    /\ UNCHANGED <<profile, ledger, work, overlapped>>

\* Variant: the reservation is not compared with the balance.
AffordableAlways == TRUE
Affordable == credit >= Estimate

\* consume_quota holds the month's counter until the transaction ends.
Counting(month) == \E r \in Requests : InTransaction(r) /\ MonthOf[req[r].created] = month

\* The insert waits for the subject's index entry, and the quota for the month's
\* counter; then the reservation. A refusal rolls the insert and the quota back.
Reserve(r) ==
    /\ req[r].pc = "asking"
    /\ ~Busy(req[r].subject) /\ ~Counting(MonthOf[req[r].created])
    /\ IF Affordable
       THEN /\ req' = [req EXCEPT ![r].pc = "calling"]
            /\ overlapped' = \E q \in Requests : InTransaction(q)
            /\ unreserved' = 0
       ELSE End(r) /\ UNCHANGED <<overlapped, unreserved>>
    /\ UNCHANGED <<profile, credit, balance, overtaken, exact, work, clock>>

Charge(heard) == IF heard THEN Cost ELSE 0

Stamped(charge) == credit - charge

\* The vendor answers, or does not, and the cost is settled.
FetchAndSettle(r) ==
    /\ req[r].pc = "calling"
    /\ \E heard \in BOOLEAN :
          req' = [req EXCEPT ![r].pc = "settled", ![r].heard = heard,
                             ![r].after = Stamped(Charge(heard))]
    /\ UNCHANGED <<profile, ledger, work, clock, overlapped>>

\* The import of a page: the diff, the rollups and the scores, and the ledger's
\* entry.  The transaction is alone with its subject, so that the page may be
\* chosen when it commits; one that collides is an end like any lost connection.
Import(s, page, created) ==
    LET now == Diffed(s, page)
        heard == page.coverage # "failed"
        Became(kind) == {k \in Keys : heard /\ EventNow(links[s][k], now[k]) = kind}
    IN
    /\ ~Collides(s, page)
    /\ imports' = [imports EXCEPT ![s] = Append(@,
          [created |-> created, coverage |-> page.coverage, rows |-> page.rows,
           measurable |-> heard /\ Measurable(s, page),
           new |-> Cardinality(Became("new")), lost |-> Cardinality(Became("lost")),
           authority |-> IF heard THEN Authority(Live(now)) ELSE None])]
    /\ IF heard
       THEN /\ links' = [links EXCEPT ![s] = now]
            /\ last' = [last EXCEPT ![s] = [k \in Keys |-> Event(links[s][k], now[k], last[s][k])]]
            /\ rollups' = [rollups EXCEPT ![s] = Rolled(s, now)]
       ELSE UNCHANGED <<links, last, rollups>>

CommitRefresh(r) ==
    /\ req[r].pc = "settled"
    /\ \E page \in IF req[r].heard THEN Pages ELSE {Failed} :
          Import(req[r].subject, page, req[r].created)
    /\ NewEntry(r, - Charge(req[r].heard), req[r].after)
    /\ End(r)
    /\ UNCHANGED <<work, clock, overlapped, unreserved>>

\* The connection or the process is lost, or the month's counter was inserted by
\* another after this one looked for it: the transaction leaves nothing.
Abandon(r) ==
    /\ req[r].pc # "idle"
    /\ End(r)
    /\ overtaken' = overtaken \ {r}
    /\ UNCHANGED <<profile, credit, balance, exact, unreserved, work, clock, overlapped>>

-----------------------------------------------------------------------------
\* The worker settles an analysis: what it spent is spent, whatever is left.

Closed == [pc |-> "done", charge |-> 0, after |-> 0]

\* settle_cost: what is outstanding, and the balance the entry is stamped with
Settle(a) ==
    /\ work[a].pc = "finished"
    /\ \E charge \in Charges :
          work' = [work EXCEPT ![a] = [pc |-> "settled", charge |-> charge,
                                       after |-> Stamped(charge)]]
    /\ UNCHANGED <<profile, ledger, req, clock, overlapped>>

CommitSettlement(a) ==
    /\ work[a].pc = "settled"
    /\ NewEntry(a, - work[a].charge, work[a].after)
    /\ unreserved' = unreserved + work[a].charge
    /\ work' = [work EXCEPT ![a] = Closed]
    /\ UNCHANGED <<profile, req, clock, overlapped>>

\* _settle logs the failure; the entry is not tried again.
LoseSettlement(a) ==
    /\ work[a].pc = "settled"
    /\ work' = [work EXCEPT ![a] = Closed]
    /\ overtaken' = overtaken \ {a}
    /\ UNCHANGED <<profile, credit, balance, exact, unreserved, req, clock, overlapped>>

Next ==
    \/ \E r \in Requests :
          \/ \E s \in Subjects : RequestRefresh(r, s)
          \/ Reserve(r) \/ FetchAndSettle(r) \/ CommitRefresh(r) \/ Abandon(r)
    \/ \E a \in Analyses : Settle(a) \/ CommitSettlement(a) \/ LoseSettlement(a)

Spec == Init /\ [][Next]_vars

-----------------------------------------------------------------------------
\* What the routes read.

\* inventory: the links of a status
Inventory(s, status) == {k \in Keys : links[s][k] # None /\ links[s][k].status = status}

\* referring_domains: those that link now
ReferringDomains(s) == {d \in RefDomains : rollups[s][d] # None /\ rollups[s][d].links > 0}

\* toxicity_bands
ToxicityBands(s) ==
    [band \in {"low", "medium", "high"} |->
        Cardinality({d \in ReferringDomains(s) : rollups[s][d].band = band})]

\* anchor_distribution: how many active links have an anchor of a class
Anchors(s, class) == {k \in Inventory(s, "active") : LinkTrait[k].class = class}

\* velocity: the newest imports a vendor answered, each with what it changed
Heard(s) == {n \in DOMAIN imports[s] : imports[s][n].coverage # "failed"}
Velocity(s) ==
    {n \in Heard(s) :
        Cardinality({m \in Heard(s) : imports[s][m].created > imports[s][n].created}) < VelocityLimit}
Gained(s) == SumFunction([n \in Velocity(s) |-> imports[s][n].new])
Shed(s) == SumFunction([n \in Velocity(s) |-> imports[s][n].lost])

\* summary: the authority is the one written on the newest import that was heard.
Summary(s) ==
    [backlinks |-> Cardinality(Inventory(s, "active")),
     follow |-> Cardinality(Followed(Inventory(s, "active"))),
     domains |-> Cardinality(ReferringDomains(s)),
     lost |-> Cardinality(Inventory(s, "lost")),
     authority |-> IF Heard(s) = {} THEN None ELSE imports[s][Newest(s, Heard(s))].authority]

\* disavow_file
Disavowed(s, minimum) ==
    {d \in ReferringDomains(s) :
        rollups[s][d].band \in IF minimum = "high" THEN {"high"} ELSE {"high", "medium"}}

\* unlinked_mentions: who names the brand and does not link to it
UnlinkedMentions(s) == Mentions \ ReferringDomains(s)

-----------------------------------------------------------------------------
\* The belief about a link, told from the pages alone.

Measured(s, n) ==
    LET done == {m \in 1 .. n - 1 : imports[s][m].coverage = "complete"}
    IN /\ imports[s][n].coverage = "complete"
       /\ done # {} => 2 * RowsOf(imports[s][n].rows) >= RowsOf(imports[s][Newest(s, done)].rows)
Sightings(s, k) == {n \in DOMAIN imports[s] : imports[s][n].rows[k] > 0}
MeasuredMisses(s, k) ==
    {n \in DOMAIN imports[s] : n > Max(Sightings(s, k)) /\ Measured(s, n)}

\* A link is lost only after as many measurable pages in a row missed it as the
\* engine asks for, and is then; a truncated, collapsed or failed page never
\* counts against it, and any page that lists it revives it.
LossesMeasured ==
    \A s \in Subjects, k \in Keys :
        IF Sightings(s, k) = {} THEN links[s][k] = None
        ELSE LET n == Cardinality(MeasuredMisses(s, k)) IN
             links[s][k].status = CASE n = 0 -> "active"
                                    [] n \in 1 .. MISSES_BEFORE_LOST - 1 -> "missing_pending"
                                    [] OTHER -> "lost"

\* The append-only history tells the same story as the inventory, and so do
\* the rollups: a link's last event is a loss exactly when it is lost, and a
\* domain counts the links that are active.
EventsAgree ==
    \A s \in Subjects, k \in Keys :
        /\ (links[s][k] = None) <=> (last[s][k] = None)
        /\ links[s][k] # None => ((links[s][k].status = "lost") <=> (last[s][k] = "lost"))
HistoryAgrees ==
    /\ EventsAgree
    /\ \A s \in Subjects, d \in RefDomains :
          (IF rollups[s][d] = None THEN 0 ELSE rollups[s][d].links)
            = Cardinality(LinksFrom(d, Inventory(s, "active")))

\* The links an import was the first to list, whatever the vendor says of when it
\* first saw them, and those of the imports velocity shows.
Born(s, n) == {k \in Keys : Sightings(s, k) # {} /\ Min(Sightings(s, k)) = n}
FirstListed(s) == UNION {Born(s, n) : n \in Velocity(s)}

\* The import created last was committed last.
InOrder(s) == Heard(s) # {} => Newest(s, Heard(s)) = Max(Heard(s))

\* The pages of a profile, each a query of its own, agree: the header with the
\* rollups, the bands, the anchors and the velocity; the score of a profile and of
\* its domains with the links believed now, though imports fail in between.  The
\* score may be older where two refreshes committed out of their order.  A link is
\* counted as new once, by the import that stored it first; velocity tells of the
\* losses of all that is lost only while it shows every import.
HeaderAgrees ==
    \A s \in Subjects :
        LET header == Summary(s)
            live == Inventory(s, "active")
            bands == ToxicityBands(s)
        IN
        /\ header.backlinks = SumFunction([d \in ReferringDomains(s) |-> rollups[s][d].links])
        /\ header.follow = SumFunction([d \in ReferringDomains(s) |-> rollups[s][d].follow])
        /\ header.domains = bands["low"] + bands["medium"] + bands["high"]
        /\ InOrder(s) =>
              /\ header.authority # None => header.authority = Authority(live)
              /\ (header.authority \in {None, 0}) <=> (live = {})
        /\ Gained(s) = Cardinality(FirstListed(s))
        /\ Cardinality(Heard(s)) <= VelocityLimit => Shed(s) >= header.lost
        /\ \A d \in RefDomains : rollups[s][d] # None /\ d \notin ReferringDomains(s)
              => rollups[s][d].band = None

\* No signal brands a domain on its own, two do not send it to the disavow file,
\* and whoever links is neither disavowed for nothing nor asked for a link.
AdviceCautious ==
    \A s \in Subjects :
        LET live == Inventory(s, "active") IN
        /\ \A d \in Disavowed(s, "medium") : Cardinality(Reasons(d, live)) > 1
        /\ \A d \in Disavowed(s, "high") : Cardinality(Reasons(d, live)) > 2
        /\ Linking(live) \cap UnlinkedMentions(s) = {}

\* Inventory, history, rollups and the pages read from them are well formed and
\* tell one story.
InventorySound == TypeOK /\ HistoryAgrees /\ HeaderAgrees /\ AdviceCautious

\* Credit that was checked before the vendor is called is overdrawn by less than
\* one estimate per further request, and not at all if the last reservation met no
\* other under way -- and by what analyses were charged since, which ask nobody.
\* The balance on the newest entry is the sum of the ledger, unless another entry
\* was committed between its sum and its commit.
CreditHolds ==
    /\ credit >= - Estimate * (Cardinality(Requests) - 1) - unreserved
    /\ ~overlapped => credit >= - unreserved
    /\ exact => balance = credit
-----------------------------------------------------------------------------
(***************************************************************************)
(* The inductive invariants behind them: what is believed of a link counts *)
(* the measurable pages that missed it, and what is reserved is there.     *)
(***************************************************************************)
ImportRows ==
    [created : Nat, coverage : {"complete", "partial", "failed"}, rows : Listings,
     measurable : BOOLEAN, new : Nat, lost : Nat,
     authority : {Authority(live) : live \in SUBSET Keys} \cup {None}]
Threads ==
    [pc : {"idle", "asking", "calling", "settled"}, subject : Subjects \cup {None},
     created : Nat, heard : BOOLEAN, after : Int]
Settlements == [pc : {"finished", "settled", "done"}, charge : Nat, after : Int]

Believed(s, k) ==
    IF Sightings(s, k) = {} THEN links[s][k] = None
    ELSE LET n == Cardinality(MeasuredMisses(s, k)) IN
         /\ links[s][k] # None
         /\ n = 0 => links[s][k] = Sighted
         /\ n \in 1 .. MISSES_BEFORE_LOST - 1 =>
               links[s][k].status = "missing_pending" /\ links[s][k].misses = n
         /\ n >= MISSES_BEFORE_LOST => links[s][k].status = "lost"

BeliefInv ==
    /\ imports \in [Subjects -> Seq(ImportRows)]
    /\ links \in [Subjects -> [Keys -> Beliefs \cup {None}]]
    /\ last \in [Subjects -> [Keys -> Events \cup {None}]]
    /\ \A s \in Subjects, k \in Keys : Believed(s, k)
    /\ EventsAgree

\* What all imports lost.
ShedEver(s) == SumFunction([n \in Heard(s) |-> imports[s][n].lost])

\* What the rollups, the last score and the counts of the imports were taken
\* from is what is believed still.
Profiled(s) ==
    LET live == Inventory(s, "active") IN
    /\ \A d \in RefDomains :
          IF d \in Linking(live) THEN rollups[s][d] = Assessed(d, live)
          ELSE rollups[s][d] \in {None, Unlinked}
    /\ IF Heard(s) = {} THEN \A k \in Keys : links[s][k] = None
       ELSE imports[s][Max(Heard(s))].authority = Authority(live)
    /\ \A n \in Heard(s) : imports[s][n].new = Cardinality(Born(s, n))
    /\ ShedEver(s) >= Cardinality(Inventory(s, "lost"))

ProfileInv ==
    /\ rollups \in [Subjects -> [RefDomains -> Rollups \cup {None}]]
    /\ \A s \in Subjects : Profiled(s)

InFlight == {r \in Requests : InTransaction(r)}

ThreadInv ==
    /\ credit \in Int /\ balance \in Int /\ clock \in Nat /\ unreserved \in Nat
    /\ overlapped \in BOOLEAN /\ exact \in BOOLEAN
    /\ req \in [Requests -> Threads] /\ work \in [Analyses -> Settlements]
    /\ \A r \in Requests : req[r].pc # "idle" => req[r].subject \in Subjects

\* Every refresh in flight has its estimate, but for what analyses were charged.
CreditInv ==
    LET reserved == credit + unreserved IN
    /\ reserved - Estimate * Cardinality(InFlight) >= Estimate - Estimate * Cardinality(Requests)
    /\ ~overlapped =>
          /\ reserved >= 0
          /\ \A q, r \in InFlight : q = r /\ reserved >= Estimate

\* Who was not overtaken has summed the ledger as it is.
BalanceInv ==
    /\ exact => balance = credit
    /\ overtaken \subseteq Writing
    /\ \A r \in Requests \ overtaken :
          req[r].pc = "settled" => req[r].after = credit - Charge(req[r].heard)
    /\ \A a \in Analyses \ overtaken :
          work[a].pc = "settled" => work[a].after = credit - work[a].charge
=============================================================================
