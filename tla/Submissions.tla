---------------------------- MODULE Submissions ----------------------------
(***************************************************************************)
(* The gates in front of the analysis queue: what a signed-in submission   *)
(* and a submission to the public checker count before they insert a row,  *)
(* the monthly counter a submission increments, and the rows leaving the   *)
(* windows they are counted in.                                            *)
(*                                                                         *)
(* Every count is a SELECT of its own at READ COMMITTED, and nothing is    *)
(* locked: a request remembers only that it passed. A row's age is the     *)
(* shortest window that still holds it. A row that no count will ever see  *)
(* again is forgotten, which frees its id.                                 *)
(***************************************************************************)
EXTENDS Integers, FiniteSets

CONSTANTS
    Users,             \* members of one organization
    Ips,               \* hashed client addresses
    Brands,            \* normalized (brand, category, lang) triples
    Requests,          \* API request threads
    RowIds,            \* ids of `analyses` rows, as many as can count at once
    StockLimit,        \* user_analysis_limit
    HourLimit,         \* analyses_rate_limit_per_ip_hour
    DayCap,            \* analyses_daily_cap
    Quota,             \* the plan's analyses per month
    CheckerOpen,       \* checker_enabled
    CheckerHourLimit,  \* checker_rate_limit_per_ip_hour
    BrandLimit,        \* checker_rate_limit_per_brand_day
    CostCap,           \* checker_daily_usd_cap
    Estimate,          \* _EST_CHECKER_RUN_COST_USD
    Costs,             \* what a checker run may turn out to cost
    MaxCost,           \* the most of them, which no code keeps to the estimate
    Months,            \* 1 .. the last month looked at
    MaxCount,          \* bound: where asked and started stop counting
    None

ASSUME SubmissionAssumption ==
    /\ IsFiniteSet(Requests) /\ IsFiniteSet(RowIds)
    /\ \A n \in {StockLimit, HourLimit, DayCap, Quota, CheckerHourLimit,
                 BrandLimit, CostCap, Estimate, MaxCost, MaxCount} : n \in Nat \ {0}
    /\ Costs \subseteq 0 .. MaxCost
    /\ Estimate <= MaxCost
    /\ Months \subseteq Nat /\ 1 \in Months
    /\ None \notin Users \cup Ips \cup Brands

VARIABLES
    rows,     \* the `analyses` table as far as it is counted
    asked,    \* checker_submissions of the last hour, per address
    used,     \* usage_counters of the organization, 0 if there is no row
    month,    \* the calendar month
    req       \* requests: what they ask for and what they have read

\* History.
VARIABLES
    started,     \* analyses committed against each month's counter
    overlapped   \* two requests were between quota check and commit at once

vars == <<rows, asked, used, month, req, started, overlapped>>

Ages == {"hour", "day", "past"}
InFlight == "active"     \* queued, running or awaiting review
RowStates == {InFlight, "done", "failed"}
Rows == [kind : {"mvp", "checker"}, user : Users \cup {None},
         ip : Ips \cup {None}, brand : Brands \cup {None},
         status : RowStates, age : Ages, cost : Costs \cup {0}, excused : BOOLEAN]
ASSUME NoneIsNoRow == None \notin Rows

SubmitPcs == {"rate", "daily", "stock", "quota", "count", "commit"}
CheckerPcs == {"peek", "limits", "brand", "cost", "create"}
Idle == [pc |-> "idle", user |-> None, ip |-> None, brand |-> None,
         window |-> 1, seen |-> 0, hit |-> FALSE]

TypeOK ==
    /\ rows \in [RowIds -> Rows \cup {None}]
    /\ asked \in [Ips -> Nat]
    /\ used \in [Months -> Nat]
    /\ month \in Months
    /\ req \in [Requests ->
          [pc : {"idle"} \cup SubmitPcs \cup CheckerPcs, user : Users \cup {None},
           ip : Ips \cup {None}, brand : Brands \cup {None},
           window : Months, seen : Nat, hit : BOOLEAN]]
    /\ started \in [Months -> Nat]
    /\ overlapped \in BOOLEAN

Init ==
    /\ rows = [i \in RowIds |-> None]
    /\ asked = [a \in Ips |-> 0]
    /\ used = [m \in Months |-> 0]
    /\ month = 1
    /\ req = [r \in Requests |-> Idle]
    /\ started = [m \in Months |-> 0]
    /\ overlapped = FALSE

Stored == {i \in RowIds : rows[i] # None}
Free == RowIds \ Stored

-----------------------------------------------------------------------------
\* What the gates count.

\* count_active_user_analyses: everything but failed rows.
Held(u) == {i \in Stored : rows[i].user = u /\ rows[i].status \in {InFlight, "done"}}

FromIp(a) == {i \in Stored : rows[i].ip = a /\ rows[i].age = "hour"}
Today == {i \in Stored : rows[i].age \in {"hour", "day"}}
FreshOf(b) == {i \in Stored : rows[i].brand = b /\ rows[i].age = "day"}

\* find_cached_checker_analysis: a finished run of the triple, not too old.
Cached(b) == {i \in FreshOf(b) : rows[i].status = "done"}

CheckerRows == {i \in Stored : rows[i].kind = "checker"}
\* Responses stay in their window after the run they belong to has left it. The
\* sum counts cents, each of them a pair of its run and a number.
Recorded == Cardinality({cent \in CheckerRows \X (1 .. MaxCost) :
                            cent[2] <= rows[cent[1]].cost})
QueuedToday == {i \in CheckerRows : rows[i].status = InFlight /\ rows[i].age = "day"}

\* Variant: a run counts once its cost is known.
ProjectedRecorded == Recorded
\* checker_daily_cost_exceeded: recorded cost and an estimate of what is in flight.
Projected == Recorded + Estimate * Cardinality(QueuedToday)

-----------------------------------------------------------------------------
\* A signed-in submission.

Step(r, pc) == req' = [req EXCEPT ![r].pc = pc]
End(r) == req' = [req EXCEPT ![r] = Idle]
\* The next gate, or a refusal, which leaves no trace.
PassIf(r, ok, pc) == IF ok THEN Step(r, pc) ELSE End(r)

Submit(r, u, a) ==
    /\ req[r].pc = "idle"
    /\ req' = [req EXCEPT ![r] = [Idle EXCEPT !.pc = "rate", !.user = u, !.ip = a]]
    /\ UNCHANGED <<rows, asked, used, month, started, overlapped>>

CheckRate(r) ==
    /\ req[r].pc = "rate"
    /\ PassIf(r, Cardinality(FromIp(req[r].ip)) < HourLimit, "daily")
    /\ UNCHANGED <<rows, asked, used, month, started, overlapped>>

CheckDailyCap(r) ==
    /\ req[r].pc = "daily"
    /\ PassIf(r, Cardinality(Today) < DayCap, "stock")
    /\ UNCHANGED <<rows, asked, used, month, started, overlapped>>

\* Variant: only finished analyses hold a slot.
RoomAmongDone(u) == Cardinality({i \in Held(u) : rows[i].status = "done"}) < StockLimit
Room(u) == Cardinality(Held(u)) < StockLimit

EnforceUserLimit(r) ==
    /\ req[r].pc = "stock"
    /\ PassIf(r, Room(req[r].user), "quota")
    /\ UNCHANGED <<rows, asked, used, month, started, overlapped>>

CheckQuota(r) ==
    /\ req[r].pc = "quota"
    /\ PassIf(r, used[month] + 1 <= Quota, "count")
    /\ overlapped' = (overlapped \/ \E q \in Requests : req[q].pc \in {"count", "commit"})
    /\ UNCHANGED <<rows, asked, used, month, started>>

\* consume_quota reads the counter again, in the month it is by now.
ReadCounter(r) ==
    /\ req[r].pc = "count"
    /\ req' = [req EXCEPT ![r].pc = "commit", ![r].window = month,
                          ![r].seen = used[month]]
    /\ UNCHANGED <<rows, asked, used, month, started, overlapped>>

\* Variant: the check and the insert each count the run.
CountedTwice(r) == [used EXCEPT ![req[r].window] = req[r].seen + 2]
\* The new value is computed from the one read, not from the one stored.
Counted(r) == [used EXCEPT ![req[r].window] = req[r].seen + 1]

\* Two inserts of the first counter row of a month: the second one fails.
CounterTaken(r) == req[r].seen = 0 /\ used[req[r].window] # 0

\* The counter, the row and the audit event commit together.
CreateAnalysis(r) ==
    /\ req[r].pc = "commit"
    /\ ~CounterTaken(r)
    /\ started[req[r].window] < MaxCount
    /\ \E i \in Free :
          rows' = [rows EXCEPT ![i] =
             [kind |-> "mvp", user |-> req[r].user, ip |-> req[r].ip, brand |-> None,
              status |-> InFlight, age |-> "hour", cost |-> 0, excused |-> FALSE]]
    /\ used' = Counted(r)
    /\ started' = [started EXCEPT ![req[r].window] = @ + 1]
    /\ End(r)
    /\ UNCHANGED <<asked, month, overlapped>>

\* The transaction fails: a second insert of the counter, a lost connection.
RollBack(r) ==
    /\ req[r].pc \in {"commit", "create"}
    /\ End(r)
    /\ UNCHANGED <<rows, asked, used, month, started, overlapped>>

-----------------------------------------------------------------------------
\* A submission to the public checker.

SubmitChecker(r, a, b) ==
    /\ req[r].pc = "idle"
    /\ req' = [req EXCEPT ![r] = [Idle EXCEPT !.pc = "peek", !.ip = a, !.brand = b]]
    /\ UNCHANGED <<rows, asked, used, month, started, overlapped>>

Hit(b) == Cached(b) # {}

\* A cache hit passes by every guard.
PeekCache(r) ==
    /\ req[r].pc = "peek"
    /\ \/ /\ Hit(req[r].brand)
          /\ req' = [req EXCEPT ![r].pc = "create", ![r].hit = (Cached(req[r].brand) # {})]
       \/ /\ ~Hit(req[r].brand)
          /\ PassIf(r, CheckerOpen, "limits")
    /\ UNCHANGED <<rows, asked, used, month, started, overlapped>>

CheckCheckerIp(r) ==
    /\ req[r].pc = "limits"
    /\ PassIf(r, asked[req[r].ip] < CheckerHourLimit, "brand")
    /\ UNCHANGED <<rows, asked, used, month, started, overlapped>>

CheckBrand(r) ==
    /\ req[r].pc = "brand"
    /\ PassIf(r, Cardinality(FreshOf(req[r].brand)) < BrandLimit, "cost")
    /\ UNCHANGED <<rows, asked, used, month, started, overlapped>>

CheckCost(r) ==
    /\ req[r].pc = "cost"
    /\ PassIf(r, Projected < CostCap, "create")
    /\ UNCHANGED <<rows, asked, used, month, started, overlapped>>

\* The cache is looked up again: the hit may be gone, or there may be one by now.
CreateChecker(r) ==
    /\ req[r].pc = "create"
    /\ asked[req[r].ip] < MaxCount
    /\ \/ /\ Cached(req[r].brand) # {}
          /\ UNCHANGED rows
       \/ /\ Cached(req[r].brand) = {}
          /\ \E i \in Free :
                rows' = [rows EXCEPT ![i] =
                   [kind |-> "checker", user |-> None, ip |-> None,
                    brand |-> req[r].brand, status |-> InFlight, age |-> "day",
                    cost |-> 0, excused |-> req[r].hit]]
    /\ asked' = [asked EXCEPT ![req[r].ip] = @ + 1]
    /\ End(r)
    /\ UNCHANGED <<used, month, started, overlapped>>

-----------------------------------------------------------------------------
\* The worker, the owner and the clock.

\* A run ends; the answers of a checker run are priced when they are recorded.
FinishRun(i) ==
    /\ i \in Stored
    /\ rows[i].status = InFlight
    /\ \E s \in {"done", "failed"}, c \in IF rows[i].kind = "mvp" THEN {0} ELSE Costs :
          rows' = [rows EXCEPT ![i].status = s, ![i].cost = c]
    /\ UNCHANGED <<asked, used, month, req, started, overlapped>>

\* A done run is deleted by its owner, a failed one by the worker's purge.
DeleteRow(i) ==
    /\ i \in Stored
    /\ rows[i].kind = "mvp"
    /\ rows[i].status \in {"done", "failed"}
    /\ rows' = [rows EXCEPT ![i] = None]
    /\ UNCHANGED <<asked, used, month, req, started, overlapped>>

\* A row leaves a window. A checker run that leaves the day while it is in
\* flight will cost something no projection counts.
AgeRow(i) ==
    /\ i \in Stored
    /\ \/ /\ rows[i].age = "hour"
          /\ rows' = [rows EXCEPT ![i].age = "day"]
       \/ /\ rows[i].age = "day"
          /\ rows' = [rows EXCEPT ![i].age = "past", ![i].excused =
                        @ \/ (rows[i].kind = "checker" /\ rows[i].status = InFlight)]
       \/ /\ rows[i].age = "past"
          /\ rows[i].status = "failed" \/ (rows[i].kind = "checker" /\ rows[i].status = "done")
          /\ rows' = [rows EXCEPT ![i] = None]
    /\ UNCHANGED <<asked, used, month, req, started, overlapped>>

AgeSubmission(a) ==
    /\ asked[a] > 0
    /\ asked' = [asked EXCEPT ![a] = @ - 1]
    /\ UNCHANGED <<rows, used, month, req, started, overlapped>>

NextMonth ==
    /\ month + 1 \in Months
    /\ month' = month + 1
    /\ UNCHANGED <<rows, asked, used, req, started, overlapped>>

Next ==
    \/ \E r \in Requests :
          \/ \E a \in Ips : (\E u \in Users : Submit(r, u, a))
                         \/ (\E b \in Brands : SubmitChecker(r, a, b))
          \/ CheckRate(r) \/ CheckDailyCap(r) \/ EnforceUserLimit(r)
          \/ CheckQuota(r) \/ ReadCounter(r) \/ CreateAnalysis(r) \/ RollBack(r)
          \/ PeekCache(r) \/ CheckCheckerIp(r) \/ CheckBrand(r) \/ CheckCost(r)
          \/ CreateChecker(r)
    \/ \E i \in RowIds : FinishRun(i) \/ DeleteRow(i) \/ AgeRow(i)
    \/ \E a \in Ips : AgeSubmission(a)
    \/ NextMonth

Spec == Init /\ [][Next]_vars

-----------------------------------------------------------------------------
Overshoot == Cardinality(Requests) - 1

\* A limit that is only checked before the insert is exceeded by at most one
\* row for every other request that passed the same check meanwhile, whatever
\* is deleted, finished or aged in between: a user's stock, the rows of an
\* address in an hour, the signed-in rows of a day.
LimitsHoldUpToOverlap ==
    /\ \A u \in Users : Cardinality(Held(u)) <= StockLimit + Overshoot
    /\ \A a \in Ips : Cardinality(FromIp(a)) <= HourLimit + Overshoot
    /\ Cardinality({i \in Today : rows[i].kind = "mvp"}) <= DayCap + Overshoot

\* The gates count what is there, and hold up to requests that overlap.
GatesSound == TypeOK /\ LimitsHoldUpToOverlap

\* The month's counter may lose increments but never counts a run that was not
\* committed. While it has lost none it passes the plan's allowance only by
\* requests that overlap: one that lost an increment admits further ones, so
\* that nothing bounds what is written over it but the runs themselves. Where no
\* two requests were between its check and its commit at once, it is exact, and
\* so is the allowance.
QuotaCountsRuns ==
    \A m \in Months :
        /\ used[m] <= started[m]
        /\ used[m] = started[m] => used[m] <= Quota + Overshoot
        /\ ~overlapped => used[m] = started[m] /\ used[m] <= Quota

\* What the checker spent, or may have spent when its runs in flight are done.
Owed(i) == IF rows[i].status = InFlight THEN MaxCost ELSE rows[i].cost
Spent == {cent \in {i \in CheckerRows : ~rows[i].excused} \X (1 .. MaxCost) :
             cent[2] <= Owed(cent[1])}

\* The checker's daily spending, what is recorded and the most that runs in flight
\* may cost, exceeds the cap, and one run per request that passed the check at the
\* same time, by no more than the factor by which a run exceeds its estimate: "any
\* drift caps backlog overshoot at a small multiple of the cap" (services/
\* rate_limit.py). Apart from a run that waited a day in the queue and one whose
\* cache hit expired between the peek and the insert.
SpendBounded ==
    Estimate * Cardinality(Spent) < MaxCost * (CostCap + Estimate * Cardinality(Requests))

-----------------------------------------------------------------------------
(***************************************************************************)
(* The inductive invariants behind them: who passed a gate and has not     *)
(* inserted its row yet counts against the limit like the row.             *)
(***************************************************************************)
PassedRate(a) ==
    {r \in Requests : /\ req[r].pc \in {"daily", "stock", "quota", "count", "commit"}
                      /\ req[r].ip = a}
PassedDaily == {r \in Requests : req[r].pc \in {"stock", "quota", "count", "commit"}}
PassedStock(u) ==
    {r \in Requests : req[r].pc \in {"quota", "count", "commit"} /\ req[r].user = u}
PassedCost == {r \in Requests : req[r].pc = "create" /\ ~req[r].hit}
SignedInToday == {i \in Today : rows[i].kind = "mvp"}

StockInv ==
    \A u \in Users :
        Cardinality(Held(u)) + Cardinality(PassedStock(u)) <= StockLimit + Overshoot
HourInv ==
    \A a \in Ips :
        Cardinality(FromIp(a)) + Cardinality(PassedRate(a)) <= HourLimit + Overshoot
DayInv == Cardinality(SignedInToday) + Cardinality(PassedDaily) <= DayCap + Overshoot
GatesInv == StockInv /\ HourInv /\ DayInv

\* Whose increment of a month's counter is still to come.
Counting(m) ==
    {r \in Requests : \/ req[r].pc = "count" /\ m = month
                      \/ req[r].pc = "commit" /\ req[r].window = m}
CounterInv ==
    \A m \in Months :
        /\ used[m] <= started[m]
        /\ month < m => started[m] = 0
        /\ used[m] = started[m] =>
              used[m] + Cardinality(Counting(m)) <= Quota + Overshoot
\* A counter read is what was committed then; if nothing was since, it stands.
ReadInv ==
    \A r \in Requests : req[r].pc = "commit" =>
        /\ req[r].window <= month
        /\ req[r].seen <= started[req[r].window]
        /\ req[r].seen = started[req[r].window] => used[req[r].window] = req[r].seen
AloneInv ==
    ~overlapped =>
        /\ \A q, r \in Requests :
              {req[q].pc, req[r].pc} \subseteq {"count", "commit"} => q = r
        /\ \A m \in Months : used[m] = started[m] /\ used[m] <= Quota
        /\ \A r \in Requests :
              /\ req[r].pc = "count" => used[month] < Quota
              /\ req[r].pc = "commit" =>
                    req[r].seen = used[req[r].window] /\ req[r].seen < Quota
QuotaInv == CounterInv /\ ReadInv /\ AloneInv

\* A run in flight that the projection will not see is excused.
InFlightToday ==
    \A i \in CheckerRows :
        rows[i].status = InFlight /\ ~rows[i].excused => rows[i].age = "day"
SpendInv ==
    /\ InFlightToday
    /\ Estimate * (Cardinality(Spent) + MaxCost * Cardinality(PassedCost))
         < MaxCost * (CostCap + Estimate * Cardinality(Requests))
=============================================================================
