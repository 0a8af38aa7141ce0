----------------------------- MODULE RunProofs -----------------------------
(***************************************************************************)
(* Proofs about the parts of a run outside its queue.                      *)
(*                                                                         *)
(* Its start, the submission gates: every limit that is checked before     *)
(* an insert is exceeded by at most one row per overlapping request, the   *)
(* month's counter never counts a run that was not committed, and the      *)
(* checker's spending stays under its cap up to the requests that passed   *)
(* the projection together.                                                *)
(*                                                                         *)
(* Its paid step, the answers: the rows it stores are complete, in order   *)
(* and not made up, they charge no more than was paid, and the reports     *)
(* read from them agree.                                                   *)
(*                                                                         *)
(* Its scoring, the plan: the questions are balanced and the first wording *)
(* of each category comes first; no query of the search is asked twice.    *)
(* The claims: what the pipeline adds to an answer is never contradicted   *)
(* by its own audit; which advice is given, and in which order, does not   *)
(* depend on the order of the answers; and the pages computed from the     *)
(* records agree.                                                          *)
(***************************************************************************)
EXTENDS Submissions, MeasuredAudits, GeoScoring, NumberLemmas, FiniteSetTheorems, TLAPS

LEMMA Constants ==
  /\ IsFiniteSet(Requests) /\ IsFiniteSet(RowIds)
  /\ StockLimit \in Nat \ {0} /\ HourLimit \in Nat \ {0} /\ DayCap \in Nat \ {0}
  /\ Quota \in Nat \ {0} /\ CostCap \in Nat \ {0} /\ Estimate \in Nat \ {0}
  /\ MaxCost \in Nat \ {0} /\ Estimate <= MaxCost
  /\ Costs \subseteq 0 .. MaxCost /\ Months \subseteq Nat /\ 1 \in Months
  /\ None \notin Users /\ None \notin Ips /\ None \notin Brands /\ None \notin Rows
  BY SubmissionAssumption, NoneIsNoRow

-----------------------------------------------------------------------------
(***************************************************************************)
(* Limits that rows and passed requests share.                             *)
(***************************************************************************)

LEMMA Sizes ==
  ASSUME NEW S, IsFiniteSet(S), NEW T, T \subseteq S
  PROVE  /\ IsFiniteSet(T) /\ Cardinality(S) \in Nat /\ Cardinality(T) \in Nat
         /\ Cardinality(T) <= Cardinality(S)
  BY FS_Subset, FS_CardinalityType

\* Somebody passes who found room: the others may all have passed as well.
LEMMA GatePassed ==
  ASSUME NEW H, NEW P, NEW limit \in Nat, IsFiniteSet(H), P \subseteq Requests,
         Cardinality(H) < limit
  PROVE  Cardinality(H) + Cardinality(P) <= limit + Overshoot
<1>1. /\ Cardinality(P) \in Nat /\ Cardinality(Requests) \in Nat
      /\ Cardinality(P) <= Cardinality(Requests) /\ Cardinality(H) \in Nat
  BY Constants, Sizes, FS_CardinalityType
<1>. QED
  BY <1>1 DEF Overshoot

LEMMA GateKept ==
  ASSUME NEW H, NEW P, NEW G, NEW Q, NEW bound \in Int, IsFiniteSet(H), IsFiniteSet(P),
         G \subseteq H, Q \subseteq P, Cardinality(H) + Cardinality(P) <= bound
  PROVE  Cardinality(G) + Cardinality(Q) <= bound
<1>1. /\ Cardinality(G) <= Cardinality(H) /\ Cardinality(Q) <= Cardinality(P)
      /\ Cardinality(G) \in Nat /\ Cardinality(H) \in Nat
      /\ Cardinality(Q) \in Nat /\ Cardinality(P) \in Nat
  BY Sizes
<1>. QED
  BY <1>1

\* A row is inserted by one of those who passed.
LEMMA GateInserted ==
  ASSUME NEW H, NEW P, NEW G, NEW Q, NEW bound \in Int, IsFiniteSet(H), IsFiniteSet(P),
         NEW i, NEW r \in P, G \subseteq H \cup {i}, Q \subseteq P \ {r},
         Cardinality(H) + Cardinality(P) <= bound
  PROVE  Cardinality(G) + Cardinality(Q) <= bound
<1>1. /\ IsFiniteSet(H \cup {i}) /\ Cardinality(H \cup {i}) <= Cardinality(H) + 1
      /\ Cardinality(H) \in Nat
  <2>1. /\ IsFiniteSet(H \cup {i}) /\ Cardinality(H) \in Nat
        /\ \/ Cardinality(H \cup {i}) = Cardinality(H)
           \/ Cardinality(H \cup {i}) = Cardinality(H) + 1
    BY FS_AddElement, FS_CardinalityType
  <2>. QED
    BY <2>1
<1>2. /\ IsFiniteSet(P \ {r}) /\ Cardinality(P \ {r}) = Cardinality(P) - 1
      /\ Cardinality(P) \in Nat
  BY FS_RemoveElement, FS_CardinalityType
<1>3. /\ Cardinality(G) <= Cardinality(H \cup {i}) /\ Cardinality(Q) <= Cardinality(P \ {r})
      /\ Cardinality(G) \in Nat /\ Cardinality(Q) \in Nat
      /\ Cardinality(H \cup {i}) \in Nat
  BY <1>1, <1>2, Sizes
<1>. QED
  BY <1>1, <1>2, <1>3

-----------------------------------------------------------------------------
(***************************************************************************)
(* What the steps do.                                                      *)
(***************************************************************************)
Pcs == {"idle"} \cup SubmitPcs \cup CheckerPcs
Asking == [pc : Pcs, user : Users \cup {None}, ip : Ips \cup {None},
           brand : Brands \cup {None}, window : Months, seen : Nat, hit : BOOLEAN]

OthersStay(r) == req' \in [Requests -> Asking] /\ \A q \in Requests \ {r} : req'[q] = req[q]
\* A request goes on to its next statement, or ends.
Moves(r, pc) ==
    /\ OthersStay(r)
    /\ req'[r].pc = pc
    /\ req'[r].user = req[r].user /\ req'[r].ip = req[r].ip
    /\ req'[r].brand = req[r].brand /\ req'[r].hit = req[r].hit
    /\ req'[r].window = req[r].window /\ req'[r].seen = req[r].seen
Ends(r) == OthersStay(r) /\ req'[r] = Idle

LEMMA IdleFields ==
  /\ Idle \in Asking /\ Idle.pc = "idle"
  BY Constants DEF Idle, Asking, Pcs

LEMMA RequestTyped ==
  ASSUME TypeOK, NEW r \in Requests
  PROVE  /\ req \in [Requests -> Asking] /\ req[r] \in Asking
         /\ req[r].pc \in Pcs /\ req[r].user \in Users \cup {None}
         /\ req[r].ip \in Ips \cup {None} /\ req[r].brand \in Brands \cup {None}
         /\ req[r].window \in Months /\ req[r].seen \in Nat /\ req[r].hit \in BOOLEAN
  BY DEF TypeOK, Asking, Pcs

LEMMA RequestSet ==
  ASSUME TypeOK, NEW r \in Requests, NEW q \in Asking, req' = [req EXCEPT ![r] = q]
  PROVE  OthersStay(r) /\ req'[r] = q
  BY RequestTyped DEF OthersStay

LEMMA StepMoves ==
  ASSUME TypeOK, NEW r \in Requests, NEW pc \in Pcs, Step(r, pc)
  PROVE  Moves(r, pc)
<1>. DEFINE q == req[r]
            m == [q EXCEPT !.pc = pc]
<1>1. q \in Asking /\ req' = [req EXCEPT ![r] = m]
  BY RequestTyped DEF Step
<1>. HIDE DEF q
<1>2. /\ m \in Asking /\ m.pc = pc /\ m.user = q.user /\ m.ip = q.ip
      /\ m.brand = q.brand /\ m.hit = q.hit /\ m.window = q.window /\ m.seen = q.seen
  BY <1>1 DEF Asking
<1>. HIDE DEF m
<1>3. OthersStay(r) /\ req'[r] = m
  BY <1>1, <1>2, RequestSet
<1>. QED
  BY <1>2, <1>3 DEF Moves, q

LEMMA EndEnds ==
  ASSUME TypeOK, NEW r \in Requests, End(r)
  PROVE  Ends(r)
  BY IdleFields, RequestSet DEF End, Ends

\* Every check lets a request on or ends it, and writes nothing else.
LEMMA ChecksDo ==
  ASSUME TypeOK, NEW r \in Requests
  PROVE  /\ CheckRate(r) =>
              /\ req[r].pc = "rate" /\ UNCHANGED <<rows, asked, used, month, started, overlapped>>
              /\ \/ Ends(r)
                 \/ Moves(r, "daily") /\ Cardinality(FromIp(req[r].ip)) < HourLimit
         /\ CheckDailyCap(r) =>
              /\ req[r].pc = "daily" /\ UNCHANGED <<rows, asked, used, month, started, overlapped>>
              /\ \/ Ends(r)
                 \/ Moves(r, "stock") /\ Cardinality(Today) < DayCap
         /\ EnforceUserLimit(r) =>
              /\ req[r].pc = "stock" /\ UNCHANGED <<rows, asked, used, month, started, overlapped>>
              /\ \/ Ends(r)
                 \/ Moves(r, "quota") /\ Cardinality(Held(req[r].user)) < StockLimit
         /\ CheckQuota(r) =>
              /\ req[r].pc = "quota" /\ UNCHANGED <<rows, asked, used, month, started>>
              /\ \/ Ends(r)
                 \/ Moves(r, "count") /\ used[month] + 1 <= Quota
         /\ CheckCheckerIp(r) =>
              /\ req[r].pc = "limits" /\ UNCHANGED <<rows, asked, used, month, started, overlapped>>
              /\ Ends(r) \/ Moves(r, "brand")
         /\ CheckBrand(r) =>
              /\ req[r].pc = "brand" /\ UNCHANGED <<rows, asked, used, month, started, overlapped>>
              /\ Ends(r) \/ Moves(r, "cost")
         /\ CheckCost(r) =>
              /\ req[r].pc = "cost" /\ UNCHANGED <<rows, asked, used, month, started, overlapped>>
              /\ \/ Ends(r)
                 \/ Moves(r, "create") /\ Projected < CostCap
         /\ RollBack(r) =>
              /\ UNCHANGED <<rows, asked, used, month, started, overlapped>>
              /\ Ends(r)
<1>1. /\ \A pc \in Pcs : Step(r, pc) => Moves(r, pc)
      /\ End(r) => Ends(r)
  BY StepMoves, EndEnds
<1>2. {"daily", "stock", "quota", "count", "brand", "cost", "create"} \subseteq Pcs
  BY DEF Pcs, SubmitPcs, CheckerPcs
<1>. QED
  BY <1>1, <1>2
  DEF CheckRate, CheckDailyCap, EnforceUserLimit, Room, CheckQuota, CheckCheckerIp,
      CheckBrand, CheckCost, RollBack, PassIf

\* A new request has asked for nothing yet.
LEMMA SubmitsDo ==
  ASSUME TypeOK, NEW r \in Requests, NEW a \in Ips,
         \/ \E u \in Users : Submit(r, u, a)
         \/ \E b \in Brands : SubmitChecker(r, a, b)
  PROVE  /\ UNCHANGED <<rows, asked, used, month, started, overlapped>>
         /\ req[r].pc = "idle" /\ OthersStay(r) /\ req'[r].pc \in {"rate", "peek"}
<1>1. ASSUME NEW u \in Users, Submit(r, u, a)
      PROVE  OthersStay(r) /\ req'[r].pc = "rate"
  <2>. DEFINE q == [Idle EXCEPT !.pc = "rate", !.user = u, !.ip = a]
  <2>1. q \in Asking /\ q.pc = "rate"
    BY Constants DEF Idle, Asking, Pcs, SubmitPcs
  <2>2. req' = [req EXCEPT ![r] = q]
    BY <1>1 DEF Submit
  <2>. HIDE DEF q
  <2>. QED
    BY <2>1, <2>2, RequestSet
<1>2. ASSUME NEW b \in Brands, SubmitChecker(r, a, b)
      PROVE  OthersStay(r) /\ req'[r].pc = "peek"
  <2>. DEFINE q == [Idle EXCEPT !.pc = "peek", !.ip = a, !.brand = b]
  <2>1. q \in Asking /\ q.pc = "peek"
    BY Constants DEF Idle, Asking, Pcs, CheckerPcs
  <2>2. req' = [req EXCEPT ![r] = q]
    BY <1>2 DEF SubmitChecker
  <2>. HIDE DEF q
  <2>. QED
    BY <2>1, <2>2, RequestSet
<1>. QED
  BY <1>1, <1>2 DEF Submit, SubmitChecker

LEMMA ReadCounterDoes ==
  ASSUME TypeOK, NEW r \in Requests, ReadCounter(r)
  PROVE  /\ req[r].pc = "count" /\ UNCHANGED <<rows, asked, used, month, started, overlapped>>
         /\ OthersStay(r) /\ req'[r].pc = "commit" /\ req'[r].window = month
         /\ req'[r].seen = used[month]
         /\ req'[r].user = req[r].user /\ req'[r].ip = req[r].ip
         /\ req'[r].hit = req[r].hit
<1>. DEFINE q == req[r]
            n == used[month]
            m == [q EXCEPT !.pc = "commit", !.window = month, !.seen = n]
<1>1. /\ q \in Asking /\ req' = [req EXCEPT ![r] = m] /\ n \in Nat /\ month \in Months
      /\ q.pc = "count" /\ UNCHANGED <<rows, asked, used, month, started, overlapped>>
  BY RequestTyped DEF ReadCounter, TypeOK
<1>. HIDE DEF q, n
<1>2. /\ m \in Asking /\ m.pc = "commit" /\ m.user = q.user /\ m.ip = q.ip
      /\ m.hit = q.hit /\ m.window = month /\ m.seen = n
  BY <1>1 DEF Asking, Pcs, SubmitPcs
<1>. HIDE DEF m
<1>3. OthersStay(r) /\ req'[r] = m
  BY <1>1, <1>2, RequestSet
<1>. QED
  BY <1>1, <1>2, <1>3 DEF q, n

LEMMA PeekDoes ==
  ASSUME TypeOK, NEW r \in Requests, PeekCache(r)
  PROVE  /\ req[r].pc = "peek" /\ UNCHANGED <<rows, asked, used, month, started, overlapped>>
         /\ \/ Ends(r) \/ Moves(r, "limits")
            \/ OthersStay(r) /\ req'[r].pc = "create" /\ req'[r].hit
<1>1. CASE ~Hit(req[r].brand)
  <2>1. "limits" \in Pcs
    BY DEF Pcs, CheckerPcs
  <2>. QED
    BY <1>1, <2>1, StepMoves, EndEnds DEF PeekCache, PassIf
<1>2. CASE Hit(req[r].brand)
  <2>. DEFINE q == req[r]
              m == [q EXCEPT !.pc = "create", !.hit = TRUE]
  <2>1. (Cached(req[r].brand) # {}) = TRUE
    BY <1>2 DEF Hit
  <2>2. q \in Asking /\ req' = [req EXCEPT ![r] = m]
    BY <1>2, <2>1, RequestTyped DEF PeekCache
  <2>. HIDE DEF q
  <2>3. m \in Asking /\ m.pc = "create" /\ m.hit
    BY <2>2 DEF Asking, Pcs, CheckerPcs
  <2>. HIDE DEF m
  <2>4. OthersStay(r) /\ req'[r] = m
    BY <2>2, <2>3, RequestSet
  <2>. QED
    BY <1>2, <2>3, <2>4 DEF PeekCache
<1>. QED
  BY <1>1, <1>2
-----------------------------------------------------------------------------
(***************************************************************************)
(* What happens to the rows.                                               *)
(***************************************************************************)
OtherRows(i) ==
    /\ rows' \in [RowIds -> Rows \cup {None}]
    /\ \A k \in RowIds \ {i} : rows'[k] = rows[k]

LEMMA RowSet ==
  ASSUME TypeOK, NEW i \in RowIds, NEW x \in Rows \cup {None}, rows' = [rows EXCEPT ![i] = x]
  PROVE  OtherRows(i) /\ rows'[i] = x
  BY DEF TypeOK, OtherRows

LEMMA CreateAnalysisDoes ==
  ASSUME TypeOK, NEW r \in Requests, CreateAnalysis(r)
  PROVE  /\ req[r].pc = "commit" /\ ~CounterTaken(r) /\ Ends(r)
         /\ used' = [used EXCEPT ![req[r].window] = req[r].seen + 1]
         /\ started' = [started EXCEPT ![req[r].window] = @ + 1]
         /\ UNCHANGED <<asked, month, overlapped>>
         /\ \E i \in RowIds :
               /\ rows[i] = None /\ OtherRows(i) /\ rows'[i] \in Rows
               /\ rows'[i].kind = "mvp" /\ rows'[i].user = req[r].user
               /\ rows'[i].ip = req[r].ip
<1>1. PICK i \in Free :
         rows' = [rows EXCEPT ![i] =
             [kind |-> "mvp", user |-> req[r].user, ip |-> req[r].ip, brand |-> None,
              status |-> InFlight, age |-> "hour", cost |-> 0, excused |-> FALSE]]
  BY DEF CreateAnalysis
<1>. DEFINE x == [kind |-> "mvp", user |-> req[r].user, ip |-> req[r].ip, brand |-> None,
                  status |-> InFlight, age |-> "hour", cost |-> 0, excused |-> FALSE]
<1>2. x \in Rows /\ x.kind = "mvp" /\ x.user = req[r].user /\ x.ip = req[r].ip
  BY RequestTyped DEF Rows, RowStates, Ages
<1>3. i \in RowIds /\ rows[i] = None
  BY DEF Free, Stored
<1>. HIDE DEF x
<1>4. OtherRows(i) /\ rows'[i] = x
  BY <1>1, <1>2, <1>3, RowSet DEF x
<1>. QED
  BY <1>2, <1>3, <1>4, EndEnds DEF CreateAnalysis, Counted

LEMMA CreateCheckerDoes ==
  ASSUME TypeOK, NEW r \in Requests, CreateChecker(r)
  PROVE  /\ req[r].pc = "create" /\ Ends(r)
         /\ UNCHANGED <<used, month, started, overlapped>>
         /\ asked' \in [Ips -> Nat]
         /\ \/ UNCHANGED rows
            \/ \E i \in RowIds :
                  /\ rows[i] = None /\ OtherRows(i) /\ rows'[i] \in Rows
                  /\ rows'[i].kind = "checker" /\ rows'[i].user = None
                  /\ rows'[i].ip = None /\ rows'[i].status = InFlight
                  /\ rows'[i].age = "day" /\ rows'[i].excused = req[r].hit
<1>1. /\ req[r].pc = "create" /\ Ends(r)
      /\ UNCHANGED <<used, month, started, overlapped>>
      /\ asked' \in [Ips -> Nat]
  <2>. DEFINE a == req[r].ip
  <2>1. asked' = [asked EXCEPT ![a] = asked[a] + 1] /\ asked \in [Ips -> Nat]
    BY DEF CreateChecker, TypeOK
  <2>2. asked' \in [Ips -> Nat]
    <3>. HIDE DEF a
    <3>1. CASE a \in Ips
      <4>1. asked[a] + 1 \in Nat
        BY <2>1, <3>1
      <4>. QED
        BY <2>1, <4>1
    <3>2. CASE a \notin Ips
      <4>1. asked' = asked
        BY <2>1, <3>2
      <4>. QED
        BY <2>1, <4>1
    <3>. QED
      BY <3>1, <3>2
  <2>. QED
    BY <2>2, EndEnds DEF CreateChecker
<1>2. CASE UNCHANGED rows
  BY <1>1, <1>2
<1>3. CASE ~UNCHANGED rows
  <2>. DEFINE x == [kind |-> "checker", user |-> None, ip |-> None,
                    brand |-> req[r].brand, status |-> InFlight, age |-> "day",
                    cost |-> 0, excused |-> req[r].hit]
  <2>1. PICK i \in Free : rows' = [rows EXCEPT ![i] = x]
    BY <1>3 DEF CreateChecker
  <2>2. /\ x \in Rows /\ x.kind = "checker" /\ x.user = None /\ x.ip = None
        /\ x.status = InFlight /\ x.age = "day" /\ x.excused = req[r].hit
    BY RequestTyped DEF Rows, RowStates, Ages
  <2>3. i \in RowIds /\ rows[i] = None
    BY DEF Free, Stored
  <2>. HIDE DEF x
  <2>4. OtherRows(i) /\ rows'[i] = x
    BY <2>1, <2>2, <2>3, RowSet
  <2>. QED
    BY <1>1, <2>2, <2>3, <2>4
<1>. QED
  BY <1>2, <1>3

\* A run ends, a row is deleted or grows older: it counts for no more than before.
CountsLess(i) ==
    LET old == rows[i]
        new == rows'[i] IN
    /\ old \in Rows /\ OtherRows(i)
    /\ new # None =>
          /\ new \in Rows /\ new.kind = old.kind /\ new.user = old.user /\ new.ip = old.ip
          /\ new.status \in {InFlight, "done"} => old.status \in {InFlight, "done"}
          /\ new.age = "hour" => old.age = "hour"
          /\ new.age \in {"hour", "day"} => old.age \in {"hour", "day"}
          /\ old.excused => new.excused
          /\ new.status = InFlight => old.status = InFlight
          /\ new.status # InFlight => old.status = InFlight \/ new.cost = old.cost
          /\ new.kind = "checker" /\ new.status = InFlight /\ ~new.excused =>
                new.age = old.age \/ new.age = "day"

LEMMA RowStepsDo ==
  ASSUME TypeOK, NEW i \in RowIds, FinishRun(i) \/ DeleteRow(i) \/ AgeRow(i)
  PROVE  CountsLess(i) /\ UNCHANGED <<asked, used, month, req, started, overlapped>>
<1>0. UNCHANGED <<asked, used, month, req, started, overlapped>>
  BY DEF FinishRun, DeleteRow, AgeRow
<1>1. rows[i] \in Rows /\ rows[i] # None
  BY DEF FinishRun, DeleteRow, AgeRow, Stored, TypeOK
<1>2. CASE rows' = [rows EXCEPT ![i] = None]
  BY <1>0, <1>1, <1>2, RowSet DEF CountsLess
<1>3. CASE FinishRun(i)
  <2>1. PICK s \in {"done", "failed"}, c \in Costs \cup {0} :
           rows' = [rows EXCEPT ![i].status = s, ![i].cost = c]
    BY <1>3 DEF FinishRun
  <2>. DEFINE q == rows[i]
              x == [q EXCEPT !.status = s, !.cost = c]
  <2>2. q \in Rows /\ rows' = [rows EXCEPT ![i] = x] /\ q.status = InFlight
    BY <1>1, <1>3, <2>1 DEF TypeOK, FinishRun
  <2>. HIDE DEF q
  <2>3. /\ x \in Rows /\ x.kind = q.kind /\ x.user = q.user /\ x.ip = q.ip
        /\ x.status = s /\ x.cost = c /\ x.age = q.age /\ x.excused = q.excused
    BY <2>2 DEF Rows, RowStates
  <2>. HIDE DEF x
  <2>4. OtherRows(i) /\ rows'[i] = x
    BY <2>2, <2>3, RowSet
  <2>. QED
    BY <1>0, <2>2, <2>3, <2>4 DEF CountsLess, q, InFlight
<1>4. ASSUME rows[i].age = "hour", rows' = [rows EXCEPT ![i].age = "day"]
      PROVE  CountsLess(i)
  <2>. DEFINE q == rows[i]
              x == [q EXCEPT !.age = "day"]
  <2>2. q \in Rows /\ rows' = [rows EXCEPT ![i] = x] /\ q.age = "hour"
    BY <1>1, <1>4 DEF TypeOK
  <2>. HIDE DEF q
  <2>3. /\ x \in Rows /\ x.kind = q.kind /\ x.user = q.user /\ x.ip = q.ip
        /\ x.status = q.status /\ x.cost = q.cost /\ x.age = "day" /\ x.excused = q.excused
    BY <2>2 DEF Rows, Ages
  <2>. HIDE DEF x
  <2>4. OtherRows(i) /\ rows'[i] = x
    BY <2>2, <2>3, RowSet
  <2>. QED
    BY <2>2, <2>3, <2>4 DEF CountsLess, q
<1>5. ASSUME rows[i].age = "day",
             rows' = [rows EXCEPT ![i].age = "past", ![i].excused =
                        @ \/ (rows[i].kind = "checker" /\ rows[i].status = InFlight)]
      PROVE  CountsLess(i)
  <2>. DEFINE q == rows[i]
              e == q.excused \/ (q.kind = "checker" /\ q.status = InFlight)
              x == [q EXCEPT !.age = "past", !.excused = e]
  <2>1. e \in BOOLEAN
    BY <1>1 DEF Rows
  <2>2. q \in Rows /\ rows' = [rows EXCEPT ![i] = x] /\ q.age = "day"
    BY <1>1, <1>5 DEF TypeOK
  <2>. HIDE DEF q, e
  <2>3. /\ x \in Rows /\ x.kind = q.kind /\ x.user = q.user /\ x.ip = q.ip
        /\ x.status = q.status /\ x.cost = q.cost /\ x.age = "past" /\ x.excused = e
    BY <2>1, <2>2 DEF Rows, Ages
  <2>. HIDE DEF x
  <2>4. OtherRows(i) /\ rows'[i] = x
    BY <2>2, <2>3, RowSet
  <2>. QED
    BY <2>2, <2>3, <2>4 DEF CountsLess, q, e
<1>. QED
  BY <1>0, <1>2, <1>3, <1>4, <1>5 DEF DeleteRow, AgeRow

-----------------------------------------------------------------------------
(***************************************************************************)
(* Type correctness.                                                       *)
(***************************************************************************)
RequestAsks(r) ==
    \/ \E a \in Ips : (\E u \in Users : Submit(r, u, a))
                   \/ (\E b \in Brands : SubmitChecker(r, a, b))
\* The statements after which a request has passed no further gate.
Reads(r) ==
    \/ RequestAsks(r) \/ RollBack(r) \/ PeekCache(r) \/ CheckCheckerIp(r) \/ CheckBrand(r)

LEMMA ReadsDo ==
  ASSUME TypeOK, NEW r \in Requests, Reads(r)
  PROVE  /\ UNCHANGED <<rows, asked, used, month, started, overlapped>>
         /\ OthersStay(r)
         /\ \/ req'[r].pc \in {"idle", "rate", "peek", "limits", "brand", "cost"}
            \/ req'[r].pc = "create" /\ req'[r].hit
<1>1. CASE RequestAsks(r)
  BY <1>1, SubmitsDo DEF RequestAsks
<1>2. CASE RollBack(r) \/ PeekCache(r) \/ CheckCheckerIp(r) \/ CheckBrand(r)
  BY <1>2, ChecksDo, PeekDoes, IdleFields DEF Ends, Moves
<1>. QED
  BY <1>1, <1>2 DEF Reads

LEMMA TypeStep ==
  ASSUME TypeOK, [Next]_vars
  PROVE  TypeOK'
<1>0. /\ rows \in [RowIds -> Rows \cup {None}] /\ asked \in [Ips -> Nat]
      /\ used \in [Months -> Nat] /\ month \in Months /\ started \in [Months -> Nat]
      /\ overlapped \in BOOLEAN
  BY DEF TypeOK
<1>1. CASE UNCHANGED vars
  BY <1>1 DEF TypeOK, vars
<1>2. ASSUME NEW r \in Requests, Reads(r) PROVE TypeOK'
  BY <1>0, <1>2, ReadsDo DEF TypeOK, OthersStay, Asking, Pcs
<1>3. ASSUME NEW r \in Requests,
             CheckRate(r) \/ CheckDailyCap(r) \/ EnforceUserLimit(r) \/ CheckCost(r)
      PROVE  TypeOK'
  BY <1>0, <1>3, ChecksDo DEF TypeOK, OthersStay, Moves, Ends, Asking, Pcs
<1>4. ASSUME NEW r \in Requests, CheckQuota(r) PROVE TypeOK'
  <2>1. overlapped' \in BOOLEAN
    BY <1>0, <1>4 DEF CheckQuota
  <2>. QED
    BY <1>0, <1>4, <2>1, ChecksDo DEF TypeOK, OthersStay, Moves, Ends, Asking, Pcs
<1>5. ASSUME NEW r \in Requests, ReadCounter(r) PROVE TypeOK'
  BY <1>0, <1>5, ReadCounterDoes DEF TypeOK, OthersStay, Asking, Pcs
<1>6. ASSUME NEW r \in Requests, CreateAnalysis(r) PROVE TypeOK'
  <2>1. /\ OthersStay(r) /\ UNCHANGED <<asked, month, overlapped>>
        /\ used' = [used EXCEPT ![req[r].window] = req[r].seen + 1]
        /\ started' = [started EXCEPT ![req[r].window] = @ + 1]
        /\ rows' \in [RowIds -> Rows \cup {None}]
    BY <1>6, CreateAnalysisDoes DEF Ends, OtherRows
  <2>2. used' \in [Months -> Nat] /\ started' \in [Months -> Nat]
    BY <1>0, <2>1, RequestTyped
  <2>. QED
    BY <1>0, <2>1, <2>2 DEF TypeOK, OthersStay, Asking, Pcs
<1>7. ASSUME NEW r \in Requests, CreateChecker(r) PROVE TypeOK'
  BY <1>0, <1>7, CreateCheckerDoes DEF TypeOK, OthersStay, Ends, OtherRows, Asking, Pcs
<1>8. ASSUME NEW i \in RowIds, FinishRun(i) \/ DeleteRow(i) \/ AgeRow(i) PROVE TypeOK'
  BY <1>0, <1>8, RowStepsDo DEF TypeOK, CountsLess, OtherRows
<1>9. ASSUME NEW a \in Ips, AgeSubmission(a) PROVE TypeOK'
  <2>1. asked' \in [Ips -> Nat]
    BY <1>0, <1>9 DEF AgeSubmission
  <2>. QED
    BY <1>9, <2>1 DEF TypeOK, AgeSubmission
<1>10. CASE NextMonth
  BY <1>10 DEF TypeOK, NextMonth
<1>. QED
  BY <1>1, <1>2, <1>3, <1>4, <1>5, <1>6, <1>7, <1>8, <1>9, <1>10
  DEF Next, Reads, RequestAsks

LEMMA TypeInit == Init => TypeOK
<1>. SUFFICES ASSUME Init PROVE TypeOK
  OBVIOUS
<1>1. /\ rows \in [RowIds -> Rows \cup {None}] /\ asked \in [Ips -> Nat]
      /\ used \in [Months -> Nat] /\ started \in [Months -> Nat]
      /\ month \in Months /\ overlapped \in BOOLEAN
  BY Constants DEF Init
<1>2. req \in [Requests -> Asking]
  BY IdleFields DEF Init
<1>. QED
  BY <1>1, <1>2 DEF TypeOK, Asking, Pcs

-----------------------------------------------------------------------------
(***************************************************************************)
(* The gates of a signed-in submission.                                    *)
(***************************************************************************)
LEMMA FiniteSets ==
  /\ Stored \subseteq RowIds /\ IsFiniteSet(Stored)
  /\ \A u : IsFiniteSet(Held(u)) /\ IsFiniteSet(FromIp(u))
  /\ IsFiniteSet(Today) /\ IsFiniteSet(SignedInToday) /\ SignedInToday \subseteq Today
  /\ \A u : /\ IsFiniteSet(PassedStock(u)) /\ PassedStock(u) \subseteq Requests
            /\ IsFiniteSet(PassedRate(u)) /\ PassedRate(u) \subseteq Requests
  /\ IsFiniteSet(PassedDaily) /\ PassedDaily \subseteq Requests
  /\ IsFiniteSet(PassedCost) /\ PassedCost \subseteq Requests
  /\ Overshoot \in Int
<1>1. Stored \subseteq RowIds /\ IsFiniteSet(RowIds) /\ IsFiniteSet(Requests)
  BY Constants DEF Stored
<1>2. /\ IsFiniteSet(Stored) /\ \A u : Held(u) \subseteq RowIds /\ FromIp(u) \subseteq RowIds
      /\ Today \subseteq RowIds /\ SignedInToday \subseteq RowIds
      /\ SignedInToday \subseteq Today
  BY <1>1, Sizes DEF Held, FromIp, Today, SignedInToday
<1>3. /\ \A u : PassedStock(u) \subseteq Requests /\ PassedRate(u) \subseteq Requests
      /\ PassedDaily \subseteq Requests /\ PassedCost \subseteq Requests
  BY DEF PassedStock, PassedRate, PassedDaily, PassedCost
<1>4. Overshoot \in Int
  BY <1>1, FS_CardinalityType DEF Overshoot
<1>. QED
  BY <1>1, <1>2, <1>3, <1>4, Sizes

\* A row that is set free, ends or grows older counts nowhere it did not before.
LEMMA RowsShrink ==
  ASSUME TypeOK, NEW i \in RowIds, CountsLess(i)
  PROVE  /\ \A u : Held(u)' \subseteq Held(u) /\ FromIp(u)' \subseteq FromIp(u)
         /\ SignedInToday' \subseteq SignedInToday
<1>1. rows[i] # None
  BY Constants DEF CountsLess
<1>2. \A k \in Stored' : k \in Stored /\ (k # i => rows'[k] = rows[k])
  BY <1>1 DEF CountsLess, OtherRows, Stored
<1>. QED
  BY <1>1, <1>2, Constants DEF CountsLess, Stored, Held, FromIp, SignedInToday, Today

\* A new row counts for whoever asked for it.
LEMMA RowsGrow ==
  ASSUME TypeOK, NEW i \in RowIds, rows[i] = None, OtherRows(i), rows'[i] \in Rows
  PROVE  /\ \A u : /\ Held(u)' \subseteq Held(u) \cup {i}
                   /\ rows'[i].user # u => Held(u)' \subseteq Held(u)
                   /\ FromIp(u)' \subseteq FromIp(u) \cup {i}
                   /\ rows'[i].ip # u => FromIp(u)' \subseteq FromIp(u)
         /\ SignedInToday' \subseteq SignedInToday \cup {i}
         /\ rows'[i].kind # "mvp" => SignedInToday' \subseteq SignedInToday
<1>1. \A k \in Stored' : k # i => k \in Stored /\ rows'[k] = rows[k]
  BY DEF OtherRows, Stored
<1>. QED
  BY <1>1 DEF Held, FromIp, SignedInToday, Today, Stored

\* Whoever ends, or asks anew, has passed nothing.
LEMMA PassedRest ==
  ASSUME TypeOK, NEW r \in Requests, OthersStay(r)
  PROVE  /\ req'[r].pc \notin {"quota", "count", "commit"} =>
               \A u : PassedStock(u)' \subseteq PassedStock(u) \ {r}
         /\ req'[r].pc \notin {"daily", "stock", "quota", "count", "commit"} =>
               \A u : PassedRate(u)' \subseteq PassedRate(u) \ {r}
         /\ req'[r].pc \notin {"stock", "quota", "count", "commit"} =>
               PassedDaily' \subseteq PassedDaily \ {r}
         /\ /\ req'[r].user = req[r].user
            /\ req[r].pc \in {"quota", "count", "commit"}
            => \A u : PassedStock(u)' \subseteq PassedStock(u)
         /\ /\ req'[r].ip = req[r].ip
            /\ req[r].pc \in {"daily", "stock", "quota", "count", "commit"}
            => \A u : PassedRate(u)' \subseteq PassedRate(u)
         /\ req[r].pc \in {"stock", "quota", "count", "commit"}
            => PassedDaily' \subseteq PassedDaily
         /\ \A u : u # req'[r].user => PassedStock(u)' \subseteq PassedStock(u)
         /\ \A u : u # req'[r].ip => PassedRate(u)' \subseteq PassedRate(u)
  BY DEF OthersStay, PassedStock, PassedRate, PassedDaily

\* The rows no step of a request but an insert writes.
LEMMA SameRows ==
  ASSUME UNCHANGED rows
  PROVE  /\ \A u : Held(u)' = Held(u) /\ FromIp(u)' = FromIp(u)
         /\ SignedInToday' = SignedInToday
  BY DEF Held, FromIp, SignedInToday, Today, Stored

\* The three limits, by whoever counts against them.
StockGate(u) == Cardinality(Held(u)) + Cardinality(PassedStock(u)) <= StockLimit + Overshoot
HourGate(a) == Cardinality(FromIp(a)) + Cardinality(PassedRate(a)) <= HourLimit + Overshoot

LEMMA Bounds ==
  /\ StockLimit + Overshoot \in Int /\ HourLimit + Overshoot \in Int
  /\ DayCap + Overshoot \in Int
  /\ StockLimit \in Nat /\ HourLimit \in Nat /\ DayCap \in Nat
  BY FiniteSets, Constants

LEMMA GatesKept ==
  /\ \A u : /\ StockGate(u) /\ Held(u)' \subseteq Held(u)
            /\ PassedStock(u)' \subseteq PassedStock(u)
            => StockGate(u)'
  /\ \A a : /\ HourGate(a) /\ FromIp(a)' \subseteq FromIp(a)
            /\ PassedRate(a)' \subseteq PassedRate(a)
            => HourGate(a)'
  /\ /\ DayInv /\ SignedInToday' \subseteq SignedInToday /\ PassedDaily' \subseteq PassedDaily
     => DayInv'
<1>1. ASSUME NEW u, StockGate(u), Held(u)' \subseteq Held(u),
             PassedStock(u)' \subseteq PassedStock(u)
      PROVE  StockGate(u)'
  <2>1. Cardinality(Held(u)') + Cardinality(PassedStock(u)') <= StockLimit + Overshoot
    BY <1>1, Bounds, FiniteSets, GateKept DEF StockGate
  <2>. QED
    BY <2>1 DEF StockGate, Overshoot
<1>2. ASSUME NEW a, HourGate(a), FromIp(a)' \subseteq FromIp(a),
             PassedRate(a)' \subseteq PassedRate(a)
      PROVE  HourGate(a)'
  <2>1. Cardinality(FromIp(a)') + Cardinality(PassedRate(a)') <= HourLimit + Overshoot
    BY <1>2, Bounds, FiniteSets, GateKept DEF HourGate
  <2>. QED
    BY <2>1 DEF HourGate, Overshoot
<1>3. ASSUME DayInv, SignedInToday' \subseteq SignedInToday, PassedDaily' \subseteq PassedDaily
      PROVE  DayInv'
  <2>1. Cardinality(SignedInToday') + Cardinality(PassedDaily') <= DayCap + Overshoot
    BY <1>3, Bounds, FiniteSets, GateKept DEF DayInv
  <2>. QED
    BY <2>1 DEF DayInv, Overshoot
<1>. QED
  BY <1>1, <1>2, <1>3

\* The insert of one who passed.
LEMMA GatesAtInsert ==
  ASSUME TypeOK, NEW r \in Requests, CreateAnalysis(r)
  PROVE  /\ \A u \in Users : StockGate(u) => StockGate(u)'
         /\ \A a \in Ips : HourGate(a) => HourGate(a)'
         /\ DayInv => DayInv'
<1>1. /\ req[r].pc = "commit" /\ OthersStay(r) /\ req'[r].pc = "idle"
  BY CreateAnalysisDoes, IdleFields DEF Ends
<1>2. PICK i \in RowIds :
         /\ rows[i] = None /\ OtherRows(i) /\ rows'[i] \in Rows
         /\ rows'[i].user = req[r].user /\ rows'[i].ip = req[r].ip
  BY CreateAnalysisDoes
<1>3. ASSUME NEW u \in Users, StockGate(u) PROVE StockGate(u)'
  <2>1. PassedStock(u)' \subseteq PassedStock(u) \ {r}
    BY <1>1, PassedRest
  <2>2. CASE req[r].user # u
    <3>1. Held(u)' \subseteq Held(u)
      BY <1>2, <2>2, RowsGrow
    <3>. QED
      BY <1>3, <2>1, <3>1, GatesKept
  <2>3. CASE req[r].user = u
    <3>1. r \in PassedStock(u)
      BY <1>1, <2>3 DEF PassedStock
    <3>2. Held(u)' \subseteq Held(u) \cup {i}
      BY <1>2, RowsGrow
    <3>3. Cardinality(Held(u)') + Cardinality(PassedStock(u)') <= StockLimit + Overshoot
      BY <1>3, <2>1, <3>1, <3>2, Bounds, FiniteSets, GateInserted DEF StockGate
    <3>. QED
      BY <3>3 DEF StockGate, Overshoot
  <2>. QED
    BY <2>2, <2>3
<1>4. ASSUME NEW a \in Ips, HourGate(a) PROVE HourGate(a)'
  <2>1. PassedRate(a)' \subseteq PassedRate(a) \ {r}
    BY <1>1, PassedRest
  <2>2. CASE req[r].ip # a
    <3>1. FromIp(a)' \subseteq FromIp(a)
      BY <1>2, <2>2, RowsGrow
    <3>. QED
      BY <1>4, <2>1, <3>1, GatesKept
  <2>3. CASE req[r].ip = a
    <3>1. r \in PassedRate(a)
      BY <1>1, <2>3 DEF PassedRate
    <3>2. FromIp(a)' \subseteq FromIp(a) \cup {i}
      BY <1>2, RowsGrow
    <3>3. Cardinality(FromIp(a)') + Cardinality(PassedRate(a)') <= HourLimit + Overshoot
      BY <1>4, <2>1, <3>1, <3>2, Bounds, FiniteSets, GateInserted DEF HourGate
    <3>. QED
      BY <3>3 DEF HourGate, Overshoot
  <2>. QED
    BY <2>2, <2>3
<1>5. ASSUME DayInv PROVE DayInv'
  <2>1. PassedDaily' \subseteq PassedDaily \ {r} /\ r \in PassedDaily
    BY <1>1, PassedRest DEF PassedDaily
  <2>2. SignedInToday' \subseteq SignedInToday \cup {i}
    BY <1>2, RowsGrow
  <2>3. Cardinality(SignedInToday') + Cardinality(PassedDaily') <= DayCap + Overshoot
    BY <1>5, <2>1, <2>2, Bounds, FiniteSets, GateInserted DEF DayInv
  <2>. QED
    BY <2>3 DEF DayInv, Overshoot
<1>. QED
  BY <1>3, <1>4, <1>5

\* The checks themselves: who passes found room.
LEMMA GatesAtChecks ==
  ASSUME TypeOK, NEW r \in Requests
  PROVE  /\ EnforceUserLimit(r) =>
               \A u \in Users : StockGate(u) => StockGate(u)'
         /\ CheckRate(r) => \A a \in Ips : HourGate(a) => HourGate(a)'
         /\ CheckDailyCap(r) /\ DayInv => DayInv'
<1>1. ASSUME EnforceUserLimit(r), NEW u \in Users, StockGate(u) PROVE StockGate(u)'
  <2>1. /\ OthersStay(r) /\ UNCHANGED rows /\ req[r].pc = "stock"
        /\ \/ req'[r].pc = "idle"
           \/ Moves(r, "quota") /\ Cardinality(Held(req[r].user)) < StockLimit
    BY <1>1, ChecksDo, IdleFields DEF Ends, Moves
  <2>2. CASE req'[r].pc = "idle" \/ u # req'[r].user
    BY <1>1, <2>1, <2>2, SameRows, PassedRest, GatesKept
  <2>3. CASE req'[r].pc # "idle" /\ u = req'[r].user
    <3>1. Cardinality(Held(u)') < StockLimit
      BY <2>1, <2>3, SameRows DEF Moves
    <3>2. PassedStock(u)' \subseteq Requests
      BY DEF PassedStock
    <3>3. IsFiniteSet(Held(u)')
      BY <2>1, SameRows, FiniteSets
    <3>4. Cardinality(Held(u)') + Cardinality(PassedStock(u)') <= StockLimit + Overshoot
      BY <3>1, <3>2, <3>3, Bounds, GatePassed
    <3>. QED
      BY <3>4 DEF StockGate, Overshoot
  <2>. QED
    BY <2>2, <2>3
<1>2. ASSUME CheckRate(r), NEW a \in Ips, HourGate(a) PROVE HourGate(a)'
  <2>1. /\ OthersStay(r) /\ UNCHANGED rows /\ req[r].pc = "rate"
        /\ \/ req'[r].pc = "idle"
           \/ Moves(r, "daily") /\ Cardinality(FromIp(req[r].ip)) < HourLimit
    BY <1>2, ChecksDo, IdleFields DEF Ends, Moves
  <2>2. CASE req'[r].pc = "idle" \/ a # req'[r].ip
    BY <1>2, <2>1, <2>2, SameRows, PassedRest, GatesKept
  <2>3. CASE req'[r].pc # "idle" /\ a = req'[r].ip
    <3>1. Cardinality(FromIp(a)') < HourLimit
      BY <2>1, <2>3, SameRows DEF Moves
    <3>2. PassedRate(a)' \subseteq Requests
      BY DEF PassedRate
    <3>3. IsFiniteSet(FromIp(a)')
      BY <2>1, SameRows, FiniteSets
    <3>4. Cardinality(FromIp(a)') + Cardinality(PassedRate(a)') <= HourLimit + Overshoot
      BY <3>1, <3>2, <3>3, Bounds, GatePassed
    <3>. QED
      BY <3>4 DEF HourGate, Overshoot
  <2>. QED
    BY <2>2, <2>3
<1>3. ASSUME CheckDailyCap(r), DayInv PROVE DayInv'
  <2>1. /\ OthersStay(r) /\ UNCHANGED rows /\ req[r].pc = "daily"
        /\ \/ req'[r].pc = "idle"
           \/ Moves(r, "stock") /\ Cardinality(Today) < DayCap
    BY <1>3, ChecksDo, IdleFields DEF Ends, Moves
  <2>2. CASE req'[r].pc = "idle"
    BY <1>3, <2>1, <2>2, SameRows, PassedRest, GatesKept
  <2>3. CASE req'[r].pc # "idle"
    <3>1. Cardinality(SignedInToday') < DayCap
      <4>1. /\ Cardinality(SignedInToday) <= Cardinality(Today)
            /\ Cardinality(SignedInToday) \in Nat /\ Cardinality(Today) \in Nat
        BY FiniteSets, Sizes
      <4>. QED
        BY <2>1, <2>3, <4>1, SameRows, Bounds
    <3>2. PassedDaily' \subseteq Requests
      BY DEF PassedDaily
    <3>3. IsFiniteSet(SignedInToday')
      BY <2>1, SameRows, FiniteSets
    <3>4. Cardinality(SignedInToday') + Cardinality(PassedDaily') <= DayCap + Overshoot
      BY <3>1, <3>2, <3>3, Bounds, GatePassed
    <3>. QED
      BY <3>4 DEF DayInv, Overshoot
  <2>. QED
    BY <2>2, <2>3
<1>. QED
  BY <1>1, <1>2, <1>3
\* A request that was past the gates and goes on, or leaves, with the rows at rest.
LEMMA GatesRest ==
  ASSUME TypeOK, NEW r \in Requests, OthersStay(r), UNCHANGED rows
  PROVE  /\ \/ req'[r].pc \notin {"quota", "count", "commit"}
            \/ req[r].pc \in {"quota", "count", "commit"} /\ req'[r].user = req[r].user
            => \A u : StockGate(u) => StockGate(u)'
         /\ \/ req'[r].pc \notin {"daily", "stock", "quota", "count", "commit"}
            \/ /\ req[r].pc \in {"daily", "stock", "quota", "count", "commit"}
               /\ req'[r].ip = req[r].ip
            => \A a : HourGate(a) => HourGate(a)'
         /\ \/ req'[r].pc \notin {"stock", "quota", "count", "commit"}
            \/ req[r].pc \in {"stock", "quota", "count", "commit"}
            => (DayInv => DayInv')
<1>1. ASSUME \/ req'[r].pc \notin {"quota", "count", "commit"}
             \/ req[r].pc \in {"quota", "count", "commit"} /\ req'[r].user = req[r].user
      PROVE  \A u : PassedStock(u)' \subseteq PassedStock(u)
  BY <1>1, PassedRest
<1>2. ASSUME \/ req'[r].pc \notin {"daily", "stock", "quota", "count", "commit"}
             \/ /\ req[r].pc \in {"daily", "stock", "quota", "count", "commit"}
                /\ req'[r].ip = req[r].ip
      PROVE  \A a : PassedRate(a)' \subseteq PassedRate(a)
  BY <1>2, PassedRest
<1>3. ASSUME \/ req'[r].pc \notin {"stock", "quota", "count", "commit"}
             \/ req[r].pc \in {"stock", "quota", "count", "commit"}
      PROVE  PassedDaily' \subseteq PassedDaily
  BY <1>3, PassedRest
<1>4. /\ \A u : Held(u)' \subseteq Held(u) /\ FromIp(u)' \subseteq FromIp(u)
      /\ SignedInToday' \subseteq SignedInToday
  BY SameRows
<1>. QED
  BY <1>1, <1>2, <1>3, <1>4, GatesKept

AllGates == (\A u \in Users : StockGate(u)) /\ (\A a \in Ips : HourGate(a)) /\ DayInv

LEMMA GatesAre == GatesInv <=> AllGates
  BY DEF GatesInv, StockInv, HourInv, AllGates, StockGate, HourGate

LEMMA GatesStep ==
  ASSUME TypeOK, AllGates, [Next]_vars
  PROVE  AllGates'
<1>1. CASE UNCHANGED <<rows, req>>
  <2>1. /\ \A u : PassedStock(u)' = PassedStock(u) /\ PassedRate(u)' = PassedRate(u)
        /\ PassedDaily' = PassedDaily
    BY <1>1 DEF PassedStock, PassedRate, PassedDaily
  <2>. QED
    BY <1>1, <2>1, SameRows, GatesKept DEF AllGates
<1>2. ASSUME NEW r \in Requests, Reads(r) \/ CheckCost(r) PROVE AllGates'
  <2>1. /\ UNCHANGED rows /\ OthersStay(r)
        /\ req'[r].pc \in {"idle", "rate", "peek", "limits", "brand", "cost", "create"}
    BY <1>2, ReadsDo, ChecksDo, IdleFields DEF Moves, Ends
  <2>. QED
    BY <2>1, GatesRest DEF AllGates
<1>3. ASSUME NEW r \in Requests, CheckRate(r) PROVE AllGates'
  <2>1. /\ UNCHANGED rows /\ OthersStay(r) /\ req'[r].pc \in {"idle", "daily"}
    BY <1>3, ChecksDo, IdleFields DEF Moves, Ends
  <2>. QED
    BY <1>3, <2>1, GatesRest, GatesAtChecks DEF AllGates
<1>4. ASSUME NEW r \in Requests, CheckDailyCap(r) PROVE AllGates'
  <2>1. /\ UNCHANGED rows /\ OthersStay(r) /\ req'[r].pc \in {"idle", "stock"}
        /\ req[r].pc = "daily" /\ (req'[r].pc = "stock" => req'[r].ip = req[r].ip)
    BY <1>4, ChecksDo, IdleFields DEF Moves, Ends
  <2>. QED
    BY <1>4, <2>1, GatesRest, GatesAtChecks DEF AllGates
<1>5. ASSUME NEW r \in Requests, EnforceUserLimit(r) PROVE AllGates'
  <2>1. /\ UNCHANGED rows /\ OthersStay(r) /\ req'[r].pc \in {"idle", "quota"}
        /\ req[r].pc = "stock" /\ (req'[r].pc = "quota" => req'[r].ip = req[r].ip)
    BY <1>5, ChecksDo, IdleFields DEF Moves, Ends
  <2>. QED
    BY <1>5, <2>1, GatesRest, GatesAtChecks DEF AllGates
<1>6. ASSUME NEW r \in Requests, CheckQuota(r) \/ ReadCounter(r) PROVE AllGates'
  <2>1. /\ UNCHANGED rows /\ OthersStay(r) /\ req[r].pc \in {"quota", "count"}
        /\ \/ req'[r].pc = "idle"
           \/ req'[r].ip = req[r].ip /\ req'[r].user = req[r].user
    BY <1>6, ChecksDo, ReadCounterDoes, IdleFields DEF Moves, Ends
  <2>. QED
    BY <2>1, GatesRest DEF AllGates
<1>7. ASSUME NEW r \in Requests, CreateAnalysis(r) PROVE AllGates'
  BY <1>7, GatesAtInsert DEF AllGates
<1>8. ASSUME NEW r \in Requests, CreateChecker(r) PROVE AllGates'
  <2>1. OthersStay(r) /\ req'[r].pc = "idle"
    BY <1>8, CreateCheckerDoes, IdleFields DEF Ends
  <2>2. CASE UNCHANGED rows
    BY <2>1, <2>2, GatesRest DEF AllGates
  <2>3. CASE ~UNCHANGED rows
    <3>1. PICK i \in RowIds :
             /\ rows[i] = None /\ OtherRows(i) /\ rows'[i] \in Rows
             /\ rows'[i].kind = "checker" /\ rows'[i].user = None /\ rows'[i].ip = None
      BY <1>8, <2>3, CreateCheckerDoes
    <3>2. /\ \A u \in Users : Held(u)' \subseteq Held(u)
          /\ \A a \in Ips : FromIp(a)' \subseteq FromIp(a)
          /\ SignedInToday' \subseteq SignedInToday
      BY <3>1, RowsGrow, Constants
    <3>3. /\ \A u : PassedStock(u)' \subseteq PassedStock(u)
          /\ \A u : PassedRate(u)' \subseteq PassedRate(u)
          /\ PassedDaily' \subseteq PassedDaily
      BY <2>1, PassedRest
    <3>. QED
      BY <3>2, <3>3, GatesKept DEF AllGates
  <2>. QED
    BY <2>2, <2>3
<1>9. ASSUME NEW i \in RowIds, FinishRun(i) \/ DeleteRow(i) \/ AgeRow(i) PROVE AllGates'
  <2>1. CountsLess(i) /\ UNCHANGED req
    BY <1>9, RowStepsDo
  <2>2. /\ \A u : PassedStock(u)' = PassedStock(u) /\ PassedRate(u)' = PassedRate(u)
        /\ PassedDaily' = PassedDaily
    BY <2>1 DEF PassedStock, PassedRate, PassedDaily
  <2>3. /\ \A u : Held(u)' \subseteq Held(u) /\ FromIp(u)' \subseteq FromIp(u)
        /\ SignedInToday' \subseteq SignedInToday
    BY <2>1, RowsShrink
  <2>. QED
    BY <2>2, <2>3, GatesKept DEF AllGates
<1>10. ASSUME NEW a \in Ips, AgeSubmission(a) PROVE AllGates'
  BY <1>1, <1>10 DEF AgeSubmission
<1>11. CASE NextMonth
  BY <1>1, <1>11 DEF NextMonth
<1>12. CASE UNCHANGED vars
  BY <1>1, <1>12 DEF vars
<1>. QED
  BY <1>2, <1>3, <1>4, <1>5, <1>6, <1>7, <1>8, <1>9, <1>10, <1>11, <1>12
  DEF Next, Reads, RequestAsks

LEMMA GatesInit == Init => AllGates
<1>. SUFFICES ASSUME Init PROVE AllGates
  OBVIOUS
<1>1. /\ \A u : Held(u) = {} /\ FromIp(u) = {}
      /\ SignedInToday = {}
  BY DEF Init, Stored, Held, FromIp, SignedInToday, Today
<1>2. /\ \A u : PassedStock(u) = {} /\ PassedRate(u) = {}
      /\ PassedDaily = {}
  BY IdleFields DEF Init, PassedStock, PassedRate, PassedDaily
<1>3. Cardinality(Requests) \in Nat /\ Cardinality({}) = 0
  BY Constants, FS_EmptySet, FS_CardinalityType
<1>4. \A limit \in Nat \ {0} : 0 + 0 <= limit + Overshoot
  BY <1>3 DEF Overshoot
<1>5. /\ \A u : Cardinality(Held(u)) = 0 /\ Cardinality(PassedStock(u)) = 0
      /\ \A u : Cardinality(FromIp(u)) = 0 /\ Cardinality(PassedRate(u)) = 0
      /\ Cardinality(SignedInToday) = 0 /\ Cardinality(PassedDaily) = 0
  BY <1>1, <1>2, <1>3
<1>. QED
  BY <1>4, <1>5, Constants DEF AllGates, StockGate, HourGate, DayInv

LEMMA GatesBound == AllGates => LimitsHoldUpToOverlap
<1>. SUFFICES ASSUME AllGates PROVE LimitsHoldUpToOverlap
  OBVIOUS
<1>1. /\ \A u : Cardinality(Held(u)) \in Nat /\ Cardinality(PassedStock(u)) \in Nat
      /\ \A u : Cardinality(FromIp(u)) \in Nat /\ Cardinality(PassedRate(u)) \in Nat
      /\ Cardinality(SignedInToday) \in Nat /\ Cardinality(PassedDaily) \in Nat
  BY FiniteSets, FS_CardinalityType
<1>2. SignedInToday = {i \in Today : rows[i].kind = "mvp"}
  BY DEF SignedInToday
<1>3. ASSUME NEW m \in Nat, NEW n \in Nat, NEW b \in Int, m + n <= b PROVE m <= b
  BY <1>3
<1>. QED
  BY <1>1, <1>2, <1>3, Bounds DEF AllGates, StockGate, HourGate, DayInv, LimitsHoldUpToOverlap

\* A limit checked before the insert is exceeded by at most one row per other
\* request in flight, for any numbers of requests, users and addresses, and
\* whatever is deleted, finished or aged meanwhile (rate_limit.py,
\* user_analysis_limits.py).
THEOREM LimitsHold == Spec => []GatesSound
<1>1. TypeOK /\ AllGates /\ [Next]_vars => (TypeOK /\ AllGates)'
  BY TypeStep, GatesStep
<1>2. Init => TypeOK /\ AllGates
  BY TypeInit, GatesInit
<1>3. TypeOK /\ AllGates => GatesSound
  BY GatesBound DEF GatesSound
<1>. QED
  BY <1>1, <1>2, <1>3, PTL DEF Spec

-----------------------------------------------------------------------------
(***************************************************************************)
(* The month's counter.                                                    *)
(***************************************************************************)
LEMMA Numbers ==
  ASSUME TypeOK
  PROVE  /\ \A m \in Months : used[m] \in Nat /\ started[m] \in Nat /\ m \in Nat
         /\ month \in Months /\ month \in Nat
         /\ \A m : IsFiniteSet(Counting(m)) /\ Counting(m) \subseteq Requests
                   /\ Cardinality(Counting(m)) \in Nat
                   /\ Cardinality(Counting(m)) <= Cardinality(Requests)
         /\ Cardinality(Requests) \in Nat
<1>1. \A m : Counting(m) \subseteq Requests
  BY DEF Counting
<1>. QED
  BY <1>1, Constants, Sizes, FS_CardinalityType DEF TypeOK

\* The limit of a month whose counter lost no increment.
MonthGate(m) == used[m] = started[m] =>
                   used[m] + Cardinality(Counting(m)) <= Quota + Overshoot

LEMMA MonthKept ==
  ASSUME TypeOK, NEW m \in Months, MonthGate(m), used'[m] = used[m], started'[m] = started[m],
         Counting(m)' \subseteq Counting(m)
  PROVE  MonthGate(m)'
<1>1. /\ Cardinality(Counting(m)') <= Cardinality(Counting(m))
      /\ Cardinality(Counting(m)') \in Nat /\ Cardinality(Counting(m)) \in Nat
  BY Numbers, Sizes
<1>2. used[m] \in Nat /\ Overshoot \in Int /\ Quota \in Nat
  BY Numbers, FiniteSets, Constants
<1>. QED
  BY <1>1, <1>2 DEF MonthGate, Overshoot

\* A month with room has it for everybody who found it.
LEMMA MonthWithRoom ==
  ASSUME TypeOK, NEW m \in Months, used'[m] \in Nat, used'[m] + 1 <= Quota
  PROVE  MonthGate(m)'
<1>1. Counting(m)' \subseteq Requests
  BY DEF Counting
<1>2. /\ Cardinality(Counting(m)') <= Cardinality(Requests)
      /\ Cardinality(Counting(m)') \in Nat /\ Cardinality(Requests) \in Nat
  BY <1>1, Constants, Sizes
<1>. QED
  BY <1>2, Constants DEF MonthGate, Overshoot

\* A step that writes no counter, in the same month.
LEMMA CountingRest ==
  ASSUME TypeOK, NEW r \in Requests, OthersStay(r), UNCHANGED month, NEW m \in Months,
         \/ req'[r].pc \notin {"count", "commit"}
         \/ req'[r].pc = "count" /\ m # month
         \/ req'[r].pc = "commit" /\ req[r].pc = "count" /\ req'[r].window = month
  PROVE  Counting(m)' \subseteq Counting(m)
  BY DEF OthersStay, Counting

\* The insert: what it counts was counted on.
LEMMA CounterAtInsert ==
  ASSUME TypeOK, QuotaInv, NEW r \in Requests, CreateAnalysis(r), NEW m \in Months
  PROVE  /\ used'[m] <= started'[m]
         /\ month < m => started'[m] = 0
         /\ MonthGate(m)'
<1>. DEFINE w == req[r].window
            n == req[r].seen
<1>1. /\ req[r].pc = "commit" /\ OthersStay(r) /\ req'[r].pc = "idle" /\ UNCHANGED month
      /\ used' = [used EXCEPT ![w] = n + 1] /\ started' = [started EXCEPT ![w] = @ + 1]
      /\ w \in Months /\ n \in Nat
  BY CreateAnalysisDoes, RequestTyped, IdleFields DEF Ends
<1>2. /\ used[m] <= started[m] /\ (month < m => started[m] = 0) /\ MonthGate(m)
      /\ w <= month /\ n <= started[w] /\ (n = started[w] => used[w] = n)
  BY <1>1 DEF QuotaInv, CounterInv, ReadInv, MonthGate
<1>3. Counting(m)' \subseteq Counting(m)
  BY <1>1, CountingRest
<1>4. used \in [Months -> Nat] /\ started \in [Months -> Nat]
  BY DEF TypeOK
<1>. HIDE DEF w, n
<1>5. CASE m # w
  <2>1. used'[m] = used[m] /\ started'[m] = started[m]
    BY <1>1, <1>4, <1>5
  <2>. QED
    BY <1>2, <1>3, <2>1, MonthKept
<1>6. CASE m = w
  <2>1. used'[m] = n + 1 /\ started'[m] = started[m] + 1
    BY <1>1, <1>4, <1>6
  <2>2. used'[m] <= started'[m] /\ ~(month < m)
    BY <1>1, <1>2, <1>6, <2>1, Numbers
  <2>3. ASSUME used'[m] = started'[m]
        PROVE  used'[m] + Cardinality(Counting(m)') <= Quota + Overshoot
    <3>1. n = started[m] /\ used[m] = n
      BY <1>1, <1>2, <1>6, <2>1, <2>3, Numbers
    <3>2. used[m] + Cardinality(Counting(m)) <= Quota + Overshoot
      BY <1>2, <3>1 DEF MonthGate
    <3>3. r \in Counting(m) /\ Counting(m)' \subseteq Counting(m) \ {r}
      <4>1. r \in Counting(m) /\ r \notin Counting(m)'
        BY <1>1, <1>6 DEF Counting, w
      <4>. QED
        BY <1>3, <4>1
    <3>4. /\ IsFiniteSet(Counting(m) \ {r})
          /\ Cardinality(Counting(m) \ {r}) = Cardinality(Counting(m)) - 1
          /\ Cardinality(Counting(m)) \in Nat
      BY <3>3, Numbers, FS_RemoveElement
    <3>5. /\ Cardinality(Counting(m)') <= Cardinality(Counting(m) \ {r})
          /\ Cardinality(Counting(m)') \in Nat
      BY <3>3, <3>4, Sizes
    <3>6. Overshoot \in Int /\ Quota \in Nat
      BY FiniteSets, Constants
    <3>. QED
      BY <1>1, <2>1, <3>1, <3>2, <3>4, <3>5, <3>6
  <2>. QED
    BY <2>2, <2>3 DEF MonthGate, Overshoot
<1>. QED
  BY <1>5, <1>6

Counters == \A m \in Months :
    used[m] <= started[m] /\ (month < m => started[m] = 0) /\ MonthGate(m)

LEMMA CountersAre == CounterInv <=> Counters
  BY DEF CounterInv, Counters, MonthGate

\* Other steps of requests leave the counters as they were.
LEMMA CountersRest ==
  ASSUME TypeOK, Counters, UNCHANGED <<used, started, month>>,
         \A m \in Months : Counting(m)' \subseteq Counting(m)
  PROVE  Counters'
<1>1. \A m \in Months : MonthGate(m)'
  BY MonthKept DEF Counters
<1>. QED
  BY <1>1 DEF Counters

LEMMA ReadRest ==
  ASSUME TypeOK, ReadInv, AloneInv, NEW r \in Requests, OthersStay(r),
         req'[r].pc \notin {"count", "commit"},
         UNCHANGED <<used, started, month, overlapped>>
  PROVE  ReadInv' /\ AloneInv'
<1>1. ReadInv'
  BY DEF ReadInv, OthersStay
<1>2. AloneInv'
  BY DEF AloneInv, OthersStay
<1>. QED
  BY <1>1, <1>2

LEMMA QuotaStep ==
  ASSUME TypeOK, QuotaInv, [Next]_vars
  PROVE  QuotaInv'
<1>0. Counters /\ ReadInv /\ AloneInv
  BY CountersAre DEF QuotaInv
<1>. SUFFICES Counters' /\ ReadInv' /\ AloneInv'
  BY CountersAre, PTL DEF QuotaInv
<1>. DEFINE Goal == Counters' /\ ReadInv' /\ AloneInv'
<1>1. ASSUME UNCHANGED <<used, started, month, req, overlapped>> PROVE Goal
  <2>1. \A m : Counting(m)' = Counting(m)
    BY <1>1 DEF Counting
  <2>2. Counters'
    BY <1>0, <1>1, <2>1, CountersRest
  <2>. QED
    BY <1>0, <1>1, <2>2 DEF ReadInv, AloneInv
<1>2. ASSUME NEW r \in Requests, OthersStay(r), req'[r].pc \notin {"count", "commit"},
             UNCHANGED <<used, started, month, overlapped>>
      PROVE  Goal
  <2>1. \A m \in Months : Counting(m)' \subseteq Counting(m)
    BY <1>2, CountingRest
  <2>. QED
    BY <1>0, <1>2, <2>1, CountersRest, ReadRest
<1>3. ASSUME NEW r \in Requests,
             \/ Reads(r) \/ CheckRate(r) \/ CheckDailyCap(r) \/ EnforceUserLimit(r)
             \/ CheckCost(r) \/ CreateChecker(r)
      PROVE  Goal
  <2>1. /\ OthersStay(r) /\ req'[r].pc \notin {"count", "commit"}
        /\ UNCHANGED <<used, started, month, overlapped>>
    BY <1>3, ReadsDo, ChecksDo, CreateCheckerDoes, IdleFields DEF Moves, Ends
  <2>. QED
    BY <1>2, <2>1
<1>4. ASSUME NEW r \in Requests, CheckQuota(r) PROVE Goal
  <2>1. /\ OthersStay(r) /\ UNCHANGED <<used, month, started>>
        /\ \/ req'[r].pc = "idle"
           \/ req'[r].pc = "count" /\ used[month] + 1 <= Quota
        /\ req[r].pc = "quota"
        /\ overlapped' = (overlapped \/ \E q \in Requests : req[q].pc \in {"count", "commit"})
    BY <1>4, ChecksDo, IdleFields DEF Moves, Ends, CheckQuota
  <2>2. Counters'
    <3>1. ASSUME NEW m \in Months PROVE MonthGate(m)'
      <4>1. CASE req'[r].pc = "idle" \/ m # month
        <5>1. Counting(m)' \subseteq Counting(m)
          BY <2>1, <4>1, CountingRest
        <5>. QED
          BY <1>0, <2>1, <5>1, MonthKept DEF Counters
      <4>2. CASE req'[r].pc # "idle" /\ m = month
        <5>1. used'[m] \in Nat /\ used'[m] + 1 <= Quota
          BY <2>1, <4>2, Numbers
        <5>. QED
          BY <5>1, MonthWithRoom
      <4>. QED
        BY <4>1, <4>2
    <3>. QED
      BY <1>0, <2>1, <3>1 DEF Counters
  <2>3. ReadInv'
    BY <1>0, <2>1 DEF ReadInv, OthersStay
  <2>4. AloneInv'
    <3>1. SUFFICES ASSUME ~overlapped' PROVE
                   /\ \A q, s \in Requests :
                         {req'[q].pc, req'[s].pc} \subseteq {"count", "commit"} => q = s
                   /\ \A m \in Months : used'[m] = started'[m] /\ used'[m] <= Quota
                   /\ \A q \in Requests :
                         /\ req'[q].pc = "count" => used'[month'] < Quota
                         /\ req'[q].pc = "commit" =>
                               req'[q].seen = used'[req'[q].window] /\ req'[q].seen < Quota
      BY DEF AloneInv
    <3>2. ~overlapped /\ \A q \in Requests : req[q].pc \notin {"count", "commit"}
      BY <2>1, <3>1
    <3>3. \A q \in Requests : req'[q].pc \in {"count", "commit"} =>
             q = r /\ req'[q].pc = "count" /\ used[month] + 1 <= Quota
      BY <2>1, <3>2 DEF OthersStay
    <3>4. used[month] \in Nat /\ Quota \in Nat
      BY Numbers, Constants
    <3>. QED
      BY <1>0, <2>1, <3>2, <3>3, <3>4 DEF AloneInv
  <2>. QED
    BY <2>2, <2>3, <2>4
<1>5. ASSUME NEW r \in Requests, ReadCounter(r) PROVE Goal
  <2>1. /\ req[r].pc = "count" /\ UNCHANGED <<used, month, started, overlapped>>
        /\ OthersStay(r) /\ req'[r].pc = "commit" /\ req'[r].window = month
        /\ req'[r].seen = used[month]
    BY <1>5, ReadCounterDoes
  <2>2. Counters'
    <3>1. \A m \in Months : Counting(m)' \subseteq Counting(m)
      BY <2>1, CountingRest
    <3>. QED
      BY <1>0, <2>1, <3>1, CountersRest
  <2>3. ReadInv'
    <3>1. month \in Months /\ month <= month /\ used[month] <= started[month]
      BY <1>0, Numbers DEF Counters
    <3>. QED
      BY <1>0, <2>1, <3>1 DEF ReadInv, OthersStay
  <2>4. AloneInv'
    BY <1>0, <2>1 DEF AloneInv, OthersStay
  <2>. QED
    BY <2>2, <2>3, <2>4
<1>6. ASSUME NEW r \in Requests, CreateAnalysis(r) PROVE Goal
  <2>. DEFINE w == req[r].window
              n == req[r].seen
  <2>1. /\ req[r].pc = "commit" /\ OthersStay(r) /\ req'[r].pc = "idle"
        /\ UNCHANGED <<month, overlapped>>
        /\ used' = [used EXCEPT ![w] = n + 1] /\ started' = [started EXCEPT ![w] = @ + 1]
        /\ w \in Months /\ n \in Nat
    BY <1>6, CreateAnalysisDoes, RequestTyped, IdleFields DEF Ends
  <2>2. Counters'
    BY <1>6, <2>1, CounterAtInsert DEF Counters
  <2>3. /\ used \in [Months -> Nat] /\ started \in [Months -> Nat]
        /\ used'[w] = n + 1 /\ started'[w] = started[w] + 1
        /\ \A m \in Months \ {w} : used'[m] = used[m] /\ started'[m] = started[m]
    BY <2>1 DEF TypeOK
  <2>4. ASSUME NEW q \in Requests, req'[q].pc = "commit"
        PROVE  /\ req'[q].window <= month'
               /\ req'[q].seen <= started'[req'[q].window]
               /\ req'[q].seen = started'[req'[q].window]
                     => used'[req'[q].window] = req'[q].seen
    <3>1. q # r /\ req'[q] = req[q] /\ req[q].pc = "commit"
      BY <2>1, <2>4 DEF OthersStay
    <3>2. /\ req[q].window \in Months /\ req[q].seen \in Nat
          /\ req[q].window <= month /\ req[q].seen <= started[req[q].window]
          /\ req[q].seen = started[req[q].window] => used[req[q].window] = req[q].seen
      BY <1>0, <3>1, RequestTyped DEF ReadInv
    <3>3. CASE req[q].window = w
      <4>1. started[w] \in Nat /\ req[q].seen <= started[w]
        BY <2>1, <3>2, <3>3, Numbers
      <4>2. req[q].seen < started[w] + 1
        BY <3>2, <4>1
      <4>. QED
        BY <2>1, <2>3, <3>1, <3>2, <3>3, <4>1, <4>2
    <3>4. CASE req[q].window # w
      BY <2>1, <2>3, <3>1, <3>2, <3>4
    <3>. QED
      BY <3>3, <3>4
  <2>5. ReadInv'
    BY <2>4 DEF ReadInv
  <2>6. AloneInv'
    <3>1. CASE overlapped
      BY <2>1, <3>1 DEF AloneInv
    <3>2. CASE ~overlapped
      <4>1. \A q \in Requests : req'[q].pc \notin {"count", "commit"}
        BY <1>0, <2>1, <3>2 DEF AloneInv, OthersStay
      <4>2. n = used[w] /\ n < Quota /\ used[w] = started[w]
        BY <1>0, <2>1, <3>2 DEF AloneInv
      <4>3. used'[w] = started'[w] /\ used'[w] <= Quota
        BY <2>1, <2>3, <4>2, Constants
      <4>4. \A m \in Months : used'[m] = started'[m] /\ used'[m] <= Quota
        BY <1>0, <2>3, <3>2, <4>3 DEF AloneInv
      <4>. QED
        BY <4>1, <4>4 DEF AloneInv
    <3>. QED
      BY <3>1, <3>2
  <2>. QED
    BY <2>2, <2>5, <2>6
<1>7. ASSUME NEW i \in RowIds, FinishRun(i) \/ DeleteRow(i) \/ AgeRow(i) PROVE Goal
  BY <1>1, <1>7, RowStepsDo
<1>8. ASSUME NEW a \in Ips, AgeSubmission(a) PROVE Goal
  BY <1>1, <1>8 DEF AgeSubmission
<1>9. ASSUME NextMonth PROVE Goal
  <2>1. /\ month + 1 \in Months /\ month' = month + 1 /\ month \in Nat
        /\ UNCHANGED <<used, started, req, overlapped>>
    BY <1>9, Numbers DEF NextMonth
  <2>2. started[month + 1] = 0 /\ used[month + 1] = 0
    <3>1. /\ used[month + 1] <= started[month + 1] /\ started[month + 1] = 0
          /\ used[month + 1] \in Nat
      BY <1>0, <2>1, Numbers DEF Counters
    <3>. QED
      BY <3>1
  <2>3. ASSUME NEW m \in Months PROVE MonthGate(m)'
    <3>1. CASE m = month + 1
      <4>1. used'[m] \in Nat /\ used'[m] + 1 <= Quota
        BY <2>1, <2>2, <3>1, Constants
      <4>. QED
        BY <4>1, MonthWithRoom
    <3>2. CASE m # month + 1
      <4>1. Counting(m)' \subseteq Counting(m)
        BY <2>1, <3>2 DEF Counting
      <4>. QED
        BY <1>0, <2>1, <4>1, MonthKept DEF Counters
    <3>. QED
      BY <3>1, <3>2
  <2>4. Counters'
    <3>1. \A m \in Months : month + 1 < m => month < m
      BY <2>1, Numbers
    <3>. QED
      BY <1>0, <2>1, <2>3, <3>1 DEF Counters
  <2>5. ReadInv'
    <3>1. ASSUME NEW q \in Requests, req[q].window <= month PROVE req[q].window <= month + 1
      <4>1. req[q].window \in Months /\ month \in Months
        BY RequestTyped, Numbers
      <4>2. req[q].window \in Nat /\ month \in Nat
        BY <4>1, Numbers
      <4>. QED
        BY <3>1, <4>2
    <3>. QED
      BY <1>0, <2>1, <3>1 DEF ReadInv
  <2>6. AloneInv'
    <3>1. used[month + 1] < Quota
      BY <2>2, Constants
    <3>. QED
      BY <1>0, <2>1, <3>1 DEF AloneInv
  <2>. QED
    BY <2>4, <2>5, <2>6
<1>10. ASSUME UNCHANGED vars PROVE Goal
  BY <1>1, <1>10 DEF vars
<1>. HIDE DEF Goal
<1>11. Goal
  BY <1>3, <1>4, <1>5, <1>6, <1>7, <1>8, <1>9, <1>10 DEF Next, Reads, RequestAsks
<1>. QED
  BY <1>11 DEF Goal
LEMMA QuotaInit == Init => QuotaInv
<1>. SUFFICES ASSUME Init PROVE QuotaInv
  OBVIOUS
<1>1. /\ \A m \in Months : used[m] = 0 /\ started[m] = 0
      /\ \A r \in Requests : req[r].pc = "idle"
      /\ overlapped = FALSE
  BY IdleFields DEF Init
<1>2. \A m : Counting(m) = {}
  BY <1>1 DEF Counting
<1>3. \A m : Cardinality(Counting(m)) = 0
  BY <1>2, FS_EmptySet
<1>4. Cardinality(Requests) \in Nat /\ Cardinality(Requests) >= 0
  BY Constants, FS_CardinalityType
<1>5. 0 + 0 <= Quota + Overshoot /\ 0 <= Quota
  BY <1>4, Constants DEF Overshoot
<1>6. CounterInv
  BY <1>1, <1>3, <1>5 DEF CounterInv
<1>7. ReadInv /\ AloneInv
  BY <1>1, <1>5 DEF ReadInv, AloneInv
<1>. QED
  BY <1>6, <1>7 DEF QuotaInv

LEMMA QuotaBound ==
  ASSUME TypeOK, QuotaInv
  PROVE  QuotaCountsRuns
<1>1. ASSUME NEW m \in Months, used[m] = started[m] PROVE used[m] <= Quota + Overshoot
  <2>1. used[m] + Cardinality(Counting(m)) <= Quota + Overshoot
    BY <1>1 DEF QuotaInv, CounterInv
  <2>2. used[m] \in Nat /\ Cardinality(Counting(m)) \in Nat
    BY Numbers
  <2>3. Overshoot \in Int /\ Quota \in Nat
    BY FiniteSets, Constants
  <2>. QED
    BY <2>1, <2>2, <2>3
<1>. QED
  BY <1>1 DEF QuotaInv, CounterInv, AloneInv, QuotaCountsRuns

\* The monthly counter never counts a run that was not committed; while it lost
\* no increment it passes the allowance by one per other request at most, and
\* where no two requests overlapped it is exact (credits.py, consume_quota).
THEOREM QuotaIsHonest == Spec => []QuotaCountsRuns
<1>1. TypeOK /\ QuotaInv /\ [Next]_vars => (TypeOK /\ QuotaInv)'
  BY TypeStep, QuotaStep
<1>2. Init => TypeOK /\ QuotaInv
  BY TypeInit, QuotaInit
<1>3. TypeOK /\ QuotaInv => QuotaCountsRuns
  BY QuotaBound
<1>. QED
  BY <1>1, <1>2, <1>3, PTL DEF Spec
-----------------------------------------------------------------------------
(***************************************************************************)
(* The checker's spending, in cents of its runs.                           *)
(***************************************************************************)
LEMMA Times ==
  ASSUME NEW e \in Nat, NEW m \in Nat, NEW n \in Nat, m <= n
  PROVE  e * m \in Nat /\ e * n \in Nat /\ e * m <= e * n
<1>1. PICK d \in Nat : n = m + d
  <2>1. n - m \in Nat /\ n = m + (n - m)
    OBVIOUS
  <2>. QED
    BY <2>1
<1>2. e * m \in Nat /\ e * n \in Nat /\ e * d \in Nat
  BY <1>1
<1>3. e * n = e * m + e * d
  BY <1>1
<1>. QED
  BY <1>2, <1>3

LEMMA OneLess ==
  ASSUME NEW e \in Nat, NEW n \in Int
  PROVE  e * (n - 1) = e * n - e
  OBVIOUS

Purse(i) == {i} \X (1 .. MaxCost)
PricedCents == {cent \in CheckerRows \X (1 .. MaxCost) : cent[2] <= rows[cent[1]].cost}

LEMMA Purses ==
  /\ \A S : IsFiniteSet(S) => /\ IsFiniteSet(S \X (1 .. MaxCost))
                              /\ Cardinality(S \X (1 .. MaxCost)) = Cardinality(S) * MaxCost
  /\ \A i : IsFiniteSet(Purse(i)) /\ Cardinality(Purse(i)) = MaxCost
<1>1. IsFiniteSet(1 .. MaxCost) /\ Cardinality(1 .. MaxCost) = MaxCost
  <2>1. 1 \in Int /\ MaxCost \in Int /\ ~(1 > MaxCost) /\ MaxCost - 1 + 1 = MaxCost
    BY Constants
  <2>. QED
    BY <2>1, FS_Interval
<1>2. ASSUME NEW S, IsFiniteSet(S)
      PROVE  /\ IsFiniteSet(S \X (1 .. MaxCost))
             /\ Cardinality(S \X (1 .. MaxCost)) = Cardinality(S) * MaxCost
  BY <1>1, <1>2, FS_Product
<1>3. ASSUME NEW i PROVE IsFiniteSet(Purse(i)) /\ Cardinality(Purse(i)) = MaxCost
  <2>1. IsFiniteSet({i}) /\ Cardinality({i}) = 1
    BY FS_Singleton
  <2>2. 1 * MaxCost = MaxCost
    BY Constants
  <2>. QED
    BY <1>2, <2>1, <2>2 DEF Purse
<1>. QED
  BY <1>2, <1>3

LEMMA SpentFinite ==
  /\ IsFiniteSet(Spent) /\ Cardinality(Spent) \in Nat
  /\ IsFiniteSet(PricedCents) /\ Cardinality(PricedCents) \in Nat
  /\ IsFiniteSet(QueuedToday) /\ Cardinality(QueuedToday) \in Nat
  /\ Cardinality(PassedCost) \in Nat /\ Cardinality(Requests) \in Nat
  /\ Cardinality(PassedCost) <= Cardinality(Requests)
<1>1. CheckerRows \subseteq RowIds /\ QueuedToday \subseteq RowIds
  BY DEF CheckerRows, QueuedToday, Stored
<1>2. Spent \subseteq RowIds \X (1 .. MaxCost) /\ PricedCents \subseteq RowIds \X (1 .. MaxCost)
  BY <1>1 DEF Spent, PricedCents
<1>3. IsFiniteSet(RowIds \X (1 .. MaxCost))
  BY Constants, Purses
<1>. QED
  BY <1>1, <1>2, <1>3, Constants, Sizes, FiniteSets

\* A factor that is at least the estimate turns a projection into a bound.
LEMMA FactorBounds ==
  ASSUME NEW e \in Nat, NEW m \in Nat, e <= m, NEW outlay \in Nat, NEW priced \in Nat,
         NEW queued \in Nat, outlay <= priced + queued * m
  PROVE  /\ priced + e * queued \in Nat /\ e * outlay \in Nat
         /\ e * outlay <= m * (priced + e * queued)
<1>1. /\ e * outlay \in Nat /\ priced + queued * m \in Nat /\ e * priced \in Nat
      /\ m * priced \in Nat /\ e * queued \in Nat /\ m * (e * queued) \in Nat
  OBVIOUS
<1>2. e * outlay <= e * (priced + queued * m)
  BY <1>1, Times
<1>3. /\ e * (priced + queued * m) = e * priced + m * (e * queued)
      /\ m * (priced + e * queued) = m * priced + m * (e * queued)
  OBVIOUS
<1>4. priced * e <= priced * m
  BY Times
<1>. QED
  BY <1>1, <1>2, <1>3, <1>4

\* What the cost check projects covers what was spent.
LEMMA SpentProjected ==
  ASSUME TypeOK, InFlightToday
  PROVE  /\ Estimate * Cardinality(Spent) <= MaxCost * Projected /\ Projected \in Nat
         /\ Estimate * Cardinality(Spent) \in Nat
<1>. DEFINE Q == QueuedToday \X (1 .. MaxCost)
<1>1. Spent \subseteq PricedCents \cup Q
  <2>1. SUFFICES ASSUME NEW cent \in Spent PROVE cent \in PricedCents \cup Q
    OBVIOUS
  <2>2. /\ cent[1] \in CheckerRows /\ ~rows[cent[1]].excused
        /\ cent[2] \in 1 .. MaxCost /\ cent[2] <= Owed(cent[1])
        /\ cent = <<cent[1], cent[2]>>
    BY DEF Spent
  <2>3. CASE rows[cent[1]].status = InFlight
    <3>1. cent[1] \in QueuedToday
      BY <2>2, <2>3 DEF QueuedToday, InFlightToday
    <3>. QED
      BY <2>2, <3>1
  <2>4. CASE rows[cent[1]].status # InFlight
    BY <2>2, <2>4 DEF PricedCents, Owed
  <2>. QED
    BY <2>3, <2>4
<1>2. /\ IsFiniteSet(Q) /\ Cardinality(Q) = Cardinality(QueuedToday) * MaxCost
      /\ IsFiniteSet(PricedCents)
  BY SpentFinite, Purses
<1>. HIDE DEF Q
<1>3. /\ IsFiniteSet(PricedCents \cup Q)
      /\ Cardinality(PricedCents \cup Q) <= Cardinality(PricedCents) + Cardinality(Q)
  <2>1. /\ IsFiniteSet(PricedCents \cup Q) /\ IsFiniteSet(PricedCents \cap Q)
        /\ Cardinality(PricedCents \cup Q) =
              Cardinality(PricedCents) + Cardinality(Q) - Cardinality(PricedCents \cap Q)
    BY <1>2, FS_Union, FS_Intersection
  <2>2. /\ Cardinality(PricedCents \cap Q) \in Nat /\ Cardinality(PricedCents) \in Nat
        /\ Cardinality(Q) \in Nat
    BY <1>2, <2>1, FS_CardinalityType
  <2>. QED
    BY <2>1, <2>2
<1>4. Cardinality(Spent) <= Cardinality(PricedCents \cup Q)
  BY <1>1, <1>3, Sizes
<1>5. /\ Cardinality(PricedCents \cup Q) \in Nat /\ Cardinality(PricedCents) \in Nat
      /\ Cardinality(Q) \in Nat
  BY <1>2, <1>3, FS_CardinalityType
<1>6. Cardinality(Spent) <= Cardinality(PricedCents) + Cardinality(QueuedToday) * MaxCost
  BY <1>2, <1>3, <1>4, <1>5, SpentFinite
<1>7. Projected = Cardinality(PricedCents) + Estimate * Cardinality(QueuedToday)
  BY DEF Projected, Recorded, PricedCents
<1>. QED
  BY <1>6, <1>7, SpentFinite, Constants, FactorBounds

SpendBudget == Estimate * (Cardinality(Spent) + MaxCost * Cardinality(PassedCost))
                 < MaxCost * (CostCap + Estimate * Cardinality(Requests))

\* Less owed, by what was spent and by who passed together, is within the budget.
LEMMA SpendLess ==
  ASSUME SpendBudget, Cardinality(Spent') \in Nat, Cardinality(PassedCost') \in Nat,
         Cardinality(Spent') + MaxCost * Cardinality(PassedCost')
            <= Cardinality(Spent) + MaxCost * Cardinality(PassedCost)
  PROVE  SpendBudget'
<1>. DEFINE owed == Cardinality(Spent) + MaxCost * Cardinality(PassedCost)
            owedNow == Cardinality(Spent') + MaxCost * Cardinality(PassedCost')
<1>1. /\ owed \in Nat /\ owedNow \in Nat /\ owedNow <= owed
      /\ MaxCost * (CostCap + Estimate * Cardinality(Requests)) \in Nat
  BY SpentFinite, Constants
<1>2. Estimate * owed < MaxCost * (CostCap + Estimate * Cardinality(Requests))
  BY DEF SpendBudget
<1>. HIDE DEF owed, owedNow
<1>3. /\ Estimate * owedNow <= Estimate * owed
      /\ Estimate * owedNow \in Nat /\ Estimate * owed \in Nat
  BY <1>1, Constants, Times
<1>4. Estimate * owedNow < MaxCost * (CostCap + Estimate * Cardinality(Requests))
  BY <1>1, <1>2, <1>3
<1>. QED
  BY <1>4 DEF SpendBudget, owedNow

\* A step that spends nothing and lets nobody pass.
LEMMA SpendKept ==
  ASSUME TypeOK, SpendBudget, Spent' \subseteq Spent, PassedCost' \subseteq PassedCost
  PROVE  SpendBudget'
<1>1. /\ Cardinality(Spent') <= Cardinality(Spent) /\ Cardinality(Spent') \in Nat
      /\ Cardinality(PassedCost') <= Cardinality(PassedCost) /\ Cardinality(PassedCost') \in Nat
  BY SpentFinite, FiniteSets, Sizes
<1>2. /\ MaxCost * Cardinality(PassedCost') \in Nat /\ MaxCost * Cardinality(PassedCost) \in Nat
      /\ MaxCost * Cardinality(PassedCost') <= MaxCost * Cardinality(PassedCost)
  BY <1>1, SpentFinite, Constants, Times
<1>. QED
  BY <1>1, <1>2, SpentFinite, SpendLess

LEMMA PassedWithinBudget ==
  ASSUME NEW e \in Nat, NEW m \in Nat, NEW outlay \in Nat, NEW passed \in Nat,
         NEW all \in Nat, passed <= all, NEW cap \in Nat, e * outlay < m * cap
  PROVE  e * (outlay + m * passed) < m * (cap + e * all)
<1>1. /\ e * (outlay + m * passed) = e * outlay + (m * e) * passed
      /\ m * (cap + e * all) = m * cap + (m * e) * all
  OBVIOUS
<1>2. m * e \in Nat
  OBVIOUS
<1>3. (m * e) * passed <= (m * e) * all
  BY <1>2, Times
<1>4. /\ e * outlay \in Nat /\ m * cap \in Nat /\ (m * e) * passed \in Nat
      /\ (m * e) * all \in Nat
  OBVIOUS
<1>. QED
  BY <1>1, <1>3, <1>4

\* Whoever passes the cost check finds the cap unspent.
LEMMA SpendPassed ==
  ASSUME TypeOK, InFlightToday, Projected < CostCap, Spent' = Spent
  PROVE  SpendBudget'
<1>1. PassedCost' \subseteq Requests
  BY DEF PassedCost
<1>2. /\ Cardinality(PassedCost') <= Cardinality(Requests) /\ Cardinality(PassedCost') \in Nat
  BY <1>1, Constants, Sizes
<1>3. Estimate * Cardinality(Spent) < MaxCost * CostCap
  <2>1. /\ Estimate * Cardinality(Spent) <= MaxCost * Projected /\ Projected \in Nat
        /\ Estimate * Cardinality(Spent) \in Nat
    BY SpentProjected
  <2>2. MaxCost * (Projected + 1) <= MaxCost * CostCap
    BY <2>1, Constants, Times
  <2>3. MaxCost * (Projected + 1) = MaxCost * Projected + MaxCost /\ MaxCost \in Nat \ {0}
    BY <2>1, Constants
  <2>4. MaxCost * Projected \in Nat /\ MaxCost * CostCap \in Nat
    BY <2>1, Constants
  <2>. QED
    BY <2>1, <2>2, <2>3, <2>4
<1>4. Cardinality(Spent') \in Nat /\ CostCap \in Nat /\ Estimate \in Nat /\ MaxCost \in Nat
  BY SpentFinite, Constants
<1>5. Estimate * Cardinality(Spent') < MaxCost * CostCap
  BY <1>3
<1>. QED
  BY <1>2, <1>4, <1>5, SpentFinite, PassedWithinBudget DEF SpendBudget

\* A run owes the most it may cost until it is done, and one who passed inserts it.
LEMMA SpendInserted ==
  ASSUME TypeOK, SpendBudget, NEW i, Spent' \subseteq Spent \cup Purse(i),
         NEW r \in PassedCost, PassedCost' \subseteq PassedCost \ {r}
  PROVE  SpendBudget'
<1>1. /\ IsFiniteSet(Spent \cup Purse(i))
      /\ Cardinality(Spent \cup Purse(i)) <= Cardinality(Spent) + MaxCost
  <2>1. /\ IsFiniteSet(Spent) /\ IsFiniteSet(Purse(i)) /\ Cardinality(Purse(i)) = MaxCost
        /\ Cardinality(Spent) \in Nat /\ MaxCost \in Nat
    BY SpentFinite, Purses, Constants
  <2>2. /\ IsFiniteSet(Spent \cup Purse(i)) /\ IsFiniteSet(Spent \cap Purse(i))
        /\ Cardinality(Spent \cup Purse(i)) =
              Cardinality(Spent) + Cardinality(Purse(i)) - Cardinality(Spent \cap Purse(i))
    BY <2>1, FS_Union, FS_Intersection
  <2>3. Cardinality(Spent \cap Purse(i)) \in Nat
    BY <2>2, FS_CardinalityType
  <2>. QED
    BY <2>1, <2>2, <2>3
<1>2. /\ Cardinality(Spent') <= Cardinality(Spent \cup Purse(i)) /\ Cardinality(Spent') \in Nat
      /\ Cardinality(Spent \cup Purse(i)) \in Nat
  BY <1>1, Sizes
<1>3. /\ IsFiniteSet(PassedCost \ {r})
      /\ Cardinality(PassedCost \ {r}) = Cardinality(PassedCost) - 1
  BY FiniteSets, FS_RemoveElement
<1>4. /\ Cardinality(PassedCost') <= Cardinality(PassedCost) - 1
      /\ Cardinality(PassedCost') \in Nat /\ Cardinality(PassedCost) - 1 \in Nat
  BY <1>3, FiniteSets, Sizes
<1>5. /\ MaxCost * Cardinality(PassedCost') <= MaxCost * (Cardinality(PassedCost) - 1)
      /\ MaxCost * Cardinality(PassedCost') \in Nat
  BY <1>4, Constants, Times
<1>6. MaxCost * (Cardinality(PassedCost) - 1) = MaxCost * Cardinality(PassedCost) - MaxCost
  BY Constants, SpentFinite, OneLess
<1>7. /\ Cardinality(Spent) \in Nat /\ MaxCost \in Nat
      /\ MaxCost * Cardinality(PassedCost) \in Nat
  BY SpentFinite, Constants
<1>. QED
  BY <1>1, <1>2, <1>4, <1>5, <1>6, <1>7, SpendLess

\* A run that ends costs no more than a run may.
LEMMA SpentShrinks ==
  ASSUME TypeOK, NEW i \in RowIds, CountsLess(i), InFlightToday
  PROVE  InFlightToday' /\ Spent' \subseteq Spent
<1>1. rows[i] # None /\ rows[i] \in Rows
  BY Constants DEF CountsLess
<1>2. \A k \in Stored' : k \in Stored /\ (k # i => rows'[k] = rows[k])
  BY <1>1 DEF CountsLess, OtherRows, Stored
<1>3. CheckerRows' \subseteq CheckerRows
  BY <1>1, <1>2 DEF CheckerRows, CountsLess, Stored
<1>4. InFlightToday'
  <2>1. SUFFICES ASSUME NEW k \in CheckerRows', rows'[k].status = InFlight, ~rows'[k].excused
                 PROVE  rows'[k].age = "day"
    BY DEF InFlightToday
  <2>2. k \in CheckerRows /\ k \in Stored' /\ rows'[k].kind = "checker" /\ rows'[k] # None
    BY <1>3, <2>1 DEF CheckerRows, Stored
  <2>3. CASE k # i
    BY <1>2, <2>1, <2>2, <2>3 DEF InFlightToday
  <2>4. CASE k = i
    BY <2>1, <2>2, <2>4 DEF CountsLess, InFlightToday
  <2>. QED
    BY <2>3, <2>4
<1>5. Spent' \subseteq Spent
  <2>1. SUFFICES ASSUME NEW cent \in Spent' PROVE cent \in Spent
    OBVIOUS
  <2>. DEFINE k == cent[1]
  <2>2. /\ k \in CheckerRows' /\ ~rows'[k].excused /\ rows'[k] # None
        /\ cent[2] \in 1 .. MaxCost /\ cent = <<k, cent[2]>>
        /\ rows'[k].status = InFlight => cent[2] <= MaxCost
        /\ rows'[k].status # InFlight => cent[2] <= rows'[k].cost
    BY <2>1 DEF Spent, Owed, CheckerRows, Stored
  <2>3. k \in CheckerRows /\ k \in Stored'
    BY <1>3, <2>2 DEF CheckerRows
  <2>. HIDE DEF k
  <2>4. ~rows[k].excused /\ cent[2] <= Owed(k)
    <3>1. CASE k # i
      BY <1>2, <2>2, <2>3, <3>1 DEF Owed
    <3>2. CASE k = i
      BY <2>2, <3>2 DEF CountsLess, Owed
    <3>. QED
      BY <3>1, <3>2
  <2>5. cent \in {n \in CheckerRows : ~rows[n].excused} \X (1 .. MaxCost)
    BY <2>2, <2>3, <2>4
  <2>6. cent[2] <= Owed(cent[1])
    BY <2>4 DEF k
  <2>. QED
    BY <2>5, <2>6 DEF Spent
<1>. QED
  BY <1>4, <1>5

LEMMA SpentGrows ==
  ASSUME TypeOK, NEW i \in RowIds, rows[i] = None, OtherRows(i), rows'[i] \in Rows,
         rows'[i].kind = "checker" /\ rows'[i].status = InFlight => rows'[i].age = "day",
         InFlightToday
  PROVE  /\ InFlightToday' /\ Spent' \subseteq Spent \cup Purse(i)
         /\ rows'[i].kind # "checker" \/ rows'[i].excused => Spent' \subseteq Spent
<1>1. \A k \in Stored' : k # i => k \in Stored /\ rows'[k] = rows[k]
  BY DEF OtherRows, Stored
<1>2. \A k \in CheckerRows' : k # i => k \in CheckerRows /\ rows'[k] = rows[k]
  BY <1>1 DEF CheckerRows
<1>3. InFlightToday'
  BY <1>2 DEF InFlightToday, CheckerRows
<1>4. ASSUME NEW cent \in Spent', cent[1] # i PROVE cent \in Spent
  <2>. DEFINE k == cent[1]
  <2>1. /\ k \in CheckerRows' /\ ~rows'[k].excused
        /\ cent[2] \in 1 .. MaxCost /\ cent = <<k, cent[2]>>
        /\ rows'[k].status = InFlight => cent[2] <= MaxCost
        /\ rows'[k].status # InFlight => cent[2] <= rows'[k].cost
    BY <1>4 DEF Spent, Owed
  <2>2. k \in CheckerRows /\ rows'[k] = rows[k]
    BY <1>2, <1>4, <2>1
  <2>. HIDE DEF k
  <2>3. cent[2] <= Owed(k)
    BY <2>1, <2>2 DEF Owed
  <2>4. cent \in {n \in CheckerRows : ~rows[n].excused} \X (1 .. MaxCost)
    BY <2>1, <2>2
  <2>5. cent[2] <= Owed(cent[1])
    BY <2>3 DEF k
  <2>. QED
    BY <2>4, <2>5 DEF Spent
<1>5. ASSUME NEW cent \in Spent', cent[1] = i
      PROVE  cent \in Purse(i) /\ rows'[i].kind = "checker" /\ ~rows'[i].excused
  BY <1>5 DEF Spent, Purse, CheckerRows
<1>. QED
  BY <1>3, <1>4, <1>5

LEMMA PassedCostRest ==
  ASSUME TypeOK, NEW r \in Requests, OthersStay(r)
  PROVE  /\ req'[r].pc # "create" \/ req'[r].hit => PassedCost' \subseteq PassedCost
         /\ req'[r].pc # "create" => PassedCost' \subseteq PassedCost \ {r}
  BY DEF OthersStay, PassedCost

LEMMA SpentSame ==
  ASSUME UNCHANGED rows
  PROVE  Spent' = Spent /\ (InFlightToday => InFlightToday')
<1>1. CheckerRows' = CheckerRows /\ \A i : Owed(i)' = Owed(i)
  BY DEF CheckerRows, Stored, Owed
<1>. QED
  BY <1>1 DEF Spent, InFlightToday

LEMMA SpendStep ==
  ASSUME TypeOK, SpendInv, [Next]_vars
  PROVE  SpendInv'
<1>0. InFlightToday /\ SpendBudget
  BY DEF SpendInv, SpendBudget
<1>. SUFFICES InFlightToday' /\ SpendBudget'
  BY DEF SpendInv, SpendBudget
<1>. DEFINE Goal == InFlightToday' /\ SpendBudget'
<1>1. ASSUME UNCHANGED <<rows, req>> PROVE Goal
  BY <1>0, <1>1, SpentSame, SpendKept DEF PassedCost
<1>2. ASSUME NEW r \in Requests, OthersStay(r), UNCHANGED rows,
             req'[r].pc # "create" \/ req'[r].hit
      PROVE  Goal
  BY <1>0, <1>2, SpentSame, SpendKept, PassedCostRest
<1>3. ASSUME NEW r \in Requests,
             \/ Reads(r) \/ CheckRate(r) \/ CheckDailyCap(r) \/ EnforceUserLimit(r)
             \/ CheckQuota(r) \/ ReadCounter(r)
      PROVE  Goal
  <2>1. /\ OthersStay(r) /\ UNCHANGED rows
        /\ req'[r].pc # "create" \/ req'[r].hit
    BY <1>3, ReadsDo, ChecksDo, ReadCounterDoes, IdleFields DEF Moves, Ends
  <2>. QED
    BY <1>2, <2>1
<1>4. ASSUME NEW r \in Requests, CheckCost(r) PROVE Goal
  <2>1. OthersStay(r) /\ UNCHANGED rows /\ (Projected < CostCap \/ req'[r].pc # "create")
    BY <1>4, ChecksDo, IdleFields DEF Moves, Ends
  <2>2. CASE req'[r].pc # "create"
    BY <1>2, <2>1, <2>2
  <2>3. CASE Projected < CostCap
    BY <1>0, <2>1, <2>3, SpentSame, SpendPassed
  <2>. QED
    BY <2>1, <2>2, <2>3
<1>5. ASSUME NEW r \in Requests, CreateAnalysis(r) PROVE Goal
  <2>1. OthersStay(r) /\ req'[r].pc # "create"
    BY <1>5, CreateAnalysisDoes, IdleFields DEF Ends
  <2>2. PICK i \in RowIds : /\ rows[i] = None /\ OtherRows(i) /\ rows'[i] \in Rows
                            /\ rows'[i].kind = "mvp"
    BY <1>5, CreateAnalysisDoes
  <2>3. InFlightToday' /\ Spent' \subseteq Spent
    BY <1>0, <2>2, SpentGrows
  <2>. QED
    BY <1>0, <2>1, <2>3, PassedCostRest, SpendKept
<1>6. ASSUME NEW r \in Requests, CreateChecker(r) PROVE Goal
  <2>1. req[r].pc = "create" /\ OthersStay(r) /\ req'[r].pc # "create"
    BY <1>6, CreateCheckerDoes, IdleFields DEF Ends
  <2>2. CASE UNCHANGED rows
    BY <1>2, <2>1, <2>2
  <2>3. CASE ~UNCHANGED rows
    <3>1. PICK i \in RowIds :
             /\ rows[i] = None /\ OtherRows(i) /\ rows'[i] \in Rows
             /\ rows'[i].kind = "checker" /\ rows'[i].age = "day"
             /\ rows'[i].excused = req[r].hit
      BY <1>6, <2>3, CreateCheckerDoes
    <3>2. /\ InFlightToday' /\ Spent' \subseteq Spent \cup Purse(i)
          /\ rows'[i].excused => Spent' \subseteq Spent
      BY <1>0, <3>1, SpentGrows
    <3>3. CASE req[r].hit
      BY <1>0, <2>1, <3>1, <3>2, <3>3, PassedCostRest, SpendKept
    <3>4. CASE ~req[r].hit
      <4>1. r \in PassedCost /\ PassedCost' \subseteq PassedCost \ {r}
        BY <2>1, <3>4, PassedCostRest DEF PassedCost
      <4>. QED
        BY <1>0, <3>2, <4>1, SpendInserted
    <3>. QED
      BY <3>3, <3>4
  <2>. QED
    BY <2>2, <2>3
<1>7. ASSUME NEW i \in RowIds, FinishRun(i) \/ DeleteRow(i) \/ AgeRow(i) PROVE Goal
  <2>1. CountsLess(i) /\ UNCHANGED req
    BY <1>7, RowStepsDo
  <2>2. InFlightToday' /\ Spent' \subseteq Spent
    BY <1>0, <2>1, SpentShrinks
  <2>3. PassedCost' = PassedCost
    BY <2>1 DEF PassedCost
  <2>. QED
    BY <1>0, <2>2, <2>3, SpendKept
<1>8. ASSUME NEW a \in Ips, AgeSubmission(a) PROVE Goal
  BY <1>1, <1>8 DEF AgeSubmission
<1>9. ASSUME NextMonth \/ UNCHANGED vars PROVE Goal
  BY <1>1, <1>9 DEF NextMonth, vars
<1>. HIDE DEF Goal
<1>10. Goal
  BY <1>3, <1>4, <1>5, <1>6, <1>7, <1>8, <1>9 DEF Next, Reads, RequestAsks
<1>. QED
  BY <1>10 DEF Goal

LEMMA SpendInit == Init => SpendInv
<1>. SUFFICES ASSUME Init PROVE SpendInv
  OBVIOUS
<1>1. CheckerRows = {} /\ PassedCost = {}
  BY IdleFields DEF Init, CheckerRows, Stored, PassedCost
<1>2. Spent = {}
  BY <1>1 DEF Spent
<1>3. Cardinality(Spent) = 0 /\ Cardinality(PassedCost) = 0
  BY <1>1, <1>2, FS_EmptySet
<1>4. Estimate * (0 + MaxCost * 0) < MaxCost * (CostCap + Estimate * Cardinality(Requests))
  <2>1. /\ Estimate * (0 + MaxCost * 0) = 0 /\ Estimate * Cardinality(Requests) \in Nat
        /\ CostCap \in Nat \ {0} /\ MaxCost \in Nat \ {0}
    BY Constants, SpentFinite
  <2>2. MaxCost * 1 <= MaxCost * (CostCap + Estimate * Cardinality(Requests))
    BY <2>1, Times
  <2>3. MaxCost * (CostCap + Estimate * Cardinality(Requests)) \in Nat
    BY <2>1
  <2>. QED
    BY <2>1, <2>2, <2>3
<1>. QED
  BY <1>1, <1>3, <1>4 DEF SpendInv, InFlightToday

LEMMA SpendBound ==
  ASSUME TypeOK, SpendInv
  PROVE  SpendBounded
<1>. DEFINE owed == Cardinality(Spent) + MaxCost * Cardinality(PassedCost)
<1>1. /\ Cardinality(Spent) \in Nat /\ owed \in Nat /\ Cardinality(Spent) <= owed
      /\ MaxCost * (CostCap + Estimate * Cardinality(Requests)) \in Nat
  <2>1. MaxCost * Cardinality(PassedCost) \in Nat /\ Cardinality(Spent) \in Nat
    BY SpentFinite, Constants
  <2>. QED
    BY <2>1, SpentFinite, Constants
<1>2. Estimate * owed < MaxCost * (CostCap + Estimate * Cardinality(Requests))
  BY DEF SpendInv
<1>. HIDE DEF owed
<1>3. /\ Estimate * Cardinality(Spent) <= Estimate * owed
      /\ Estimate * Cardinality(Spent) \in Nat /\ Estimate * owed \in Nat
  BY <1>1, Constants, Times
<1>. QED
  BY <1>1, <1>2, <1>3 DEF SpendBounded

\* What the checker spent and may owe exceeds its daily cap, and one run per
\* request that passed the projection at once, only by the factor by which a run
\* exceeds its estimate (checker_daily_cost_exceeded), whatever the cap, the
\* estimate, what runs cost and the number of requests.
THEOREM SpendingIsBounded == Spec => []SpendBounded
<1>1. TypeOK /\ SpendInv /\ [Next]_vars => (TypeOK /\ SpendInv)'
  BY TypeStep, SpendStep
<1>2. Init => TypeOK /\ SpendInv
  BY TypeInit, SpendInit
<1>3. TypeOK /\ SpendInv => SpendBounded
  BY SpendBound
<1>. QED
  BY <1>1, <1>2, <1>3, PTL DEF Spec

-----------------------------------------------------------------------------
(***************************************************************************)
(* The answers.  What records charge is counted in units of price, so that *)
(* a longer table charges the sum of its parts.                            *)
(***************************************************************************)

\* Whole shares: models divide the search evenly, and an answer with what is
\* left over.
LEMMA Divided ==
  ASSUME NEW m \in Nat \ {0}, NEW s \in Nat, s % m = 0
  PROVE  s \div m \in Nat /\ s = m * (s \div m)
  OBVIOUS
LEMMA ShareGrows ==
  ASSUME NEW m \in Nat \ {0}, NEW s \in Nat, s % m = 0, NEW c \in Nat
  PROVE  (s + c) \div m \in Nat /\ (s + c) \div m <= (s \div m) + c
  OBVIOUS
LEMMA ShareOfOne == ASSUME NEW s \in Nat PROVE s \div 1 = s
  OBVIOUS

\* Where the k-th record of a prompt is stored.
LEMMA Place ==
  ASSUME NEW m \in Nat \ {0}, NEW q \in Nat, NEW k \in 1..m
  PROVE  ((q * m + k) - 1) \div m = q /\ ((q * m + k) - 1) % m = k - 1
  OBVIOUS

-----------------------------------------------------------------------------
\* Records that cost whole numbers have finitely many units.
Priced(s) == DOMAIN s = 1..Len(s) /\ Len(s) \in Nat /\ \A i \in 1..Len(s) : s[i].cost \in Nat

LEMMA RecordsPriced == ASSUME NEW s \in Seq(Records) PROVE Priced(s)
<1>1. DOMAIN s = 1..Len(s) /\ Len(s) \in Nat /\ \A i \in 1..Len(s) : s[i] \in Records
  OBVIOUS
<1>2. \A r \in Records : r.cost \in Nat
  BY DEF Records
<1>. QED
  BY <1>1, <1>2 DEF Priced

LEMMA UnitsAre ==
  ASSUME NEW s, Priced(s)
  PROVE  Units(s) = {u \in Nat \X Nat : u[1] \in 1..Len(s) /\ u[2] \in 1..s[u[1]].cost}
  BY DEF Units, Priced

LEMMA OneFinite ==
  ASSUME NEW i, NEW c \in Nat
  PROVE  IsFiniteSet({i} \X (1..c)) /\ Cardinality({i} \X (1..c)) = c
<1>1. 1 \in Int /\ c \in Int
  OBVIOUS
<1>2. IsFiniteSet(1..c) /\ Cardinality(1..c) = c
  BY <1>1, FS_Interval
<1>. DEFINE f == [n \in 1..c |-> <<i, n>>]
<1>3. f \in Bijection(1..c, {i} \X (1..c))
  <2>1. f \in [1..c -> {i} \X (1..c)]
    OBVIOUS
  <2>2. \A p \in {i} \X (1..c) : p[2] \in 1..c /\ f[p[2]] = p
    OBVIOUS
  <2>3. IsInjective(f)
    BY DEF IsInjective
  <2>. QED
    BY <2>1, <2>2, <2>3 DEF Bijection, Injection, Surjection
<1>. QED
  BY <1>2, <1>3, FS_Bijection DEF ExistsBijection

LEMMA UnitsFinite ==
  ASSUME NEW s, Priced(s)
  PROVE  IsFiniteSet(Units(s)) /\ Charged(s) \in Nat
<1>. DEFINE f == [i \in 1..Len(s) |-> {i} \X (1..s[i].cost)]
            F == {{i} \X (1..s[i].cost) : i \in 1..Len(s)}
<1>1. 1 \in Int /\ Len(s) \in Int
  BY DEF Priced
<1>2. IsFiniteSet(1..Len(s))
  BY <1>1, FS_Interval
<1>3. f \in Surjection(1..Len(s), F)
  BY DEF Surjection
<1>4. IsFiniteSet(F)
  BY <1>2, <1>3, FS_Surjection
<1>5. ASSUME NEW T \in F PROVE IsFiniteSet(T)
  <2>1. PICK i \in 1..Len(s) : T = {i} \X (1..s[i].cost)
    OBVIOUS
  <2>2. s[i].cost \in Nat
    BY DEF Priced
  <2>. QED
    BY <2>1, <2>2, OneFinite
<1>6. IsFiniteSet(UNION F)
  BY <1>4, <1>5, FS_UNION
<1>7. Units(s) = UNION F
  BY DEF Units, Priced
<1>. QED
  BY <1>6, <1>7, FS_CardinalityType DEF Charged

\* Records before, and records after them, cost what both cost.
LEMMA ChargedJoined ==
  ASSUME NEW s \in Seq(Records), NEW t \in Seq(Records)
  PROVE  Charged(s \o t) = Charged(s) + Charged(t)
<1>. DEFINE n == Len(s)
            f == [u \in Units(t) |-> <<n + u[1], u[2]>>]
            T == {<<n + u[1], u[2]>> : u \in Units(t)}
<1>1. s \o t \in Seq(Records) /\ n \in Nat /\ Len(t) \in Nat
  OBVIOUS
<1>2. Priced(s) /\ Priced(t) /\ Priced(s \o t)
  BY <1>1, RecordsPriced
<1>3. /\ Len(s \o t) = n + Len(t)
      /\ \A i \in 1..n : (s \o t)[i] = s[i]
      /\ \A i \in 1..Len(t) : (s \o t)[n + i] = t[i]
  BY <1>1
<1>4. f \in Bijection(Units(t), T)
  <2>1. \A u \in Units(t) : u \in Nat \X Nat
    BY <1>2, UnitsAre
  <2>. HIDE DEF n
  <2>2. \A u, v \in Units(t) : <<n + u[1], u[2]>> = <<n + v[1], v[2]>> => u = v
    BY <2>1, <1>1
  <2>. QED
    BY <2>2 DEF Bijection, Injection, IsInjective, Surjection
<1>5. IsFiniteSet(T) /\ Cardinality(T) = Charged(t)
  BY <1>2, <1>4, UnitsFinite, FS_Bijection DEF Charged, ExistsBijection
<1>6. Units(s \o t) = Units(s) \cup T
  <2>. HIDE DEF f
  <2>1. ASSUME NEW u \in Units(s \o t) PROVE u \in Units(s) \cup T
    <3>0. u \in Nat \X Nat /\ u[1] \in 1..Len(s \o t) /\ u[2] \in 1..(s \o t)[u[1]].cost
      BY <1>2, UnitsAre
    <3>1. /\ u \in Nat \X Nat /\ u = <<u[1], u[2]>> /\ u[1] \in 1..n + Len(t)
          /\ u[2] \in 1..(s \o t)[u[1]].cost
      BY <1>3, <3>0
    <3>2. CASE u[1] <= n
      <4>1. u[1] \in 1..n
        BY <1>1, <3>1, <3>2
      <4>2. u[2] \in 1..s[u[1]].cost
        BY <1>3, <3>1, <4>1
      <4>. QED
        BY <1>2, <3>1, <4>1, <4>2, UnitsAre
    <3>3. CASE u[1] > n
      <4>1. u[1] - n \in 1..Len(t) /\ n + (u[1] - n) = u[1]
        BY <1>1, <3>1, <3>3
      <4>2. (s \o t)[u[1]] = t[u[1] - n]
        BY <1>3, <4>1
      <4>3. <<u[1] - n, u[2]>> \in Units(t)
        BY <1>2, <3>1, <4>1, <4>2, UnitsAre
      <4>. QED
        BY <3>1, <4>1, <4>3
    <3>. QED
      BY <1>1, <3>1, <3>2, <3>3
  <2>2. ASSUME NEW u \in Units(s) PROVE u \in Units(s \o t)
    <3>1. u \in Nat \X Nat /\ u[1] \in 1..n /\ u[2] \in 1..s[u[1]].cost
      BY <1>2, UnitsAre
    <3>2. u[1] \in 1..Len(s \o t) /\ u[2] \in 1..(s \o t)[u[1]].cost
      BY <1>1, <1>3, <3>1
    <3>. QED
      BY <1>2, <3>1, <3>2, UnitsAre
  <2>3. ASSUME NEW u \in Units(t) PROVE <<n + u[1], u[2]>> \in Units(s \o t)
    <3>1. u \in Nat \X Nat /\ u[1] \in 1..Len(t) /\ u[2] \in 1..t[u[1]].cost
      BY <1>2, UnitsAre
    <3>2. n + u[1] \in 1..Len(s \o t) /\ u[2] \in 1..(s \o t)[n + u[1]].cost
      BY <1>1, <1>3, <3>1
    <3>3. <<n + u[1], u[2]>> \in Nat \X Nat
      BY <1>1, <3>1
    <3>. QED
      BY <1>2, <3>2, <3>3, UnitsAre
  <2>. QED
    BY <2>1, <2>2, <2>3
<1>7. Units(s) \cap T = {}
  <2>1. \A u \in Units(s) : u[1] <= n
    BY <1>1, <1>2, UnitsAre
  <2>2. \A u \in Units(t) : u[1] \in Nat /\ u[1] >= 1
    BY <1>1, <1>2, UnitsAre
  <2>. QED
    BY <1>1, <2>1, <2>2
<1>8. /\ IsFiniteSet(Units(s)) /\ Charged(s) \in Nat /\ Charged(t) \in Nat
      /\ Cardinality(Units(s) \cap T) = 0
  BY <1>2, <1>7, UnitsFinite, FS_EmptySet
<1>9. Cardinality(Units(s) \cup T) = Cardinality(Units(s)) + Cardinality(T) - 0
  BY <1>5, <1>8, FS_Union
<1>. HIDE DEF T
<1>10. Cardinality(Units(s \o t)) = Charged(s) + Charged(t) - 0
  BY <1>5, <1>6, <1>9 DEF Charged
<1>. QED
  BY <1>8, <1>10 DEF Charged

LEMMA ChargedOnce ==
  ASSUME NEW r \in Records
  PROVE  Charged(<<r>>) = r.cost
<1>1. r.cost \in Nat
  BY DEF Records
<1>2. Units(<<r>>) = {1} \X (1..r.cost)
  BY DEF Units
<1>. QED
  BY <1>1, <1>2, OneFinite DEF Charged

LEMMA ChargedNothing == Charged(<<>>) = 0
<1>1. Units(<<>>) = {}
  BY DEF Units
<1>. QED
  BY <1>1, FS_EmptySet DEF Charged

LEMMA ChargedGrows ==
  ASSUME NEW s \in Seq(Records), NEW r \in Records
  PROVE  Charged(Append(s, r)) = Charged(s) + r.cost
<1>1. Append(s, r) = s \o <<r>> /\ <<r>> \in Seq(Records)
  OBVIOUS
<1>. QED
  BY <1>1, ChargedJoined, ChargedOnce

\* The first records cost no more than all of them.
LEMMA ChargedCut ==
  ASSUME NEW s \in Seq(Records), NEW n \in 0..Len(s)
  PROVE  /\ SubSeq(s, 1, n) \in Seq(Records)
         /\ Charged(SubSeq(s, 1, n)) <= Charged(s)
<1>. DEFINE t == SubSeq(s, 1, n)
<1>1. t \in Seq(Records) /\ Len(t) = n /\ \A i \in 1..n : t[i] = s[i]
  OBVIOUS
<1>2. Priced(s) /\ Priced(t)
  BY <1>1, RecordsPriced
<1>. HIDE DEF t
<1>3. Units(t) \subseteq Units(s)
  BY <1>1, <1>2, UnitsAre
<1>4. Charged(t) <= Charged(s)
  BY <1>2, <1>3, UnitsFinite, FS_Subset DEF Charged
<1>. QED
  BY <1>1, <1>4 DEF t

-----------------------------------------------------------------------------
LEMMA Given ==
  /\ SearchPrice \in Nat /\ AnswerPrice \in Nat /\ RepairPrice \in Nat /\ AuditPrice \in Nat
  /\ MaxResults \in Nat \ {0} /\ MaxModels \in Nat \ {0} /\ MaxPrompts \in Nat \ {0}
  /\ MaxResponses \in Nat
  /\ \A m \in 1..MaxModels : SearchPrice % m = 0
<1>1. {SearchPrice, AnswerPrice, RepairPrice, AuditPrice} \subseteq Nat
  BY PricesAssumption
<1>2. \A m \in 1..MaxModels : SearchPrice % m = 0
  BY PricesAssumption
<1>. QED
  BY <1>1, <1>2, SizesAssumption

LEMMA Shares ==
  ASSUME models \in 1..MaxModels
  PROVE  /\ models \in Nat \ {0}
         /\ Share(SearchPrice) \in Nat /\ SearchPrice = models * Share(SearchPrice)
         /\ \A c \in Nat :
               /\ Share(SearchPrice + c) \in Nat
               /\ Share(SearchPrice + c) <= Share(SearchPrice) + c
               /\ models = 1 => Share(SearchPrice + c) = Share(SearchPrice) + c
<1>1. models \in Nat \ {0} /\ SearchPrice % models = 0 /\ SearchPrice \in Nat
  BY Given
<1>2. Share(SearchPrice) \in Nat /\ SearchPrice = models * Share(SearchPrice)
  BY <1>1, Divided DEF Share
<1>3. ASSUME NEW c \in Nat
      PROVE  /\ Share(SearchPrice + c) \in Nat
             /\ Share(SearchPrice + c) <= Share(SearchPrice) + c
  BY <1>1, ShareGrows DEF Share
<1>4. ASSUME NEW c \in Nat, models = 1
      PROVE  Share(SearchPrice + c) = Share(SearchPrice) + c
  <2>1. SearchPrice + c \in Nat
    BY <1>1
  <2>. QED
    BY <1>1, <1>4, <2>1, ShareOfOne DEF Share
<1>. QED
  BY <1>1, <1>2, <1>3, <1>4

LEMMA NothingFound == <<>> \in BoundedSeq(Pages, MaxResults)
<1>1. <<>> \in [1..0 -> Pages]
  OBVIOUS
<1>2. 0 \in 0..MaxResults
  BY Given
<1>. QED
  BY <1>1, <1>2 DEF BoundedSeq, SeqOf

\* A draft with a settled status may be recorded.
Recordable == {"none", "no_citations", "valid", "repair_failed", "repair_error"}
Stages == {"no", "grounded_answer", "audit_extraction", "simulated_audit"}

LEMMA NothingDrafted ==
  /\ NoDraft \in Drafts /\ NoDraft.status \in Recordable /\ NoDraft.cost = 0
  /\ \A found : Faithful(NoDraft, found)
  BY DEF NoDraft, Drafts, Recordable, Faithful, Settled

LEMMA RecordSound ==
  ASSUME MeasureInv, Len(batch) < models, NEW d \in Drafts, Faithful(d, results),
         d.status \in Recordable, NEW reason \in Stages, NEW cost \in Nat
  PROVE  LET r == Record(d, reason, cost) IN
         /\ r \in Records /\ r.prompt = prompt /\ r.model = Len(batch) + 1
         /\ r.cost = cost /\ Faithful(r, r.results)
<1>1. /\ prompt \in 1..MaxPrompts /\ results \in BoundedSeq(Pages, MaxResults)
      /\ models \in 1..MaxModels /\ Len(batch) \in Nat
  BY DEF MeasureInv, DraftInv, BatchInv, RowsInv
<1>2. Len(batch) + 1 \in 1..MaxModels
  BY <1>1, Given
<1>3. d.cites \in SUBSET Ranks /\ d.marks \in SUBSET Ranks /\ d.own \in BOOLEAN
  BY DEF Drafts
<1>. QED
  BY <1>1, <1>2, <1>3 DEF Record, Records, Faithful, Recordable, Stages

\* The record of one more model.
LEMMA Closes ==
  ASSUME MeasureInv, Len(batch) < models, phase \in {"search", "ask", "extract"},
         NEW r \in Records, r.prompt = prompt, r.model = Len(batch) + 1,
         Faithful(r, r.results), Close(r),
         UNCHANGED <<mode, models, prompt, results, responses>>
  PROVE  /\ DraftInv' /\ BatchInv' /\ RowsInv'
         /\ Charged(batch') = Charged(batch) + r.cost /\ Len(batch') = Len(batch) + 1
         /\ draft' = NoDraft /\ phase' \in {"ask", "persist"}
<1>1. batch \in Seq(Records) /\ models \in Nat
  BY Given DEF MeasureInv, DraftInv, BatchInv
<1>2. /\ batch' = Append(batch, r) /\ draft' = NoDraft
      /\ phase' = IF Len(batch) + 1 < models THEN "ask" ELSE "persist"
  BY DEF Close
<1>3. /\ batch' \in Seq(Records) /\ Len(batch') = Len(batch) + 1 /\ Len(batch) \in Nat
      /\ batch'[Len(batch) + 1] = r
      /\ \A k \in 1..Len(batch) : batch'[k] = batch[k]
  BY <1>1, <1>2
<1>4. BatchInv'
  <2>1. ASSUME NEW k \in 1..Len(batch')
        PROVE  /\ batch'[k].prompt = prompt /\ batch'[k].model = k
               /\ Faithful(batch'[k], batch'[k].results)
    <3>1. CASE k = Len(batch) + 1
      BY <1>3, <3>1
    <3>2. CASE k \in 1..Len(batch)
      BY <1>3, <3>2 DEF MeasureInv, BatchInv
    <3>. QED
      BY <1>3, <3>1, <3>2
  <2>2. phase' = "ask" => Len(batch') < models
    BY <1>2, <1>3
  <2>3. phase' = "persist" => Len(batch') = models
    BY <1>1, <1>2, <1>3
  <2>. QED
    BY <1>2, <1>3, <2>1, <2>2, <2>3 DEF BatchInv, Faithful
<1>5. DraftInv'
  BY <1>2, NothingDrafted DEF MeasureInv, DraftInv, Phases, Faithful
<1>6. RowsInv'
  BY <1>2 DEF MeasureInv, RowsInv, OneRowPerModel, Faithful
<1>. QED
  BY <1>1, <1>2, <1>3, <1>4, <1>5, <1>6, ChargedGrows

\* What the record of one more model charges is its share of the search, its draft
\* and what was paid for it now, or less if something of that was lost.
Due == IF mode = "measured" THEN Share(SearchPrice) + draft.cost ELSE 0

LEMMA Balance ==
  ASSUME NEW a \in Nat, NEW b \in Nat, NEW p \in Nat, NEW q \in Nat, NEW rest \in Nat,
         NEW cost \in Nat, NEW paid \in Nat, NEW s \in Nat
  PROVE  /\ a + b + (p + (rest + q)) <= s /\ cost <= (q + p) + paid =>
               a + (b + cost) + rest <= s + paid
         /\ a + b + (p + (rest + q)) = s /\ cost = (q + p) + paid =>
               a + (b + cost) + rest = s + paid
  OBVIOUS

LEMMA Bills ==
  ASSUME MeasureInv, Len(batch) < models, phase \in {"search", "ask", "extract"},
         mode = "measured" => phase # "search",
         NEW r \in Records, NEW paid \in Nat,
         UNCHANGED <<mode, models, responses>>,
         Charged(batch') = Charged(batch) + r.cost, Len(batch') = Len(batch) + 1,
         draft' = NoDraft, phase' \in {"ask", "persist"},
         phase' = "persist" => Len(batch') = models,
         spent' = spent + paid, wasted' \in BOOLEAN, wasted => wasted',
         r.cost <= Due + paid, models = 1 /\ ~wasted' => r.cost = Due + paid
  PROVE  BillInv'
<1>. DEFINE q == Share(SearchPrice)
<1>1. /\ models \in Nat \ {0} /\ q \in Nat /\ Len(batch) \in Nat /\ draft.cost \in Nat
      /\ spent \in Nat /\ wasted \in BOOLEAN /\ r.cost \in Nat
  BY Shares DEF MeasureInv, DraftInv, BatchInv, BillInv, Drafts, Records
<1>2. Charged(responses) \in Nat /\ Charged(batch) \in Nat
  BY UnitsFinite, RecordsPriced DEF MeasureInv, BatchInv, RowsInv
<1>3. /\ Charged(responses) + Charged(batch) + Pending <= spent
      /\ models = 1 /\ ~wasted => Charged(responses) + Charged(batch) + Pending = spent
  BY DEF MeasureInv, BillInv
<1>4. q = Share(SearchPrice)' /\ NoDraft.cost = 0
  BY NothingDrafted DEF Share
<1>5. CASE mode = "measured"
  <2>1. Pending = draft.cost + (models - Len(batch)) * q
    BY <1>5 DEF Pending
  <2>2. (models - Len(batch)) * q = (models - (Len(batch) + 1)) * q + q
    <3>. HIDE DEF q
    <3>. QED
      BY <1>1
  <2>3. Pending' = (models - (Len(batch) + 1)) * q
    <3>. HIDE DEF q
    <3>1. CASE phase' = "ask"
      BY <1>1, <1>4, <1>5, <3>1 DEF Pending
    <3>2. CASE phase' = "persist"
      <4>1. models - (Len(batch) + 1) = 0
        BY <1>1, <3>2
      <4>2. 0 * q = 0
        BY <1>1
      <4>3. Pending' = 0
        BY <3>2 DEF Pending
      <4>. QED
        BY <4>1, <4>2, <4>3
    <3>. QED
      BY <3>1, <3>2
  <2>4. (models - (Len(batch) + 1)) * q \in Nat
    <3>. HIDE DEF q
    <3>1. models - (Len(batch) + 1) \in Nat
      BY <1>1
    <3>. QED
      BY <1>1, <3>1
  <2>. DEFINE rest == (models - (Len(batch) + 1)) * q
  <2>5. Pending = draft.cost + (rest + q) /\ Pending' = rest /\ rest \in Nat
    BY <2>1, <2>2, <2>3, <2>4
  <2>6. Due = q + draft.cost
    BY <1>5 DEF Due
  <2>7. Charged(responses') = Charged(responses)
    OBVIOUS
  <2>. HIDE DEF rest, q
  <2>. DEFINE a == Charged(responses)
              b == Charged(batch)
              p == draft.cost
              c == r.cost
  <2>0. /\ a \in Nat /\ b \in Nat /\ p \in Nat /\ q \in Nat /\ rest \in Nat /\ c \in Nat
        /\ paid \in Nat /\ spent \in Nat /\ c <= (q + p) + paid
        /\ models = 1 /\ ~wasted' => c = (q + p) + paid
    BY <1>1, <1>2, <2>5, <2>6
  <2>8. /\ a + b + (p + (rest + q)) <= spent => a + (b + c) + rest <= spent + paid
        /\ a + b + (p + (rest + q)) = spent /\ c = (q + p) + paid =>
             a + (b + c) + rest = spent + paid
    <3>. HIDE DEF a, b, p, c
    <3>. QED
      BY <2>0, Balance
  <2>9. /\ spent' \in Nat /\ Charged(responses') + Charged(batch') + Pending' <= spent'
        /\ models' = 1 /\ ~wasted' =>
             Charged(responses') + Charged(batch') + Pending' = spent'
    BY <1>1, <1>3, <2>0, <2>5, <2>7, <2>8
  <2>. QED
    BY <2>8, <2>9 DEF BillInv
<1>6. CASE mode # "measured"
  <2>1. Pending = 0 /\ Pending' = 0 /\ Due = 0
    BY <1>6 DEF Pending, Due
  <2>2. Charged(responses') = Charged(responses)
    OBVIOUS
  <2>3. spent' \in Nat /\ Charged(responses') + Charged(batch') + Pending' <= spent'
    BY <1>1, <1>2, <1>3, <2>1, <2>2
  <2>4. models' = 1 /\ ~wasted' =>
          Charged(responses') + Charged(batch') + Pending' = spent'
    BY <1>1, <1>2, <1>3, <2>1, <2>2
  <2>. QED
    BY <2>3, <2>4 DEF BillInv
<1>. QED
  BY <1>5, <1>6

\* Both at once, for the record of a draft.
LEMMA RowClosed ==
  ASSUME MeasureInv, Len(batch) < models, phase \in {"search", "ask", "extract"},
         mode = "measured" => phase # "search",
         NEW d \in Drafts, Faithful(d, results), d.status \in Recordable,
         NEW reason \in Stages, NEW cost \in Nat, NEW paid \in Nat,
         Close(Record(d, reason, cost)),
         UNCHANGED <<mode, models, prompt, results, responses>>,
         spent' = spent + paid, wasted' \in BOOLEAN, wasted => wasted',
         cost <= Due + paid, models = 1 /\ ~wasted' => cost = Due + paid
  PROVE  MeasureInv'
<1>. DEFINE r == Record(d, reason, cost)
<1>1. /\ r \in Records /\ r.prompt = prompt /\ r.model = Len(batch) + 1
      /\ r.cost = cost /\ Faithful(r, r.results)
  BY RecordSound
<1>2. Close(r)
  OBVIOUS
<1>. HIDE DEF r
<1>3. /\ DraftInv' /\ BatchInv' /\ RowsInv'
      /\ Charged(batch') = Charged(batch) + r.cost /\ Len(batch') = Len(batch) + 1
      /\ draft' = NoDraft /\ phase' \in {"ask", "persist"}
  BY <1>1, <1>2, Closes
<1>4. phase' = "persist" => Len(batch') = models
  BY <1>3 DEF BatchInv
<1>5. BillInv'
  BY <1>1, <1>3, <1>4, Bills
<1>. QED
  BY <1>3, <1>5 DEF MeasureInv

\* What each phase says of the batch and of the draft.
LEMMA Stands ==
  ASSUME MeasureInv
  PROVE  /\ models \in 1..MaxModels /\ models \in Nat \ {0}
         /\ phase \in {"search", "ask", "repair", "extract"} => Len(batch) < models
         /\ phase \in {"search", "ask", "persist"} => draft = NoDraft
         /\ phase = "search" => batch = <<>>
         /\ draft \in Drafts /\ draft.cost \in Nat /\ Faithful(draft, results)
         /\ phase = "extract" => draft.status \in Recordable
         /\ phase \in {"repair", "extract"} => mode = "measured"
         /\ spent \in Nat /\ wasted \in BOOLEAN
<1>1. models \in 1..MaxModels /\ models \in Nat \ {0}
  BY Given DEF MeasureInv, DraftInv
<1>2. phase = "search" => batch = <<>> /\ Len(batch) = 0
  BY DEF MeasureInv, BatchInv
<1>. QED
  BY <1>1, <1>2 DEF MeasureInv, DraftInv, BatchInv, BillInv, Drafts, Recordable

LEMMA AskFailsStep == ASSUME MeasureInv, AskFails PROVE MeasureInv'
<1>1. PICK billed \in BOOLEAN :
        /\ spent' = spent + (IF billed THEN AnswerPrice ELSE 0)
        /\ wasted' = (wasted \/ billed)
  BY DEF AskFails
<1>. DEFINE paid == IF billed THEN AnswerPrice ELSE 0
<1>2. /\ phase = "ask" /\ mode = "measured"
      /\ Close(Record(NoDraft, "grounded_answer", ErrorCost(NoDraft)))
      /\ UNCHANGED <<mode, models, prompt, results, responses>>
  BY DEF AskFails
<1>3. Share(SearchPrice) \in Nat
  BY Stands, Shares
<1>4. draft.cost = 0 /\ Due = Share(SearchPrice) + draft.cost
  BY <1>2, Stands, NothingDrafted DEF Due
<1>5. ErrorCost(NoDraft) = Share(SearchPrice) + 0
  BY NothingDrafted DEF ErrorCost
<1>6. paid \in Nat /\ spent' = spent + paid
  BY <1>1, Given
<1>7. ErrorCost(NoDraft) \in Nat /\ ErrorCost(NoDraft) <= Due + paid
  <2>. HIDE DEF paid
  <2>. QED
    BY <1>3, <1>4, <1>5, <1>6
<1>8. ~wasted' => paid = 0
  BY <1>1
<1>9. ~wasted' => ErrorCost(NoDraft) = Due + paid
  <2>. HIDE DEF paid
  <2>. QED
    BY <1>3, <1>4, <1>5, <1>8
<1>10. wasted' \in BOOLEAN /\ (wasted => wasted')
  BY <1>1, Stands
<1>11. "grounded_answer" \in Stages
  BY DEF Stages
<1>. HIDE DEF paid
<1>. QED
  BY <1>2, <1>6, <1>7, <1>9, <1>10, <1>11, Stands, NothingDrafted, RowClosed

LEMMA SimulateStep == ASSUME MeasureInv, Simulate PROVE MeasureInv'
<1>1. /\ phase \in {"search", "ask"} /\ mode = "simulated"
      /\ UNCHANGED <<mode, models, prompt, results, responses>>
      /\ Due = 0 /\ "no" \in Stages /\ "simulated_audit" \in Stages
  BY DEF Simulate, Due, Stages
<1>2. CASE /\ Close(Record(NoDraft, "no", AuditPrice))
           /\ spent' = spent + AuditPrice /\ UNCHANGED wasted
  <2>1. AuditPrice \in Nat /\ AuditPrice <= Due + AuditPrice /\ AuditPrice = Due + AuditPrice
    BY <1>1, Given
  <2>2. wasted' \in BOOLEAN /\ (wasted => wasted')
    BY <1>2, Stands
  <2>. QED
    BY <1>1, <1>2, <2>1, <2>2, Stands, NothingDrafted, RowClosed
<1>3. ASSUME NEW billed \in BOOLEAN, Close(Record(NoDraft, "simulated_audit", 0)),
             spent' = spent + (IF billed THEN AuditPrice ELSE 0),
             wasted' = (wasted \/ billed)
      PROVE  MeasureInv'
  <2>. DEFINE paid == IF billed THEN AuditPrice ELSE 0
  <2>1. paid \in Nat /\ spent' = spent + paid /\ (~wasted' => paid = 0)
    BY <1>3, Given
  <2>2. wasted' \in BOOLEAN /\ (wasted => wasted')
    BY <1>3, Stands
  <2>. HIDE DEF paid
  <2>3. 0 \in Nat /\ 0 <= Due + paid /\ (~wasted' => 0 = Due + paid)
    BY <1>1, <2>1
  <2>. QED
    BY <1>1, <1>3, <2>1, <2>2, <2>3, Stands, NothingDrafted, RowClosed
<1>. QED
  BY <1>2, <1>3 DEF Simulate

LEMMA DryRunStep == ASSUME MeasureInv, DryRun PROVE MeasureInv'
<1>1. PICK mentioned \in BOOLEAN :
        Close(Record([NoDraft EXCEPT !.marks = {IF mentioned THEN 1 ELSE 2}], "no", 0))
  BY DEF DryRun
<1>. DEFINE d == [NoDraft EXCEPT !.marks = {IF mentioned THEN 1 ELSE 2}]
<1>2. /\ phase \in {"search", "ask"} /\ mode = "dry"
      /\ UNCHANGED <<mode, models, prompt, results, responses, spent, wasted>>
      /\ Due = 0 /\ "no" \in Stages
  BY DEF DryRun, Due, Stages
<1>3. {IF mentioned THEN 1 ELSE 2} \in SUBSET Ranks
  BY Given DEF Ranks
<1>4. d \in Drafts /\ d.status \in Recordable /\ Faithful(d, results)
  BY <1>3 DEF NoDraft, Drafts, Recordable, Faithful, Settled
<1>5. Close(Record(d, "no", 0))
  BY <1>1
<1>. HIDE DEF d
<1>6. spent' = spent + 0 /\ wasted' \in BOOLEAN /\ (wasted => wasted') /\ 0 <= Due + 0
  BY <1>2, Stands
<1>7. 0 \in Nat /\ 0 = Due + 0
  BY <1>2
<1>. QED
  BY <1>2, <1>4, <1>5, <1>6, <1>7, Stands, RowClosed

LEMMA ExtractStep == ASSUME MeasureInv, Extract PROVE MeasureInv'
<1>. DEFINE q == Share(SearchPrice)
<1>1. /\ phase = "extract" /\ mode = "measured"
      /\ UNCHANGED <<mode, models, prompt, results, responses>>
      /\ "no" \in Stages /\ "audit_extraction" \in Stages
  BY Stands DEF Extract, Stages
<1>2. q \in Nat /\ draft.cost \in Nat /\ Due = q + draft.cost
  BY <1>1, Stands, Shares DEF Due
<1>3. CASE /\ Close(Record(draft, "no", RecordCost(draft, AuditPrice)))
           /\ spent' = spent + AuditPrice /\ UNCHANGED wasted
  <2>. DEFINE cost == RecordCost(draft, AuditPrice)
              part == Share(SearchPrice + draft.cost)
  <2>1. part \in Nat /\ part <= q + draft.cost /\ (models = 1 => part = q + draft.cost)
    BY <1>2, Stands, Shares
  <2>2. cost = part + AuditPrice
    BY DEF RecordCost
  <2>3. AuditPrice \in Nat
    BY Given
  <2>. HIDE DEF part, q, cost
  <2>4. /\ cost \in Nat /\ cost <= Due + AuditPrice
        /\ models = 1 => cost = Due + AuditPrice
    BY <1>2, <2>1, <2>2, <2>3
  <2>5. wasted' \in BOOLEAN /\ (wasted => wasted')
    BY <1>3, Stands
  <2>6. Close(Record(draft, "no", cost)) /\ spent' = spent + AuditPrice
    BY <1>3 DEF cost
  <2>. QED
    BY <1>1, <2>3, <2>4, <2>5, <2>6, Stands, RowClosed
<1>4. ASSUME NEW billed \in BOOLEAN,
             Close(Record(draft, "audit_extraction", ErrorCost(draft))),
             spent' = spent + (IF billed THEN AuditPrice ELSE 0),
             wasted' = (wasted \/ billed)
      PROVE  MeasureInv'
  <2>. DEFINE paid == IF billed THEN AuditPrice ELSE 0
              cost == ErrorCost(draft)
  <2>1. paid \in Nat /\ spent' = spent + paid /\ (~wasted' => paid = 0)
    BY <1>4, Given
  <2>2. cost = q + draft.cost
    BY DEF ErrorCost
  <2>3. wasted' \in BOOLEAN /\ (wasted => wasted')
    BY <1>4, Stands
  <2>. HIDE DEF paid, q, cost
  <2>4. cost \in Nat /\ cost <= Due + paid /\ (~wasted' => cost = Due + paid)
    BY <1>2, <2>1, <2>2
  <2>5. Close(Record(draft, "audit_extraction", cost))
    BY <1>4 DEF cost
  <2>. QED
    BY <1>1, <2>1, <2>3, <2>4, <2>5, Stands, RowClosed
<1>. QED
  BY <1>3, <1>4 DEF Extract

\* A step that neither asks nor stores leaves the batch and the rows as they are.
LEMMA BatchRests ==
  ASSUME MeasureInv, UNCHANGED <<models, prompt, batch, responses>>,
         phase \in {"search", "ask", "repair", "extract"},
         phase' \in {"ask", "repair", "extract"}
  PROVE  BatchInv' /\ RowsInv'
<1>1. Len(batch) < models
  BY Stands
<1>2. BatchInv'
  BY <1>1 DEF MeasureInv, BatchInv, Faithful
<1>3. RowsInv'
  BY DEF MeasureInv, RowsInv, OneRowPerModel, Faithful
<1>. QED
  BY <1>2, <1>3

\* What is pending grows by what is paid, if it is not wasted.
LEMMA BillsRest ==
  ASSUME MeasureInv, UNCHANGED <<models, batch, responses>>,
         NEW more \in Nat, NEW paid \in Nat, Pending \in Nat,
         phase # "raised", Pending' = Pending + more,
         spent' = spent + paid, wasted' \in BOOLEAN, wasted => wasted',
         more <= paid, ~wasted' => more = paid
  PROVE  BillInv'
<1>1. Charged(responses) \in Nat /\ Charged(batch) \in Nat /\ spent \in Nat
  BY UnitsFinite, RecordsPriced DEF MeasureInv, BatchInv, RowsInv, BillInv
<1>2. /\ Charged(responses) + Charged(batch) + Pending <= spent
      /\ models = 1 /\ ~wasted => Charged(responses) + Charged(batch) + Pending = spent
  BY DEF MeasureInv, BillInv
<1>. DEFINE a == Charged(responses)
            b == Charged(batch)
            p == Pending
<1>3. a \in Nat /\ b \in Nat /\ p \in Nat /\ spent \in Nat
  BY <1>1
<1>4. /\ a + b + p <= spent => a + b + (p + more) <= spent + paid
      /\ a + b + p = spent /\ more = paid => a + b + (p + more) = spent + paid
  <2>. HIDE DEF a, b, p
  <2>. QED
    BY <1>3
<1>5. spent' \in Nat
  BY <1>1
<1>. QED
  BY <1>2, <1>4, <1>5 DEF BillInv

LEMMA SearchStep == ASSUME MeasureInv, Search PROVE MeasureInv'
<1>1. /\ phase = "search" /\ mode = "measured" /\ UNCHANGED <<mode, models, prompt, draft>>
      /\ draft = NoDraft /\ batch = <<>> /\ Pending = 0
  BY Stands DEF Search, Pending
<1>2. CASE /\ \E found \in BoundedSeq(Pages, MaxResults) : results' = found
           /\ spent' = spent + SearchPrice /\ phase' = "ask"
           /\ UNCHANGED <<batch, responses, wasted>>
  <2>1. BatchInv' /\ RowsInv'
    BY <1>1, <1>2, BatchRests
  <2>2. DraftInv'
    BY <1>1, <1>2, NothingDrafted DEF MeasureInv, DraftInv, Phases, Faithful
  <2>. DEFINE q == Share(SearchPrice)
  <2>3. SearchPrice \in Nat /\ models \in Nat /\ q \in Nat /\ SearchPrice = models * q
    <3>1. models \in 1..MaxModels
      BY Stands
    <3>. QED
      BY <3>1, Shares, Given
  <2>4. Share(SearchPrice)' = q
    BY <1>1 DEF Share
  <2>5. Pending' = draft.cost + (models - 0) * q
    BY <1>1, <1>2, <2>4 DEF Pending
  <2>. HIDE DEF q
  <2>6. Pending' = Pending + SearchPrice /\ Pending \in Nat
    BY <1>1, <2>3, <2>5, NothingDrafted
  <2>7. wasted' \in BOOLEAN /\ (wasted => wasted') /\ SearchPrice <= SearchPrice
    BY <1>2, <2>3, Stands
  <2>8. BillInv'
    BY <1>1, <1>2, <2>3, <2>6, <2>7, BillsRest
  <2>. QED
    BY <2>1, <2>2, <2>8 DEF MeasureInv
<1>3. CASE /\ phase' = "raised" /\ batch' = <<>> /\ responses' = <<>>
           /\ wasted' = (wasted \/ spent > 0) /\ UNCHANGED <<results, spent>>
  <2>1. DraftInv'
    BY <1>1, <1>3 DEF MeasureInv, DraftInv, Phases, Faithful
  <2>2. BatchInv'
    BY <1>3 DEF BatchInv
  <2>3. RowsInv'
    BY <1>1, <1>3, Given DEF MeasureInv, RowsInv, OneRowPerModel
  <2>4. BillInv'
    BY <1>3, Stands DEF BillInv
  <2>. QED
    BY <2>1, <2>2, <2>3, <2>4 DEF MeasureInv
<1>. QED
  BY <1>2, <1>3 DEF Search

LEMMA Qualities ==
  ASSUME NEW cites, NEW marks
  PROVE  /\ Quality(cites, marks) \in {"no_citations", "valid", "missing_inline_markers",
                                       "invalid_inline_markers"}
         /\ Quality(cites, marks) \in Settled => cites \subseteq marks
  BY DEF Quality, Settled

\* The batch being as it is, more is pending exactly if the draft costs more.
LEMMA PendingMore ==
  ASSUME MeasureInv, mode = "measured", phase \in {"ask", "repair"},
         phase' \in {"repair", "extract"}, UNCHANGED <<mode, models, batch>>,
         NEW more \in Nat, draft'.cost = draft.cost + more
  PROVE  Pending \in Nat /\ Pending' = Pending + more
<1>. DEFINE rest == (models - Len(batch)) * Share(SearchPrice)
<1>1. models - Len(batch) \in Nat /\ Share(SearchPrice) \in Nat /\ draft.cost \in Nat
  <2>1. models \in 1..MaxModels /\ draft.cost \in Nat /\ Len(batch) < models
    BY Stands
  <2>2. Len(batch) \in Nat
    BY DEF MeasureInv, BatchInv
  <2>3. models \in Nat /\ Share(SearchPrice) \in Nat
    BY <2>1, Shares
  <2>. QED
    BY <2>1, <2>2, <2>3
<1>2. rest \in Nat
  <2>. DEFINE n == models - Len(batch)
              q == Share(SearchPrice)
  <2>1. n \in Nat /\ q \in Nat
    BY <1>1
  <2>. HIDE DEF n, q
  <2>2. n * q \in Nat
    BY <2>1
  <2>. QED
    BY <2>2 DEF n, q
<1>3. Pending = draft.cost + rest
  BY DEF Pending
<1>4. Pending' = draft'.cost + rest
  BY DEF Pending, Share
<1>. HIDE DEF rest
<1>. QED
  BY <1>1, <1>2, <1>3, <1>4

LEMMA AskStep == ASSUME MeasureInv, Ask PROVE MeasureInv'
<1>1. PICK said \in SUBSET Ranks, marks \in SUBSET Ranks :
        /\ draft' = [cites |-> Normalized(said), marks |-> marks, own |-> TRUE,
                     status |-> Quality(Normalized(said), marks), cost |-> AnswerPrice]
        /\ phase' = IF Quality(Normalized(said), marks) \in Settled THEN "extract"
                    ELSE "repair"
  BY DEF Ask
<1>2. /\ phase = "ask" /\ mode = "measured" /\ spent' = spent + AnswerPrice
      /\ UNCHANGED <<mode, models, prompt, results, batch, responses, wasted>>
      /\ draft = NoDraft
  BY Stands DEF Ask
<1>. DEFINE cites == Normalized(said)
            status == Quality(cites, marks)
<1>3. cites \subseteq said /\ \A rank \in cites : rank \in DOMAIN results /\ results[rank] \notin Unreadable
  BY DEF Normalized, Backed
<1>4. /\ status \in {"no_citations", "valid", "missing_inline_markers",
                     "invalid_inline_markers"}
      /\ status \in Settled => cites \subseteq marks
  BY Qualities
<1>5. /\ draft' = [cites |-> cites, marks |-> marks, own |-> TRUE, status |-> status,
                   cost |-> AnswerPrice]
      /\ phase' = IF status \in Settled THEN "extract" ELSE "repair"
  BY <1>1
<1>. HIDE DEF cites, status
<1>6. AnswerPrice \in Nat /\ AnswerPrice <= AnswerPrice
  BY Given
<1>7. draft' \in Drafts /\ Faithful(draft', results)
  BY <1>3, <1>4, <1>5, <1>6 DEF Drafts, Faithful
<1>8. phase' = "extract" => draft'.status \in {"no_citations", "valid"}
  BY <1>5 DEF Settled
<1>9. phase' \in {"extract", "repair"}
  BY <1>5
<1>10. DraftInv'
  BY <1>2, <1>7, <1>8, <1>9 DEF MeasureInv, DraftInv, Phases, Faithful
<1>11. BatchInv' /\ RowsInv'
  BY <1>2, <1>9, BatchRests
<1>12. draft'.cost = draft.cost + AnswerPrice
  BY <1>2, <1>5, <1>6, NothingDrafted
<1>13. Pending \in Nat /\ Pending' = Pending + AnswerPrice
  BY <1>2, <1>6, <1>9, <1>12, PendingMore
<1>14. wasted' \in BOOLEAN /\ (wasted => wasted')
  BY <1>2, Stands
<1>15. BillInv'
  BY <1>2, <1>6, <1>13, <1>14, BillsRest
<1>. QED
  BY <1>10, <1>11, <1>15 DEF MeasureInv

\* The draft after a repair that may have replaced its marks.
LEMMA Repaired ==
  ASSUME MeasureInv, phase = "repair", phase' = "extract", draft' \in Drafts,
         Faithful(draft', results), draft'.status \in {"valid", "repair_failed", "repair_error"},
         UNCHANGED <<mode, models, prompt, results, batch, responses>>,
         NEW more \in Nat, NEW paid \in Nat, draft'.cost = draft.cost + more,
         spent' = spent + paid, wasted' \in BOOLEAN, wasted => wasted',
         more <= paid, ~wasted' => more = paid
  PROVE  MeasureInv'
<1>1. mode = "measured"
  BY Stands
<1>2. DraftInv'
  BY <1>1 DEF MeasureInv, DraftInv, Phases, Faithful
<1>3. BatchInv' /\ RowsInv'
  BY BatchRests
<1>4. Pending \in Nat /\ Pending' = Pending + more
  BY <1>1, PendingMore
<1>5. BillInv'
  BY <1>4, BillsRest
<1>. QED
  BY <1>2, <1>3, <1>5 DEF MeasureInv

LEMMA RepairStep == ASSUME MeasureInv, Repair PROVE MeasureInv'
<1>1. /\ phase = "repair" /\ phase' = "extract" /\ draft \in Drafts /\ draft.cost \in Nat
      /\ UNCHANGED <<mode, models, prompt, results, batch, responses>>
      /\ Faithful(draft, results) /\ RepairPrice \in Nat /\ wasted \in BOOLEAN
  BY Stands, Given DEF Repair
<1>2. ASSUME NEW marks \in SUBSET Ranks, NEW own \in BOOLEAN,
             draft' = IF Accepted(marks, own)
                      THEN [draft EXCEPT !.marks = marks, !.own = own, !.status = "valid",
                                         !.cost = @ + RepairPrice]
                      ELSE [draft EXCEPT !.status = "repair_failed", !.cost = @ + RepairPrice],
             spent' = spent + RepairPrice, UNCHANGED wasted
      PROVE  MeasureInv'
  <2>1. CASE Accepted(marks, own)
    <3>1. own /\ draft.cites \subseteq marks
      BY <2>1, Qualities DEF Accepted, Settled
    <3>2. draft' = [cites |-> draft.cites, marks |-> marks, own |-> own, status |-> "valid",
                    cost |-> draft.cost + RepairPrice]
      BY <1>1, <1>2, <2>1, Zenon DEF Drafts
    <3>3. draft' \in Drafts
      BY <1>1, <3>2 DEF Drafts
    <3>4. /\ Faithful(draft', results) /\ draft'.status = "valid"
          /\ draft'.cost = draft.cost + RepairPrice
      BY <1>1, <3>1, <3>2 DEF Faithful
    <3>. QED
      BY <1>1, <1>2, <3>3, <3>4, Repaired
  <2>2. CASE ~Accepted(marks, own)
    <3>2. draft' = [cites |-> draft.cites, marks |-> draft.marks, own |-> draft.own,
                    status |-> "repair_failed", cost |-> draft.cost + RepairPrice]
      BY <1>1, <1>2, <2>2, Zenon DEF Drafts
    <3>3. draft' \in Drafts
      BY <1>1, <3>2 DEF Drafts
    <3>4. /\ Faithful(draft', results) /\ draft'.status = "repair_failed"
          /\ draft'.cost = draft.cost + RepairPrice
      BY <1>1, <3>2 DEF Faithful, Settled
    <3>. QED
      BY <1>1, <1>2, <3>3, <3>4, Repaired
  <2>. QED
    BY <2>1, <2>2
<1>3. ASSUME NEW billed \in BOOLEAN, draft' = [draft EXCEPT !.status = "repair_error"],
             spent' = spent + (IF billed THEN RepairPrice ELSE 0),
             wasted' = (wasted \/ billed)
      PROVE  MeasureInv'
  <2>. DEFINE paid == IF billed THEN RepairPrice ELSE 0
  <2>1. paid \in Nat /\ 0 <= paid /\ spent' = spent + paid /\ (~wasted' => 0 = paid)
    BY <1>1, <1>3
  <2>2. draft' \in Drafts /\ draft'.cost = draft.cost + 0
    BY <1>1, <1>3 DEF Drafts
  <2>3. Faithful(draft', results) /\ draft'.status = "repair_error"
    BY <1>1, <1>3 DEF Faithful, Settled, Drafts
  <2>4. wasted' \in BOOLEAN /\ (wasted => wasted')
    BY <1>1, <1>3
  <2>. HIDE DEF paid
  <2>. QED
    BY <1>1, <2>1, <2>2, <2>3, <2>4, Repaired
<1>. QED
  BY <1>2, <1>3 DEF Repair

-----------------------------------------------------------------------------
LEMMA Smaller ==
  ASSUME NEW a \in Int, NEW b \in Int
  PROVE  Min({a, b}) = IF a <= b THEN a ELSE b
  BY DEF Min

\* The rows there are at the end, if the last batch is the last that fits.
LEMMA Ended ==
  ASSUME NEW n \in Nat, NEW m \in Nat \ {0}, NEW top \in Nat \ {0}, NEW p \in 1..top,
         NEW cap \in Nat, NEW fits \in Nat, n = (p - 1) * m,
         fits = IF m <= cap - n THEN m ELSE cap - n,
         p = top \/ n + fits >= cap
  PROVE  n + fits = IF top * m <= cap THEN top * m ELSE cap
<1>1. n + m = p * m
  BY Z3
<1>2. p * m <= top * m /\ p * m \in Nat /\ top * m \in Nat
  <2>1. PICK k \in Nat : top = p + k
    <3>1. top - p \in Nat /\ top = p + (top - p)
      OBVIOUS
    <3>. QED
      BY <3>1
  <2>2. top * m = p * m + k * m
    BY <2>1
  <2>3. k * m \in Nat /\ p * m \in Nat
    OBVIOUS
  <2>. QED
    BY <2>2, <2>3
<1>. DEFINE a == p * m
            b == top * m
<1>3. a \in Nat /\ b \in Nat /\ a <= b /\ n + m = a /\ (p = top => a = b)
  BY <1>1, <1>2
<1>. HIDE DEF a, b
<1>4. n + fits = IF b <= cap THEN b ELSE cap
  BY <1>3
<1>. QED
  BY <1>4 DEF b

LEMMA Joined ==
  ASSUME NEW s \in Seq(Records), NEW t \in Seq(Records)
  PROVE  /\ s \o t \in Seq(Records) /\ Len(s \o t) = Len(s) + Len(t)
         /\ \A i \in 1..Len(s) : (s \o t)[i] = s[i]
         /\ \A k \in 1..Len(t) : (s \o t)[Len(s) + k] = t[k]
  OBVIOUS

\* The records of the prompt, or those that fit, follow the rows before them.
LEMMA RowsStored ==
  ASSUME MeasureInv, Persist
  PROVE  \E fits \in 0..models :
           /\ Fitting \in Seq(Records) /\ Len(Fitting) = fits
           /\ \A k \in 1..fits : Fitting[k] = batch[k]
           /\ fits = IF models <= MaxResponses - Len(responses) THEN models
                     ELSE MaxResponses - Len(responses)
           /\ responses' \in Seq(Records) /\ Len(responses') = Len(responses) + fits
           /\ Len(responses') <= MaxResponses
           /\ \A i \in 1..Len(responses) : responses'[i] = responses[i]
           /\ \A k \in 1..fits : responses'[Len(responses) + k] = batch[k]
           /\ Charged(Fitting) \in Nat /\ Charged(Fitting) <= Charged(batch)
           /\ Charged(responses') = Charged(responses) + Charged(Fitting)
<1>. DEFINE left == MaxResponses - Len(responses)
            fits == Min({Len(batch), left})
<1>1. /\ batch \in Seq(Records) /\ responses \in Seq(Records) /\ Len(batch) = models
      /\ Len(responses) \in Nat /\ models \in Nat /\ Len(responses) <= MaxResponses
      /\ MaxResponses \in Nat /\ Len(batch) \in Nat
  BY Given, Stands DEF Persist, MeasureInv, BatchInv, RowsInv
<1>2. left \in Nat
  BY <1>1
<1>3. fits = IF models <= left THEN models ELSE left
  BY <1>1, <1>2, Smaller
<1>. HIDE DEF left
<1>4. fits \in 0..models /\ fits <= left
  BY <1>1, <1>2, <1>3
<1>5. Fitting = SubSeq(batch, 1, fits)
  BY DEF Fitting, left
<1>. HIDE DEF fits
<1>6. Fitting \in Seq(Records) /\ Charged(Fitting) <= Charged(batch)
  BY <1>1, <1>4, <1>5, ChargedCut
<1>7. Len(Fitting) = fits /\ \A k \in 1..fits : Fitting[k] = batch[k]
  BY <1>1, <1>4, <1>5
<1>8. responses' = responses \o Fitting
  BY DEF Persist
<1>9. /\ responses' \in Seq(Records) /\ Len(responses') = Len(responses) + fits
      /\ \A i \in 1..Len(responses) : responses'[i] = responses[i]
      /\ \A k \in 1..fits : responses'[Len(responses) + k] = Fitting[k]
  <2>. DEFINE t == Fitting
              s == responses
  <2>1. t \in Seq(Records) /\ s \in Seq(Records) /\ Len(t) = fits /\ responses' = s \o t
    BY <1>1, <1>6, <1>7, <1>8
  <2>. HIDE DEF s, t
  <2>2. /\ s \o t \in Seq(Records) /\ Len(s \o t) = Len(s) + fits
        /\ \A i \in 1..Len(s) : (s \o t)[i] = s[i]
        /\ \A k \in 1..fits : (s \o t)[Len(s) + k] = t[k]
    <3>1. /\ s \o t \in Seq(Records) /\ Len(s \o t) = Len(s) + Len(t)
          /\ \A i \in 1..Len(s) : (s \o t)[i] = s[i]
          /\ \A k \in 1..Len(t) : (s \o t)[Len(s) + k] = t[k]
      BY <2>1, Joined
    <3>. QED
      BY <2>1, <3>1
  <2>. QED
    BY <2>1, <2>2 DEF s, t
<1>10. Charged(responses') = Charged(responses) + Charged(Fitting)
  BY <1>1, <1>6, <1>8, ChargedJoined
<1>11. Charged(Fitting) \in Nat
  BY <1>6, RecordsPriced, UnitsFinite
<1>12. Len(responses') <= MaxResponses
  BY <1>1, <1>4, <1>9 DEF left
<1>13. fits = IF models <= MaxResponses - Len(responses) THEN models
              ELSE MaxResponses - Len(responses)
  BY <1>3 DEF left
<1>. QED
  BY <1>4, <1>6, <1>7, <1>9, <1>10, <1>11, <1>12, <1>13

LEMMA PersistStep == ASSUME MeasureInv, Persist PROVE MeasureInv'
<1>. DEFINE n == Len(responses)
<1>1. PICK fits \in 0..models :
           /\ Fitting \in Seq(Records) /\ Len(Fitting) = fits
           /\ \A k \in 1..fits : Fitting[k] = batch[k]
           /\ fits = IF models <= MaxResponses - n THEN models ELSE MaxResponses - n
           /\ responses' \in Seq(Records) /\ Len(responses') = n + fits
           /\ Len(responses') <= MaxResponses
           /\ \A i \in 1..n : responses'[i] = responses[i]
           /\ \A k \in 1..fits : responses'[n + k] = batch[k]
           /\ Charged(Fitting) \in Nat /\ Charged(Fitting) <= Charged(batch)
           /\ Charged(responses') = Charged(responses) + Charged(Fitting)
  BY RowsStored
<1>2. /\ phase = "persist" /\ wasted' = (wasted \/ Fitting # batch)
      /\ batch' = <<>> /\ results' = <<>> /\ draft = NoDraft
      /\ UNCHANGED <<mode, models, draft, spent>>
      /\ \/ phase' = "done" /\ prompt' = prompt
         \/ phase' = "search" /\ prompt' = prompt + 1
      /\ phase' = "done" <=> (prompt = MaxPrompts \/ Len(responses') >= MaxResponses)
  BY Stands DEF Persist
<1>3. /\ models \in 1..MaxModels /\ models \in Nat \ {0} /\ n \in Nat /\ n = (prompt - 1) * models
      /\ prompt \in 1..MaxPrompts /\ MaxPrompts \in Nat \ {0} /\ MaxResponses \in Nat
      /\ Len(batch) = models /\ batch \in Seq(Records) /\ responses \in Seq(Records)
      /\ spent \in Nat /\ wasted \in BOOLEAN
      /\ mode \in {"measured", "simulated", "dry"}
  BY <1>2, Given, Stands DEF MeasureInv, DraftInv, BatchInv, RowsInv
<1>4. DraftInv'
  BY <1>2, <1>3, NothingFound, NothingDrafted DEF DraftInv, Phases
<1>5. BatchInv'
  BY <1>2 DEF BatchInv
<1>. HIDE DEF n
<1>6. ASSUME NEW i \in 1..Len(responses')
      PROVE  /\ Faithful(responses'[i], responses'[i].results)
             /\ responses'[i].prompt = ((i - 1) \div models) + 1
             /\ responses'[i].model = ((i - 1) % models) + 1
  <2>1. CASE i \in 1..n
    <3>1. responses'[i] = responses[i] /\ i \in DOMAIN responses
      BY <1>1, <1>3, <2>1 DEF n
    <3>. QED
      BY <2>1, <3>1 DEF MeasureInv, RowsInv, OneRowPerModel, n
  <2>2. CASE i \notin 1..n
    <3>1. i - n \in 1..fits /\ i = n + (i - n)
      BY <1>1, <1>3, <2>2
    <3>2. responses'[i] = batch[i - n]
      BY <1>1, <3>1
    <3>3. i - n \in 1..models /\ i - n \in 1..Len(batch)
      BY <1>3, <3>1
    <3>4. /\ batch[i - n].prompt = prompt /\ batch[i - n].model = i - n
          /\ Faithful(batch[i - n], batch[i - n].results)
      BY <3>3 DEF MeasureInv, BatchInv
    <3>5. prompt - 1 \in Nat /\ i - n \in Nat /\ prompt \in Nat
      BY <1>3, <3>3
    <3>6. (((prompt - 1) * models + (i - n)) - 1) \div models = prompt - 1
          /\ (((prompt - 1) * models + (i - n)) - 1) % models = (i - n) - 1
      <4>. DEFINE q == prompt - 1
                  k == i - n
      <4>1. q \in Nat /\ k \in 1..models /\ models \in Nat \ {0}
        BY <1>3, <3>3, <3>5
      <4>. HIDE DEF q, k
      <4>2. ((q * models + k) - 1) \div models = q /\ ((q * models + k) - 1) % models = k - 1
        BY <4>1, Place
      <4>. QED
        BY <4>2 DEF q, k
    <3>7. (i - 1) \div models = prompt - 1 /\ (i - 1) % models = (i - n) - 1
      <4>1. (prompt - 1) * models + (i - n) = i
        BY <1>3, <3>1
      <4>. QED
        BY <3>6, <4>1
    <3>8. (prompt - 1) + 1 = prompt /\ ((i - n) - 1) + 1 = i - n
      BY <3>5
    <3>. QED
      BY <3>2, <3>4, <3>7, <3>8
  <2>. QED
    BY <2>1, <2>2
<1>7. RowsInv'
  <2>1. prompt' \in 1..MaxPrompts
    BY <1>2, <1>3
  <2>2. phase' = "done" => Len(responses') = Min({MaxPrompts * models, MaxResponses})
    <3>1. ASSUME phase' = "done" PROVE Len(responses') = Min({MaxPrompts * models, MaxResponses})
      <4>1. prompt = MaxPrompts \/ n + fits >= MaxResponses
        BY <1>1, <1>2, <3>1
      <4>2. n + fits = IF MaxPrompts * models <= MaxResponses THEN MaxPrompts * models
                       ELSE MaxResponses
        <5>1. fits \in Nat /\ fits = IF models <= MaxResponses - n THEN models ELSE MaxResponses - n
          BY <1>1
        <5>. QED
          BY <1>3, <4>1, <5>1, Ended
      <4>3. MaxPrompts * models \in Int /\ MaxResponses \in Int
        BY <1>3
      <4>. QED
        BY <1>1, <4>2, <4>3, Smaller
    <3>. QED
      BY <3>1
  <2>3. phase' \notin {"done", "raised"} => Len(responses') = (prompt' - 1) * models
    <3>1. ASSUME phase' = "search", prompt' = prompt + 1
          PROVE  Len(responses') = (prompt' - 1) * models
      <4>1. n + fits < MaxResponses
        BY <1>1, <1>2, <1>3, <3>1
      <4>2. fits = models
        BY <1>1, <1>3, <4>1
      <4>3. n + models = (prompt' - 1) * models
        <5>1. prompt' - 1 = (prompt - 1) + 1 /\ prompt - 1 \in Nat
          BY <1>3, <3>1
        <5>2. ((prompt - 1) + 1) * models = (prompt - 1) * models + models
          BY <1>3, <5>1
        <5>. QED
          BY <1>3, <5>1, <5>2
      <4>. QED
        BY <1>1, <4>2, <4>3
    <3>. QED
      BY <1>2, <3>1
  <2>4. DOMAIN responses' = 1..Len(responses')
    BY <1>1
  <2>5. OneRowPerModel'
    BY <1>2, <1>6, <2>2, <2>4 DEF OneRowPerModel
  <2>. QED
    BY <1>1, <1>6, <2>1, <2>3, <2>5, <1>2 DEF RowsInv, Faithful
<1>8. BillInv'
  <2>1. Pending = 0 /\ Pending' = 0 /\ Charged(batch') = 0
    BY <1>2, ChargedNothing DEF Pending
  <2>2. Charged(responses) \in Nat /\ Charged(batch) \in Nat
    BY <1>3, UnitsFinite, RecordsPriced
  <2>3. /\ Charged(responses) + Charged(batch) <= spent
        /\ models = 1 /\ ~wasted => Charged(responses) + Charged(batch) = spent
    BY <1>2, <1>3, <2>1, <2>2 DEF MeasureInv, BillInv
  <2>4. wasted' \in BOOLEAN /\ (~wasted' => ~wasted /\ Charged(Fitting) = Charged(batch))
    BY <1>2, <1>3
  <2>. DEFINE a == Charged(responses)
              b == Charged(batch)
              c == Charged(Fitting)
  <2>5. /\ spent' \in Nat /\ Charged(responses') = a + c /\ a + b <= spent /\ c <= b
        /\ models' = 1 /\ ~wasted' => a + b = spent /\ c = b
        /\ spent' = spent /\ a \in Nat /\ b \in Nat /\ c \in Nat
    BY <1>1, <1>2, <1>3, <2>2, <2>3, <2>4
  <2>. HIDE DEF a, b, c
  <2>6. /\ Charged(responses') + Charged(batch') + Pending' <= spent'
        /\ models' = 1 /\ ~wasted' =>
              Charged(responses') + Charged(batch') + Pending' = spent'
    BY <2>1, <2>5
  <2>. QED
    BY <2>4, <2>5, <2>6 DEF BillInv
<1>. QED
  BY <1>4, <1>5, <1>7, <1>8 DEF MeasureInv

-----------------------------------------------------------------------------
LEMMA Begun == ASSUME MeasureInit PROVE MeasureInv
<1>1. /\ MaxPrompts \in Nat \ {0} /\ MaxResponses \in Nat /\ models \in 1..MaxModels
      /\ MaxResults \in Nat \ {0} /\ models \in Nat
  BY Given DEF MeasureInit
<1>3. DraftInv
  BY <1>1, NothingFound, NothingDrafted DEF MeasureInit, DraftInv, Phases
<1>4. BatchInv
  BY DEF MeasureInit, BatchInv
<1>5. OneRowPerModel
  BY DEF MeasureInit, OneRowPerModel
<1>6. (1 - 1) * models = 0
  BY <1>1
<1>7. RowsInv
  BY <1>1, <1>5, <1>6 DEF MeasureInit, RowsInv
<1>8. BillInv
  <2>1. responses = <<>> /\ batch = <<>> /\ spent = 0 /\ wasted = FALSE /\ Pending = 0
    BY DEF MeasureInit, Pending
  <2>2. Charged(responses) = 0 /\ Charged(batch) = 0
    BY <2>1, ChargedNothing
  <2>3. Charged(responses) + Charged(batch) + Pending = spent
    BY <2>1, <2>2
  <2>4. spent \in Nat /\ wasted \in BOOLEAN
    BY <2>1
  <2>5. spent <= spent
    BY <2>4
  <2>. QED
    BY <2>3, <2>4, <2>5, Zenon DEF BillInv
<1>. QED
  BY <1>3, <1>4, <1>7, <1>8 DEF MeasureInv

LEMMA NothingMeasured == ASSUME MeasureInv, UNCHANGED measureVars PROVE MeasureInv'
<1>. USE DEF measureVars
<1>1. DraftInv'
  BY DEF MeasureInv, DraftInv, Faithful
<1>2. BatchInv'
  BY DEF MeasureInv, BatchInv, Faithful
<1>3. RowsInv'
  BY DEF MeasureInv, RowsInv, OneRowPerModel, Faithful
<1>4. BillInv'
  <2>1. Pending' = Pending
    BY DEF Pending, Share
  <2>2. Charged(responses)' = Charged(responses) /\ Charged(batch)' = Charged(batch)
    BY DEF Charged, Units
  <2>. QED
    BY <2>1, <2>2 DEF MeasureInv, BillInv
<1>. QED
  BY <1>1, <1>2, <1>3, <1>4 DEF MeasureInv

\* The invariant behind the two theorems below: what an answer in progress
\* cites is backed by its search, the batch is as far as the models asked, the
\* rows before it are complete, and everything charged was paid.
THEOREM MeasuringIsSound == MeasureSpec => []MeasureInv
<1>1. MeasureInit => MeasureInv
  BY Begun
<1>2. MeasureInv /\ [MeasureNext]_measureVars => MeasureInv'
  <2>. SUFFICES ASSUME MeasureInv, [MeasureNext]_measureVars PROVE MeasureInv'
    OBVIOUS
  <2>1. CASE Search
    BY <2>1, SearchStep
  <2>2. CASE AskFails
    BY <2>2, AskFailsStep
  <2>3. CASE Ask
    BY <2>3, AskStep
  <2>4. CASE Repair
    BY <2>4, RepairStep
  <2>5. CASE Extract
    BY <2>5, ExtractStep
  <2>6. CASE Simulate
    BY <2>6, SimulateStep
  <2>7. CASE DryRun
    BY <2>7, DryRunStep
  <2>8. CASE Persist
    BY <2>8, PersistStep
  <2>9. CASE UNCHANGED measureVars
    BY <2>9, NothingMeasured
  <2>. QED
    BY <2>1, <2>2, <2>3, <2>4, <2>5, <2>6, <2>7, <2>8, <2>9 DEF MeasureNext
<1>. QED
  BY <1>1, <1>2, PTL DEF MeasureSpec

\* A citation is counted exactly if the search, the address and the mark stand.
LEMMA Turned ==
  ASSUME NEW row, NEW rank
  PROVE  Rejection(row, rank) = "no" <=>
           /\ rank \in DOMAIN row.results /\ row.results[rank] \notin Unreadable
           /\ rank \in row.marks
  BY DEF Rejection

LEMMA Counts ==
  ASSUME NEW row, NEW page
  PROVE  page \in CountedPages(row) <=>
           /\ Eligible(row)
           /\ \E rank \in row.cites : Rejection(row, rank) = "no" /\ row.results[rank] = page
<1>1. \A rank : rank \in row.cites \ Rejected(row) <=>
                   rank \in row.cites /\ Rejection(row, rank) = "no"
  BY DEF Rejected
<1>. QED
  BY <1>1 DEF CountedPages

LEMMA SoundRecords == ASSUME MeasureInv PROVE RecordsSound
<1>1. /\ responses \in Seq(Records) /\ batch \in Seq(Records)
      /\ Len(responses) <= MaxResponses /\ OneRowPerModel
      /\ \A i \in 1..Len(responses) : Faithful(responses[i], responses[i].results)
      /\ spent \in Nat /\ wasted \in BOOLEAN
  BY DEF MeasureInv, BatchInv, RowsInv, BillInv
<1>2. \A i \in DOMAIN responses : i \in 1..Len(responses) /\ responses[i] \in Records
  BY <1>1
<1>3. Len(batch) <= models
  <2>1. phase \in Phases /\ models \in Nat
    BY Stands DEF MeasureInv, DraftInv
  <2>2. CASE phase \in {"search", "done", "raised"}
    BY <2>1, <2>2 DEF MeasureInv, BatchInv
  <2>3. CASE phase \in {"ask", "repair", "extract"}
    BY <1>1, <2>1, <2>3 DEF MeasureInv, BatchInv
  <2>4. CASE phase = "persist"
    BY <2>1, <2>4 DEF MeasureInv, BatchInv
  <2>. QED
    BY <2>1, <2>2, <2>3, <2>4 DEF Phases
<1>4. RecordsTyped
  BY <1>1, <1>2, <1>3 DEF RecordsTyped
<1>5. NothingInvented
  <2>1. ASSUME NEW i \in DOMAIN responses PROVE responses[i].own
    BY <1>1, <1>2 DEF Faithful
  <2>2. ASSUME NEW i \in DOMAIN responses, NEW page \in CountedPages(responses[i])
        PROVE  \E rank \in DOMAIN responses[i].results :
                  /\ responses[i].results[rank] = page /\ page \notin Unreadable
                  /\ rank \in responses[i].marks /\ rank \in responses[i].cites
    BY <2>2, Counts, Turned
  <2>. QED
    BY <2>1, <2>2 DEF NothingInvented
<1>. QED
  BY <1>1, <1>4, <1>5 DEF RecordsSound

LEMMA Ranked ==
  ASSUME phase = "done", NEW i \in DOMAIN responses
  PROVE  i \in Candidates <=> Eligible(responses[i]) /\ responses[i].prompt \notin Probes
  BY DEF Candidates, RankingExclusion, Eligible, ReportExclusion, Provenance

LEMMA AgreeingNumbers == ASSUME MeasureInv PROVE NumbersAgree
<1>1. /\ responses \in Seq(Records) /\ batch \in Seq(Records)
      /\ DOMAIN responses = 1..Len(responses)
      /\ \A i \in 1..Len(responses) : Faithful(responses[i], responses[i].results)
  BY DEF MeasureInv, BatchInv, RowsInv
<1>2. CostNeverInflated
  <2>. SUFFICES ASSUME phase \in {"search", "done"}
                PROVE  /\ Charged(responses) <= spent
                       /\ (models = 1 /\ ~wasted) => Charged(responses) = spent
    BY DEF CostNeverInflated
  <2>1. Pending = 0 /\ Charged(batch) = 0
    BY ChargedNothing DEF Pending, MeasureInv, BatchInv
  <2>2. Charged(responses) \in Nat
    BY <1>1, UnitsFinite, RecordsPriced
  <2>. QED
    BY <2>1, <2>2 DEF MeasureInv, BillInv
<1>3. ValidIsCounted
  <2>. SUFFICES ASSUME NEW i \in DOMAIN responses, responses[i].status \in Settled
                PROVE  Rejected(responses[i]) = {}
    BY DEF ValidIsCounted
  <2>1. \A rank \in responses[i].cites :
           /\ rank \in DOMAIN responses[i].results
           /\ responses[i].results[rank] \notin Unreadable
           /\ rank \in responses[i].marks
    BY <1>1 DEF Faithful
  <2>. QED
    BY <2>1, Turned DEF Rejected
<1>4. phase # "done" => Candidates = {}
  BY DEF Candidates, RankingExclusion
<1>5. ASSUME phase = "done"
      PROVE  LET probed == {i \in DOMAIN responses : responses[i].prompt \in Probes} IN
             /\ \A page \in Pages : RankedPage(page) = PageAnswers(page) \ probed
             /\ \A host \in {HostOf[page] : page \in Pages} :
                   RankedSite(host) = SiteAnswers(host) \ probed
  <2>. DEFINE probed == {i \in DOMAIN responses : responses[i].prompt \in Probes}
  <2>1. Candidates \subseteq DOMAIN responses
    BY DEF Candidates
  <2>2. ASSUME NEW page \in Pages PROVE RankedPage(page) = PageAnswers(page) \ probed
    <3>1. ASSUME NEW i \in DOMAIN responses
          PROVE  i \in RankedPage(page) <=> i \in PageAnswers(page) \ probed
      <4>1. i \in PageAnswers(page) <=> page \in CountedPages(responses[i])
        BY DEF PageAnswers
      <4>2. i \in RankedPage(page) <=>
              /\ i \in Candidates
              /\ \E rank \in responses[i].cites : Rejection(responses[i], rank) = "no"
                                                  /\ responses[i].results[rank] = page
        BY DEF RankedPage, RankedFor
      <4>3. i \in Candidates <=> Eligible(responses[i]) /\ i \notin probed
        BY <1>5, Ranked
      <4>. QED
        BY <4>1, <4>2, <4>3, Counts
    <3>. QED
      BY <2>1, <3>1 DEF RankedPage, RankedFor, PageAnswers
  <2>3. ASSUME NEW host \in {HostOf[page] : page \in Pages}
        PROVE  RankedSite(host) = SiteAnswers(host) \ probed
    <3>1. ASSUME NEW i \in DOMAIN responses
          PROVE  i \in RankedSite(host) <=> i \in SiteAnswers(host) \ probed
      <4>1. i \in SiteAnswers(host) <=>
              \E page \in CountedPages(responses[i]) : HostOf[page] = host
        BY DEF SiteAnswers
      <4>2. responses[i].results \in BoundedSeq(Pages, MaxResults)
        <5>1. responses[i] \in Records
          BY <1>1
        <5>. QED
          BY <5>1 DEF Records
      <4>3. \A rank \in DOMAIN responses[i].results : responses[i].results[rank] \in Pages
        BY <4>2 DEF BoundedSeq, SeqOf
      <4>4. i \in RankedSite(host) <=>
              /\ i \in Candidates
              /\ \E rank \in responses[i].cites :
                    /\ Rejection(responses[i], rank) = "no"
                    /\ responses[i].results[rank] \in Pages
                    /\ HostOf[responses[i].results[rank]] = host
        BY DEF RankedSite, RankedFor
      <4>5. i \in Candidates <=> Eligible(responses[i]) /\ i \notin probed
        BY <1>5, Ranked
      <4>6. (\E page \in CountedPages(responses[i]) : HostOf[page] = host) <=>
              /\ Eligible(responses[i])
              /\ \E rank \in responses[i].cites :
                    /\ Rejection(responses[i], rank) = "no"
                    /\ responses[i].results[rank] \in Pages
                    /\ HostOf[responses[i].results[rank]] = host
        BY <4>3, Counts, Turned
      <4>. QED
        BY <4>1, <4>4, <4>5, <4>6
    <3>. QED
      BY <2>1, <3>1 DEF RankedSite, RankedFor, SiteAnswers
  <2>. QED
    BY <2>2, <2>3
<1>6. RankingAgrees
  BY <1>4, <1>5 DEF RankingAgrees
<1>. QED
  BY <1>2, <1>3, <1>6 DEF NumbersAgree

\* What a run stores is complete, in order and not made up, whichever calls to
\* the search and to the models fail: each prompt has a row for each model up to
\* the cap, the words of a row are its model's, and a page a report counts was
\* found by that prompt's search and marked in that answer.
THEOREM RecordsAreSound == MeasureSpec => []RecordsSound
<1>1. MeasureInv => RecordsSound
  BY SoundRecords
<1>. QED
  BY <1>1, MeasuringIsSound, PTL

\* The rows never charge more than was paid and exactly that if one model is
\* asked and nothing is lost; no citation of a valid answer is turned down; the
\* report of the run and the ranking of its sector count the same answers.
THEOREM NumbersDoAgree == MeasureSpec => []NumbersAgree
<1>1. MeasureInv => NumbersAgree
  BY AgreeingNumbers
<1>. QED
  BY <1>1, MeasuringIsSound, PTL

-----------------------------------------------------------------------------
(***************************************************************************)
(* The record of an answer and the audit of its claims.  Every record is   *)
(* sound by itself: its lines are drawn from the facts they are audited    *)
(* against.                                                                *)
(***************************************************************************)
LEMMA ClaimTexts == \A category, text : Claim(category, text).text = text
  BY DEF Claim

LEMMA Lined ==
  ASSUME NEW raw, NEW claim \in Lines(raw), NEW rec, rec.mentioned = Mentioned(raw),
         rec.visibility = Visibility(raw)
  PROVE  AuditGap(claim, rec) # "contradicted"
<1>1. Qualitative(claim, rec) # "contradicted"
  BY DEF Qualitative
<1>2. CASE run.mode = "measured"
  <2>1. claim \in MeasuredLines(raw)
    BY <1>2 DEF Lines
  <2>2. /\ rec.visibility.brand = (raw.rank > 0) /\ rec.visibility.owned = raw.ownRanks
    BY <1>2 DEF Visibility
  <2>. DEFINE known == Mentioned(raw)
  <2>3. \/ claim.text = "not_in_results" /\ raw.rank = 0
        \/ claim.text = "not_in_the_grounded_answer" /\ ~known
        \/ claim.text = "results_favored"
        \/ claim.text = "present" /\ known
        \/ claim.text = "no_owned_result" /\ ~raw.ownRanks
    <3>1. \/ claim = Claim("low_discoverability", "not_in_results") /\ raw.rank = 0
          \/ claim = Claim("low_discoverability", "not_in_the_grounded_answer") /\ ~known
          \/ claim = Claim("competitor_dominance", "results_favored")
          \/ claim = Claim("content_gap", "present") /\ known
          \/ claim = Claim("content_gap", "no_owned_result") /\ ~raw.ownRanks
      BY <2>1, Zenon DEF MeasuredLines
    <3>. HIDE DEF known
    <3>. QED
      BY <3>1, ClaimTexts, Zenon
  <2>4. RankOf(claim.text) = 0
    BY <2>3 DEF RankOf
  <2>5. rec.mentioned = known
    OBVIOUS
  <2>. HIDE DEF known
  <2>6. CASE claim.text = "not_in_results" /\ raw.rank = 0
    <3>1. ~rec.visibility.brand
      <4>1. ~(0 > 0)
        OBVIOUS
      <4>. QED
        BY <2>2, <2>6, <4>1
    <3>. QED
      BY <2>6, <3>1 DEF AuditGap, Verified
  <2>7. CASE claim.text = "not_in_the_grounded_answer" /\ ~known
    BY <2>5, <2>7 DEF AuditGap, Verified
  <2>8. CASE claim.text = "results_favored"
    BY <2>8 DEF AuditGap
  <2>9. CASE claim.text = "present" /\ known
    BY <1>1, <2>4, <2>5, <2>9 DEF AuditGap
  <2>10. CASE claim.text = "no_owned_result" /\ ~raw.ownRanks
    BY <2>2, <2>10 DEF AuditGap, Verified
  <2>. QED
    BY <2>3, <2>6, <2>7, <2>8, <2>9, <2>10
<1>3. CASE run.mode # "measured"
  <2>1. claim \in SimulatedLines(raw)
    BY <1>3 DEF Lines
  <2>2. rec.visibility.brand = FALSE
    BY <1>3 DEF Visibility
  <2>. DEFINE known == Mentioned(raw)
  <2>3. \/ claim.text = "absent" /\ ~known
        \/ claim.text = "answer_favored"
        \/ claim.text = "present" /\ known
    <3>1. \/ claim = Claim("low_discoverability", "absent") /\ ~known
          \/ claim = Claim("competitor_dominance", "answer_favored")
          \/ claim = Claim("content_gap", "present") /\ known
      BY <2>1, Zenon DEF SimulatedLines
    <3>. HIDE DEF known
    <3>. QED
      BY <3>1, ClaimTexts, Zenon
  <2>4. RankOf(claim.text) = 0
    BY <2>3 DEF RankOf
  <2>5. rec.mentioned = known
    OBVIOUS
  <2>. HIDE DEF known
  <2>. QED
    <3>1. CASE claim.text = "absent" /\ ~known
      BY <1>1, <2>2, <2>4, <2>5, <3>1 DEF AuditGap
    <3>2. CASE claim.text = "answer_favored"
      <4>1. ~(RankOf(claim.text) > 0)
        BY <2>4
      <4>2. /\ claim.text \notin {"results_favored", "no_owned_result", "not_in_results"}
            /\ claim.text \notin {"not_in_the_grounded_answer", "uncited", "absent", "present"}
        BY <3>2
      <4>3. AuditGap(claim, rec) = Qualitative(claim, rec)
        BY <4>1, <4>2, Zenon DEF AuditGap
      <4>. QED
        BY <1>1, <4>3
    <3>3. CASE claim.text = "present" /\ known
      BY <1>1, <2>4, <2>5, <3>3 DEF AuditGap
    <3>. QED
      BY <2>3, <3>1, <3>2, <3>3
<1>. QED
  BY <1>2, <1>3

\* A record whose lines hold, whose strengths are a mentioned brand's, and whose
\* earned citations are citations.
Consistent(rec) ==
  /\ \A claim \in rec.added : AuditGap(claim, rec) # "contradicted"
  /\ \A driver \in rec.drivers : rec.mentioned
  /\ rec.metrics.earned => rec.metrics.cited

LEMMA EarnedIsCited ==
  ASSUME NEW cites
  PROVE  Metrics(cites).earned => Metrics(cites).cited
  BY DEF Metrics

LEMMA StrengthsStand ==
  ASSUME NEW rec, Consistent(rec), NEW driver \in rec.drivers
  PROVE  <<"driver", driver, "contradicted">> \notin Audits(rec)
<1>1. rec.mentioned
  BY DEF Consistent
<1>2. AuditDriver(driver, rec) # "contradicted"
  BY <1>1 DEF AuditDriver
<1>. QED
  BY <1>2 DEF Audits

LEMMA RecordConsistent ==
  ASSUME NEW n, NEW raw
  PROVE  Consistent(AuditRecord(n, raw))
<1>. DEFINE rec == AuditRecord(n, raw)
<1>1. CASE raw.failed = "no"
  <2>1. rec = Merged(n, raw)
    BY <1>1 DEF AuditRecord
  <2>2. /\ rec.added = Lines(raw) /\ rec.drivers = Drivers(raw)
        /\ rec.mentioned = Mentioned(raw) /\ rec.visibility = Visibility(raw)
        /\ rec.metrics = Metrics(raw.cites)
    BY <2>1 DEF Merged
  <2>. HIDE DEF rec
  <2>3. \A claim \in rec.added : AuditGap(claim, rec) # "contradicted"
    BY <2>2, Lined
  <2>4. \A driver \in rec.drivers : rec.mentioned
    BY <2>2 DEF Drivers
  <2>5. Consistent(rec)
    BY <2>2, <2>3, <2>4, EarnedIsCited DEF Consistent
  <2>. QED
    BY <2>5 DEF rec
<1>2. CASE raw.failed # "no"
  <2>1. rec = Failed(n, raw)
    BY <1>2 DEF AuditRecord
  <2>2. /\ rec.added = {} /\ rec.drivers = {}
        /\ \E cites : rec.metrics = Metrics(cites)
    BY <2>1 DEF Failed, NoMetrics
  <2>. HIDE DEF rec
  <2>3. Consistent(rec)
    BY <2>2, EarnedIsCited DEF Consistent
  <2>. QED
    BY <2>3 DEF rec
<1>. QED
  BY <1>1, <1>2

\* The records are a table of consistent rows.
ClaimsInv == records \in Seq(Range(records)) /\ \A i \in DOMAIN records : Consistent(records[i])

LEMMA RecordsConsistent == ScoreSpec => []ClaimsInv
<1>1. ScoreInit => ClaimsInv
  BY DEF ScoreInit, ClaimsInv, Range
<1>2. ClaimsInv /\ [ScoreNext]_scoreVars => ClaimsInv'
  <2>. SUFFICES ASSUME ClaimsInv, [ScoreNext]_scoreVars PROVE ClaimsInv'
    OBVIOUS
  <2>1. CASE UNCHANGED records
    BY <2>1 DEF ClaimsInv, Range, Consistent
  <2>2. CASE Respond
    <3>1. PICK raw : records' = Append(records, AuditRecord(Len(records) + 1, raw))
      BY <2>2 DEF Respond
    <3>. DEFINE rec == AuditRecord(Len(records) + 1, raw)
    <3>2. Consistent(rec)
      BY RecordConsistent
    <3>. HIDE DEF rec
    <3>3. records' \in Seq(Range(records'))
      BY <3>1 DEF ClaimsInv, Range, rec
    <3>4. ASSUME NEW i \in DOMAIN records' PROVE Consistent(records'[i])
      BY <3>1, <3>2 DEF ClaimsInv, rec
    <3>. QED
      BY <3>3, <3>4 DEF ClaimsInv
  <2>. QED
    BY <2>1, <2>2 DEF ScoreNext, ReadSite, Plan, Review, Footprint, SearchOne, Score, scoreVars
<1>. QED
  BY <1>1, <1>2, PTL DEF ScoreSpec

\* Whatever the model claims and the search shows, the audit never contradicts a
\* line the pipeline itself added to a record, in either mode, and no strength is
\* audited for a brand the answer does not mention.
THEOREM ClaimsAreSound == ScoreSpec => []ClaimsSound
<1>1. ClaimsInv => ClaimsSound
  <2>. SUFFICES ASSUME ClaimsInv PROVE ClaimsSound
    OBVIOUS
  <2>1. AddedLinesHold
    BY DEF ClaimsInv, Consistent, AddedLinesHold
  <2>2. NoContradictedStrength
    BY StrengthsStand DEF ClaimsInv, NoContradictedStrength
  <2>. QED
    BY <2>1, <2>2 DEF ClaimsSound
<1>. QED
  BY <1>1, RecordsConsistent, PTL

\* Each template of the library has its place in the order of the titles.
LEMMA Shelved ==
  ASSUME NEW t \in Library
  PROVE  \E n \in 1 .. 21 : t = Titled[n]
<1>1. DOMAIN Titled = 1 .. 21
  BY DEF Titled
<1>. QED
  BY <1>1 DEF Library, Range

LEMMA ListicleNeeds ==
  ASSUME NEW t \in Library, t.id = "third_party_listicle"
  PROVE  "earned" \in t.needs /\ "not_cited" \in t.needs
<1>1. \A id, impact, effort, gaps, needs :
         /\ Template(id, impact, effort, gaps, needs).id = id
         /\ Template(id, impact, effort, gaps, needs).needs = needs
  BY DEF Template
<1>2. t = Template("third_party_listicle", 5, 3, {"competitor_dominance", "content_gap",
                   "weak_ranking"}, {"earned", "not_cited"})
  BY <1>1, Shelved, SMTT(60) DEF Titled
<1>. QED
  BY <1>1, <1>2

\* The library's advice to get into the listicles of others is never given: it
\* is for records whose citations are earned and that are not cited, and an
\* earned citation is one, whatever the answers say.
THEOREM ListiclesAreNeverAdvised ==
  ScoreSpec => [](\A t \in DOMAIN interventions : t.id # "third_party_listicle")
<1>. DEFINE Never == \A t \in DOMAIN interventions : t.id # "third_party_listicle"
<1>1. ScoreInit => Never
  BY DEF ScoreInit
<1>2. ClaimsInv /\ Never /\ [ScoreNext]_scoreVars => Never'
  <2>. SUFFICES ASSUME ClaimsInv, Never, [ScoreNext]_scoreVars PROVE Never'
    OBVIOUS
  <2>1. CASE UNCHANGED interventions
    BY <2>1
  <2>2. CASE Score
    <3>. SUFFICES ASSUME NEW t \in DOMAIN interventions', t.id = "third_party_listicle"
                  PROVE  FALSE
      OBVIOUS
    <3>1. interventions' = Aggregated(records)
      BY <2>2 DEF Score
    <3>2. t \in Library /\ \E i \in DOMAIN records : Matches(t, records[i])
      BY <3>1 DEF Aggregated
    <3>3. PICK i \in DOMAIN records : Matches(t, records[i])
      BY <3>2
    <3>. DEFINE rec == records[i]
    <3>4. Meets(rec, "earned") /\ Meets(rec, "not_cited")
      BY <3>2, <3>3, ListicleNeeds DEF Matches
    <3>5. rec.metrics.earned => rec.metrics.cited
      BY DEF ClaimsInv, Consistent
    <3>6. Meets(rec, "earned") = rec.metrics.earned
      BY Zenon DEF Meets
    <3>7. Meets(rec, "not_cited") = ~rec.metrics.cited
      BY Zenon DEF Meets
    <3>. QED
      BY <3>4, <3>5, <3>6, <3>7
  <2>. QED
    BY <2>1, <2>2
       DEF ScoreNext, ReadSite, Plan, Review, Respond, Footprint, SearchOne, scoreVars, scores
<1>. QED
  BY <1>1, <1>2, RecordsConsistent, PTL DEF ScoreSpec

-----------------------------------------------------------------------------
(***************************************************************************)
(* The advice.  The boost of a template compounds from record to record;   *)
(* what it comes to depends on their number alone.                         *)
(***************************************************************************)
\* The worth and the effort of a template are marks from one to five.
LEMMA Marks ==
  \A t \in Library : t.impact \in 1 .. 5 /\ t.effort \in 1 .. 5
<1>1. \A id, impact, effort, gaps, needs :
         /\ Template(id, impact, effort, gaps, needs).impact = impact
         /\ Template(id, impact, effort, gaps, needs).effort = effort
  BY DEF Template
<1>. SUFFICES ASSUME NEW t \in Library PROVE t.impact \in 1 .. 5 /\ t.effort \in 1 .. 5
  OBVIOUS
<1>2. /\ t.impact = 1 \/ t.impact = 2 \/ t.impact = 3 \/ t.impact = 4 \/ t.impact = 5
      /\ t.effort = 1 \/ t.effort = 2 \/ t.effort = 3 \/ t.effort = 4 \/ t.effort = 5
  BY <1>1, Shelved, SMTT(60) DEF Titled
<1>. QED
  BY <1>2

LEMMA PriorityType == \A t \in Library : Priority(t) \in Int
<1>. SUFFICES ASSUME NEW t \in Library PROVE Priority(t) \in Int
  OBVIOUS
<1>. DEFINE a == t.impact
            b == t.effort
<1>1. a \in 1 .. 5 /\ b \in 1 .. 5
  BY Marks
<1>. HIDE DEF a, b
<1>2. (2 * (1000 * a) + b) \div (2 * b) \in Int
  BY <1>1
<1>. QED
  BY <1>2 DEF Priority, Mean, a, b

\* What the boosts of n records add up to.
Extra(n) ==
  IF n <= 1 THEN 0 ELSE IF n = 2 THEN 100 ELSE IF n = 3 THEN 300 ELSE IF n = 4 THEN 600
  ELSE IF n = 5 THEN 1000 ELSE 500 * n - 1500

LEMMA Extras ==
  ASSUME NEW n \in Nat
  PROVE  /\ Extra(n) \in Int
         /\ n > 0 => \A p \in Int : Boost(p + Extra(n), n + 1) = p + Extra(n + 1)
         /\ \A m \in Nat : m < n /\ m > 0 => Extra(m) < Extra(n)
<1>1. Extra(n) \in Int
  BY DEF Extra
<1>2. ASSUME n > 0, NEW p \in Int PROVE Boost(p + Extra(n), n + 1) = p + Extra(n + 1)
  <2>. DEFINE k == 100 * ((n + 1) - 1)
  <2>1. k = 100 * n /\ k \in Int
    OBVIOUS
  <2>. HIDE DEF k
  <2>2. Min({500, k}) = IF 500 <= k THEN 500 ELSE k
    BY <2>1, Smaller
  <2>3. Boost(p + Extra(n), n + 1) = (p + Extra(n)) + (IF 500 <= k THEN 500 ELSE k)
    BY <2>2 DEF Boost, k
  <2>. QED
    BY <1>1, <1>2, <2>1, <2>3 DEF Extra
<1>3. ASSUME NEW m \in Nat, m < n, m > 0 PROVE Extra(m) < Extra(n)
  BY <1>3 DEF Extra
<1>. QED
  BY <1>1, <1>2, <1>3

Raised(t, n, words) ==
  [count |-> n, priority |-> IF n = 0 THEN 0 ELSE Priority(t) + Extra(n),
   words |-> IF n = 0 THEN <<>> ELSE words]

LEMMA RaisedNone ==
  ASSUME NEW t, NEW words
  PROVE  Raised(t, 0, words) = Untriggered
  BY DEF Raised, Untriggered

LEMMA RaisedOnce ==
  ASSUME NEW t \in Library, NEW rec, NEW n \in Nat, NEW words
  PROVE  /\ ~Matches(t, rec) => Raise(t, Raised(t, n, words), rec) = Raised(t, n, words)
         /\ Matches(t, rec) => Raise(t, Raised(t, n, words), rec) =
                                 Raised(t, n + 1, IF n = 0 THEN FilledIn(rec) ELSE words)
<1>. DEFINE acc == Raised(t, n, words)
            p == Priority(t)
            told == FilledIn(rec)
<1>0. /\ acc.count = n /\ acc.priority = (IF n = 0 THEN 0 ELSE p + Extra(n))
      /\ acc.words = (IF n = 0 THEN <<>> ELSE words)
  BY DEF Raised
<1>1. CASE ~Matches(t, rec)
  BY <1>1 DEF Raise
<1>2. CASE Matches(t, rec) /\ n = 0
  <2>1. Raise(t, acc, rec) = [count |-> 1, priority |-> p, words |-> told]
    BY <1>0, <1>2 DEF Raise
  <2>2. p + Extra(1) = p
    BY PriorityType DEF Extra
  <2>3. Raised(t, 1, told) = [count |-> 1, priority |-> p + Extra(1), words |-> told]
    BY DEF Raised
  <2>. HIDE DEF told, p
  <2>. QED
    BY <1>2, <2>1, <2>2, <2>3 DEF told
<1>3. CASE Matches(t, rec) /\ n # 0
  <2>1. Raise(t, acc, rec) =
          [count |-> n + 1, priority |-> Boost(acc.priority, n + 1), words |-> words]
    BY <1>0, <1>3 DEF Raise
  <2>2. p \in Int
    BY PriorityType
  <2>. HIDE DEF p
  <2>3. Boost(p + Extra(n), n + 1) = p + Extra(n + 1)
    BY <1>3, <2>2, Extras
  <2>4. Raised(t, n + 1, words) = [count |-> n + 1, priority |-> p + Extra(n + 1), words |-> words]
    BY <1>3 DEF Raised, p
  <2>. QED
    BY <1>0, <1>3, <2>1, <2>3, <2>4
<1>. QED
  BY <1>1, <1>2, <1>3

-----------------------------------------------------------------------------
\* The fold over the records, newest last: what it makes of a template is told
\* by how many of them call for it, and its words by the first that does.

Calls(t, recs, T) == {i \in T : Matches(t, recs[i])}
FirstCall(t, recs, T) == CHOOSE i \in Calls(t, recs, T) : \A j \in Calls(t, recs, T) : i <= j
Recalled(t, recs, T) ==
  Raised(t, Cardinality(Calls(t, recs, T)), FilledIn(recs[FirstCall(t, recs, T)]))
Raises(t, recs, acc) ==
  acc = [T \in SUBSET DOMAIN recs |->
           IF T = {} THEN Untriggered ELSE Raise(t, acc[T \ {Max(T)}], recs[Max(T)])]

LEMMA AggregatedBySteps ==
  ASSUME NEW recs
  PROVE  Aggregated(recs) =
           [t \in {u \in Library : Calls(u, recs, DOMAIN recs) # {}} |->
              (CHOOSE acc : Raises(t, recs, acc))[DOMAIN recs]]
<1>1. {u \in Library : Calls(u, recs, DOMAIN recs) # {}} =
        {u \in Library : \E i \in DOMAIN recs : Matches(u, recs[i])}
  BY DEF Calls
<1>. QED
  BY <1>1 DEF Aggregated, FoldLeft, MapThenFoldSet, Raises

LEMMA CallsCounted ==
  ASSUME NEW n \in Nat, NEW recs, DOMAIN recs = 1 .. n, NEW t
  PROVE  /\ \A T \in SUBSET (1 .. n) :
               /\ IsFiniteSet(T) /\ IsFiniteSet(Calls(t, recs, T))
               /\ Cardinality(Calls(t, recs, T)) \in Nat
         /\ \A T \in SUBSET (1 .. n) : T # {} =>
               /\ Max(T) \in T
               /\ Cardinality(Calls(t, recs, T)) =
                    IF Matches(t, recs[Max(T)])
                    THEN Cardinality(Calls(t, recs, T \ {Max(T)})) + 1
                    ELSE Cardinality(Calls(t, recs, T \ {Max(T)}))
<1>1. IsFiniteSet(1 .. n)
  BY FS_Interval
<1>2. ASSUME NEW T \in SUBSET (1 .. n)
      PROVE  /\ IsFiniteSet(T) /\ IsFiniteSet(Calls(t, recs, T))
             /\ Cardinality(Calls(t, recs, T)) \in Nat
  <2>1. IsFiniteSet(T)
    BY <1>1, FS_Subset
  <2>2. Calls(t, recs, T) \subseteq T
    BY DEF Calls
  <2>. QED
    BY <2>1, <2>2, FS_Subset, FS_CardinalityType
<1>3. ASSUME NEW T \in SUBSET (1 .. n), T # {}
      PROVE  /\ Max(T) \in T
             /\ Cardinality(Calls(t, recs, T)) =
                  IF Matches(t, recs[Max(T)])
                  THEN Cardinality(Calls(t, recs, T \ {Max(T)})) + 1
                  ELSE Cardinality(Calls(t, recs, T \ {Max(T)}))
  <2>. DEFINE x == Max(T)
              rest == Calls(t, recs, T \ {x})
  <2>1. x \in T
    BY <1>3, Largest
  <2>2. IsFiniteSet(rest) /\ x \notin rest
    <3>1. T \ {x} \in SUBSET (1 .. n)
      OBVIOUS
    <3>2. x \notin rest
      BY DEF Calls
    <3>. QED
      BY <1>2, <3>1, <3>2
  <2>3. Calls(t, recs, T) = IF Matches(t, recs[x]) THEN rest \cup {x} ELSE rest
    <3>. HIDE DEF x
    <3>. QED
      BY <2>1 DEF Calls
  <2>. HIDE DEF x, rest
  <2>4. Cardinality(rest \cup {x}) = Cardinality(rest) + 1
    BY <2>2, FS_AddElement
  <2>. QED
    BY <2>1, <2>3, <2>4 DEF x, rest
<1>. QED
  BY <1>2, <1>3

\* A later record does not change which is the first that calls.
LEMMA FirstStays ==
  ASSUME NEW n \in Nat, NEW recs, DOMAIN recs = 1 .. n, NEW t,
         NEW T \in SUBSET (1 .. n), T # {}, NEW x, x = Max(T)
  PROVE  /\ Calls(t, recs, T \ {x}) # {} => FirstCall(t, recs, T) = FirstCall(t, recs, T \ {x})
         /\ (Calls(t, recs, T \ {x}) = {} /\ Matches(t, recs[x])) => FirstCall(t, recs, T) = x
<1>. DEFINE rest == Calls(t, recs, T \ {x})
            all == Calls(t, recs, T)
<1>1. x \in T /\ \A y \in T : y <= x
  BY Largest
<1>2. all = IF Matches(t, recs[x]) THEN rest \cup {x} ELSE rest
  BY <1>1 DEF Calls
<1>3. rest \subseteq 1 .. n /\ rest \subseteq T \ {x} /\ x \in 1 .. n
  BY <1>1 DEF Calls
<1>. HIDE DEF rest, all
<1>4. ASSUME rest # {} PROVE FirstCall(t, recs, T) = FirstCall(t, recs, T \ {x})
  <2>1. PICK i \in rest : \A j \in rest : i <= j
    <3>1. rest \subseteq Nat
      BY <1>3
    <3>. QED
      BY <1>4, <3>1, SmallestNumber
  <2>2. \A k \in all : (\A j \in all : k <= j) <=> k = i
    BY <1>1, <1>2, <1>3, <2>1
  <2>3. \A k \in rest : (\A j \in rest : k <= j) <=> k = i
    BY <1>3, <2>1
  <2>4. i \in all
    BY <1>2, <2>1
  <2>5. (CHOOSE k \in all : \A j \in all : k <= j) = i
    BY <2>2, <2>4
  <2>6. (CHOOSE k \in rest : \A j \in rest : k <= j) = i
    BY <2>1, <2>3
  <2>. QED
    BY <2>5, <2>6 DEF FirstCall, all, rest
<1>5. ASSUME rest = {}, Matches(t, recs[x]) PROVE FirstCall(t, recs, T) = x
  <2>1. all = {x}
    BY <1>2, <1>5
  <2>2. (CHOOSE k \in {x} : \A j \in {x} : k <= j) = x
    BY <1>3
  <2>. QED
    BY <2>1, <2>2 DEF FirstCall, all
<1>. QED
  BY <1>4, <1>5 DEF rest

\* One step of the fold.
LEMMA RecalledOnce ==
  ASSUME NEW n \in Nat, NEW recs, DOMAIN recs = 1 .. n, NEW t \in Library,
         NEW T \in SUBSET (1 .. n)
  PROVE  Recalled(t, recs, T) =
           IF T = {} THEN Untriggered
           ELSE Raise(t, Recalled(t, recs, T \ {Max(T)}), recs[Max(T)])
<1>1. CASE T = {}
  <2>1. Calls(t, recs, T) = {}
    BY <1>1 DEF Calls
  <2>2. Cardinality(Calls(t, recs, T)) = 0
    BY <2>1, FS_EmptySet
  <2>. QED
    BY <1>1, <2>2, RaisedNone DEF Recalled
<1>2. CASE T # {}
  <2>. DEFINE x == Max(T)
              rest == Calls(t, recs, T \ {x})
              k == Cardinality(rest)
              w == FilledIn(recs[FirstCall(t, recs, T \ {x})])
              v == FilledIn(recs[FirstCall(t, recs, T)])
              rec == recs[x]
  <2>1. T \ {x} \in SUBSET (1 .. n)
    OBVIOUS
  <2>2. k \in Nat /\ (k = 0 <=> rest = {})
    BY <2>1, CallsCounted, FS_EmptySet
  <2>3. Cardinality(Calls(t, recs, T)) = IF Matches(t, rec) THEN k + 1 ELSE k
    BY <1>2, CallsCounted
  <2>0. ASSUME NEW m, m = Max(T)
        PROVE  /\ Calls(t, recs, T \ {m}) # {} => FirstCall(t, recs, T) = FirstCall(t, recs, T \ {m})
               /\ (Calls(t, recs, T \ {m}) = {} /\ Matches(t, recs[m])) => FirstCall(t, recs, T) = m
    BY <1>2, <2>0, FirstStays
  <2>4. rest # {} => v = w
    <3>1. rest # {} => FirstCall(t, recs, T) = FirstCall(t, recs, T \ {x})
      BY <2>0
    <3>. HIDE DEF rest, x
    <3>. QED
      BY <3>1
  <2>5. (rest = {} /\ Matches(t, rec)) => v = FilledIn(rec)
    <3>1. (rest = {} /\ Matches(t, rec)) => FirstCall(t, recs, T) = x
      BY <2>0
    <3>. HIDE DEF rest, x
    <3>. QED
      BY <3>1
  <2>6. /\ Recalled(t, recs, T \ {x}) = Raised(t, k, w)
        /\ Recalled(t, recs, T) = Raised(t, IF Matches(t, rec) THEN k + 1 ELSE k, v)
    BY <2>3 DEF Recalled
  <2>. HIDE DEF k, w, v, rest, rec
  <2>7. /\ ~Matches(t, rec) => Raise(t, Raised(t, k, w), rec) = Raised(t, k, w)
        /\ Matches(t, rec) => Raise(t, Raised(t, k, w), rec) =
                                Raised(t, k + 1, IF k = 0 THEN FilledIn(rec) ELSE w)
    BY <2>2, RaisedOnce
  <2>8. k = 0 => Raised(t, k, w) = Raised(t, k, v)
    BY RaisedNone
  <2>9. Raise(t, Raised(t, k, w), rec) = Raised(t, IF Matches(t, rec) THEN k + 1 ELSE k, v)
    BY <2>2, <2>4, <2>5, <2>7, <2>8
  <2>. QED
    BY <1>2, <2>6, <2>9 DEF rec
<1>. QED
  BY <1>1, <1>2

LEMMA RaisesExist ==
  ASSUME NEW n \in Nat, NEW recs, DOMAIN recs = 1 .. n, NEW t \in Library
  PROVE  \E acc : Raises(t, recs, acc)
<1>. DEFINE acc == [T \in SUBSET (1 .. n) |-> Recalled(t, recs, T)]
<1>1. ASSUME NEW T \in SUBSET (1 .. n)
      PROVE  acc[T] = IF T = {} THEN Untriggered
                      ELSE Raise(t, acc[T \ {Max(T)}], recs[Max(T)])
  <2>1. T \ {Max(T)} \in SUBSET (1 .. n)
    OBVIOUS
  <2>2. acc[T] = Recalled(t, recs, T) /\ acc[T \ {Max(T)}] = Recalled(t, recs, T \ {Max(T)})
    BY <2>1
  <2>. HIDE DEF acc
  <2>. QED
    BY <2>2, RecalledOnce
<1>2. acc = [T \in SUBSET (1 .. n) |-> acc[T]]
  OBVIOUS
<1>3. Raises(t, recs, acc)
  <2>. HIDE DEF acc
  <2>. QED
    BY <1>1, <1>2 DEF Raises
<1>. QED
  BY <1>3

LEMMA RaisesAgree ==
  ASSUME NEW n \in Nat, NEW recs, DOMAIN recs = 1 .. n, NEW t \in Library,
         NEW acc, Raises(t, recs, acc)
  PROVE  acc[1 .. n] = Recalled(t, recs, 1 .. n)
<1>. DEFINE D == 1 .. n
            P == {T \in SUBSET D : acc[T] = Recalled(t, recs, T)}
<1>1. IsFiniteSet(D)
  BY FS_Interval
<1>2. ASSUME NEW T \in SUBSET D, \A x \in T : T \ {x} \in P
      PROVE  T \in P
  <2>1. acc[T] = IF T = {} THEN Untriggered
                 ELSE Raise(t, acc[T \ {Max(T)}], recs[Max(T)])
    BY DEF Raises
  <2>2. T # {} => acc[T \ {Max(T)}] = Recalled(t, recs, T \ {Max(T)})
    BY <1>2, Largest
  <2>3. acc[T] = Recalled(t, recs, T)
    BY <2>1, <2>2, RecalledOnce
  <2>. QED
    BY <2>3
<1>3. D \in P
  <2>. HIDE DEF P, D
  <2>. QED
    BY <1>1, <1>2, StrongInduction
<1>. QED
  BY <1>3

\* What the aggregation comes to.
LEMMA AggregatedCounts ==
  ASSUME NEW n \in Nat, NEW recs, DOMAIN recs = 1 .. n
  PROVE  Aggregated(recs) =
           [t \in {u \in Library : Calls(u, recs, 1 .. n) # {}} |-> Recalled(t, recs, 1 .. n)]
<1>1. ASSUME NEW t \in Library
      PROVE  (CHOOSE acc : Raises(t, recs, acc))[1 .. n] = Recalled(t, recs, 1 .. n)
  <2>. DEFINE acc == CHOOSE a : Raises(t, recs, a)
  <2>1. Raises(t, recs, acc)
    BY RaisesExist
  <2>. HIDE DEF acc
  <2>2. acc[1 .. n] = Recalled(t, recs, 1 .. n)
    BY <2>1, RaisesAgree
  <2>. QED
    BY <2>2 DEF acc
<1>. QED
  BY <1>1, AggregatedBySteps

\* What is given, as often as it is called for, and in whose words.
LEMMA AdviceGiven ==
  ASSUME NEW n \in Nat, NEW recs, DOMAIN recs = 1 .. n, NEW t \in DOMAIN Aggregated(recs)
  PROVE  LET k == Cardinality(Calls(t, recs, 1 .. n))
             i == FirstCall(t, recs, 1 .. n)
         IN
         /\ t \in Library /\ k \in Nat /\ k > 0
         /\ Aggregated(recs)[t].count = k
         /\ Aggregated(recs)[t].priority = Priority(t) + Extra(k)
         /\ Aggregated(recs)[t].words = FilledIn(recs[i])
         /\ i \in 1 .. n /\ Matches(t, recs[i])
         /\ \A j \in 1 .. i - 1 : ~Matches(t, recs[j])
<1>. DEFINE S == Calls(t, recs, 1 .. n)
            k == Cardinality(S)
            i == FirstCall(t, recs, 1 .. n)
<1>1. /\ t \in Library /\ S # {}
      /\ Aggregated(recs)[t] = Raised(t, k, FilledIn(recs[i]))
  <2>. DEFINE D == {u \in Library : Calls(u, recs, 1 .. n) # {}}
  <2>1. Aggregated(recs) = [u \in D |-> Recalled(u, recs, 1 .. n)]
    BY AggregatedCounts
  <2>2. t \in D /\ Aggregated(recs)[t] = Recalled(t, recs, 1 .. n)
    <3>. HIDE DEF D
    <3>. QED
      BY <2>1
  <2>. QED
    BY <2>2 DEF Recalled
<1>2. k \in Nat /\ IsFiniteSet(S)
  BY CallsCounted
<1>3. k # 0
  BY <1>1, <1>2, FS_EmptySet
<1>4. i \in S /\ \A j \in S : i <= j
  <2>1. S \subseteq Nat
    BY DEF Calls
  <2>2. \E m \in S : \A j \in S : m <= j
    <3>. HIDE DEF S
    <3>. QED
      BY <1>1, <2>1, SmallestNumber
  <2>. QED
    BY <2>2 DEF FirstCall
<1>5. i \in 1 .. n /\ Matches(t, recs[i])
  BY <1>4 DEF Calls
<1>6. \A j \in 1 .. i - 1 : ~Matches(t, recs[j])
  BY <1>4, <1>5 DEF Calls
<1>. HIDE DEF S, k, i
<1>7. /\ Aggregated(recs)[t].count = k
      /\ Aggregated(recs)[t].priority = Priority(t) + Extra(k)
      /\ Aggregated(recs)[t].words = FilledIn(recs[i])
  BY <1>1, <1>3 DEF Raised
<1>. QED
  BY <1>1, <1>2, <1>3, <1>5, <1>6, <1>7 DEF S, k, i

\* The same records in the opposite order call for a template as often.
LEMMA CallsReversed ==
  ASSUME NEW n \in Nat, NEW recs, DOMAIN recs = 1 .. n, NEW back, DOMAIN back = 1 .. n,
         \A i \in 1 .. n : back[i] = recs[(n - i) + 1], NEW t
  PROVE  /\ Cardinality(Calls(t, back, 1 .. n)) = Cardinality(Calls(t, recs, 1 .. n))
         /\ Calls(t, back, 1 .. n) # {} <=> Calls(t, recs, 1 .. n) # {}
<1>. DEFINE S == Calls(t, recs, 1 .. n)
            R == Calls(t, back, 1 .. n)
            f == [i \in S |-> (n - i) + 1]
<1>1. \A i \in 1 .. n : (n - i) + 1 \in 1 .. n /\ (n - ((n - i) + 1)) + 1 = i
  OBVIOUS
<1>2. S \subseteq 1 .. n /\ R \subseteq 1 .. n
  BY DEF Calls
<1>3. \A i \in S : (n - i) + 1 \in R
  BY <1>1, <1>2 DEF Calls
<1>4. \A i \in R : (n - i) + 1 \in S
  BY <1>1, <1>2 DEF Calls
<1>5. f \in Surjection(S, R)
  <2>1. f \in [S -> R]
    BY <1>3
  <2>2. \A j \in R : \E i \in S : f[i] = j
    <3>. SUFFICES ASSUME NEW j \in R PROVE \E i \in S : f[i] = j
      OBVIOUS
    <3>1. (n - j) + 1 \in S /\ (n - ((n - j) + 1)) + 1 = j
      BY <1>1, <1>2, <1>4
    <3>. QED
      BY <3>1
  <2>. QED
    BY <2>1, <2>2 DEF Surjection
<1>6. f \in Injection(S, R)
  <2>1. \A i, j \in S : f[i] = f[j] => i = j
    <3>. SUFFICES ASSUME NEW i \in S, NEW j \in S, (n - i) + 1 = (n - j) + 1 PROVE i = j
      OBVIOUS
    <3>1. i \in Int /\ j \in Int
      BY <1>2
    <3>. QED
      BY <3>1
  <2>. HIDE DEF f, S, R
  <2>. QED
    BY <1>5, <2>1 DEF Injection, IsInjective, Surjection
<1>7. IsFiniteSet(S)
  BY CallsCounted
<1>8. Cardinality(R) = Cardinality(S)
  <2>. HIDE DEF f, S, R
  <2>. QED
    BY <1>5, <1>6, <1>7, FS_Surjection
<1>9. R # {} <=> S # {}
  BY <1>3, <1>4
<1>. QED
  BY <1>8, <1>9

LEMMA AggregatedReversed ==
  ASSUME NEW recs, recs \in Seq(Range(recs))
  PROVE  /\ DOMAIN Aggregated(Reverse(recs)) = DOMAIN Aggregated(recs)
         /\ \A t \in DOMAIN Aggregated(recs) :
               /\ Aggregated(Reverse(recs))[t].count = Aggregated(recs)[t].count
               /\ Aggregated(Reverse(recs))[t].priority = Aggregated(recs)[t].priority
<1>. DEFINE n == Len(recs)
            back == Reverse(recs)
<1>1. n \in Nat /\ DOMAIN recs = 1 .. n
  OBVIOUS
<1>2. DOMAIN back = 1 .. n /\ \A i \in 1 .. n : back[i] = recs[(n - i) + 1]
  BY DEF Reverse
<1>. HIDE DEF n, back
<1>3. \A t : /\ Cardinality(Calls(t, back, 1 .. n)) = Cardinality(Calls(t, recs, 1 .. n))
             /\ Calls(t, back, 1 .. n) # {} <=> Calls(t, recs, 1 .. n) # {}
  BY <1>1, <1>2, CallsReversed
<1>4. DOMAIN Aggregated(recs) = {u \in Library : Calls(u, recs, 1 .. n) # {}}
  BY <1>1, AggregatedCounts
<1>5. DOMAIN Aggregated(back) = {u \in Library : Calls(u, back, 1 .. n) # {}}
  BY <1>1, <1>2, AggregatedCounts
<1>6. DOMAIN Aggregated(back) = DOMAIN Aggregated(recs)
  BY <1>3, <1>4, <1>5
<1>7. ASSUME NEW t \in DOMAIN Aggregated(recs)
      PROVE  /\ Aggregated(back)[t].count = Aggregated(recs)[t].count
             /\ Aggregated(back)[t].priority = Aggregated(recs)[t].priority
  BY <1>1, <1>2, <1>3, <1>6, AdviceGiven
<1>. QED
  BY <1>6, <1>7 DEF back

LEMMA AdviceRanks ==
  ASSUME NEW recs, recs \in Seq(Range(recs)),
         NEW s \in DOMAIN Aggregated(recs), NEW t \in DOMAIN Aggregated(recs),
         Priority(s) = Priority(t), Aggregated(recs)[s].count > Aggregated(recs)[t].count
  PROVE  Aggregated(recs)[s].priority > Aggregated(recs)[t].priority
<1>. DEFINE n == Len(recs)
            a == Cardinality(Calls(s, recs, 1 .. n))
            b == Cardinality(Calls(t, recs, 1 .. n))
            p == Priority(s)
<1>1. n \in Nat /\ DOMAIN recs = 1 .. n
  OBVIOUS
<1>. HIDE DEF n
<1>2. /\ s \in Library /\ a \in Nat /\ a > 0 /\ b \in Nat /\ b > 0
      /\ Aggregated(recs)[s].count = a /\ Aggregated(recs)[s].priority = p + Extra(a)
      /\ Aggregated(recs)[t].count = b /\ Aggregated(recs)[t].priority = p + Extra(b)
  BY <1>1, AdviceGiven
<1>3. p \in Int
  BY <1>2, PriorityType
<1>. HIDE DEF a, b, p
<1>4. Extra(b) < Extra(a) /\ Extra(a) \in Int /\ Extra(b) \in Int
  BY <1>2, Extras
<1>. QED
  BY <1>2, <1>3, <1>4

\* Two templates have two places.
LEMMA OneShelf ==
  ASSUME NEW t \in Library
  PROVE  Shelf(t) \in 1 .. 21 /\ Titled[Shelf(t)] = t
<1>1. DOMAIN Titled = 1 .. 21
  BY DEF Titled
<1>2. \E n \in 1 .. 21 : Titled[n] = t
  BY Shelved
<1>. QED
  BY <1>1, <1>2 DEF Shelf

\* The list is in one order.
LEMMA NoTies ==
  ASSUME NEW recs, recs \in Seq(Range(recs)),
         NEW s \in DOMAIN Aggregated(recs), NEW t \in DOMAIN Aggregated(recs), s # t
  PROVE  Precedes(Aggregated(recs), s, t) \/ Precedes(Aggregated(recs), t, s)
<1>. DEFINE n == Len(recs)
            advice == Aggregated(recs)
<1>1. n \in Nat /\ DOMAIN recs = 1 .. n
  OBVIOUS
<1>. HIDE DEF n
<1>2. s \in Library /\ t \in Library
  BY <1>1, AdviceGiven
<1>3. advice[s].priority \in Int /\ advice[t].priority \in Int
  <2>1. ASSUME NEW u \in DOMAIN advice PROVE advice[u].priority \in Int
    <3>. DEFINE k == Cardinality(Calls(u, recs, 1 .. n))
    <3>1. u \in Library /\ k \in Nat /\ advice[u].priority = Priority(u) + Extra(k)
      BY <1>1, AdviceGiven
    <3>. HIDE DEF k
    <3>2. Priority(u) \in Int /\ Extra(k) \in Int
      BY <3>1, PriorityType, Extras
    <3>. QED
      BY <3>1, <3>2
  <2>. QED
    BY <2>1
<1>4. s.effort \in Int /\ t.effort \in Int
  BY <1>2, Marks
<1>5. Shelf(s) \in Int /\ Shelf(t) \in Int /\ Shelf(s) # Shelf(t)
  BY <1>2, OneShelf
<1>. HIDE DEF advice
<1>. QED
  BY <1>3, <1>4, <1>5 DEF Precedes, advice

-----------------------------------------------------------------------------
\* Every question has one of the categories a plan or a review may give it.

InCategories(plan) ==
  /\ Len(plan) \in Nat
  /\ \A n \in 1 .. Len(plan) : plan[n].category \in ALLOWED_PROMPT_CATEGORIES

LEMMA LeastPlaced ==
  ASSUME NEW N, N \subseteq Nat, N # {}
  PROVE  Min(N) \in N /\ \A m \in N : Min(N) <= m
<1>1. PICK n \in N : \A m \in N : n <= m
  BY SmallestNumber
<1>. QED
  BY <1>1 DEF Min

LEMMA CategoryTurns ==
  /\ Lap = 6
  /\ \A k \in 1 .. 6 : CATEGORIES[k] \in Range(CATEGORIES)
  /\ \A k \in Int : CATEGORIES[(k % Lap) + 1] \in Range(CATEGORIES)
<1>1. Lap = 6 /\ DOMAIN CATEGORIES = 1 .. 6
  BY DEF Lap, CATEGORIES
<1>2. \A k \in 1 .. 6 : CATEGORIES[k] \in Range(CATEGORIES)
  BY <1>1 DEF Range
<1>3. \A k \in Int : (k % 6) + 1 \in 1 .. 6
  OBVIOUS
<1>. QED
  BY <1>1, <1>2, <1>3

LEMMA SpecsCategorized ==
  ASSUME NEW profile, NEW count, NEW k \in DOMAIN QuestionSpecs(profile, count), k \in Int
  PROVE  QuestionSpecs(profile, count)[k].category \in Range(CATEGORIES)
<1>. DEFINE texts == Texts(profile, count)
<1>1. /\ k \in DOMAIN texts
      /\ QuestionSpecs(profile, count)[k] =
           [text |-> texts[k],
            category |-> IF texts[k][1] \in Range(CATEGORIES) THEN texts[k][1]
                         ELSE CATEGORIES[((k - 1) % Lap) + 1]]
  BY DEF QuestionSpecs
<1>2. CATEGORIES[((k - 1) % Lap) + 1] \in Range(CATEGORIES)
  BY CategoryTurns
<1>. HIDE DEF texts
<1>. QED
  BY <1>1, <1>2

LEMMA SpecsNumbered ==
  ASSUME NEW profile, NEW count, NEW k \in DOMAIN QuestionSpecs(profile, count)
  PROVE  k \in Int
  BY DEF QuestionSpecs, Texts

LEMMA GeneratedInCategories ==
  ASSUME NEW profile, NEW count \in Nat
  PROVE  InCategories(GeneratePrompts(profile, count))
<1>. DEFINE budget == Min({profile.products, count \div 4})
            probes == BrandPositions(budget, count)
            questions == QuestionSpecs(profile, count)
            Before(pos) == Cardinality({p \in probes : p < pos})
            Turn(pos) == pos - Before(pos) + 1
            missing == {pos \in 0 .. count - 1 \ probes : Turn(pos) \notin DOMAIN questions}
            length == IF missing = {} THEN count ELSE Min(missing)
            plan == [n \in 1 .. length |->
                       IF n - 1 \in probes
                       THEN [text |-> <<BRAND_PROBE, Before(n - 1) + 1, 0>>, category |-> BRAND_PROBE]
                       ELSE questions[Turn(n - 1)]]
<1>1. GeneratePrompts(profile, count) = plan
  BY DEF GeneratePrompts
<1>2. length \in Nat /\ length <= count /\ \A pos \in missing : length <= pos
  <2>1. missing \subseteq Nat /\ \A pos \in missing : pos <= count
    OBVIOUS
  <2>. HIDE DEF missing
  <2>2. CASE missing = {}
    BY <2>2
  <2>3. CASE missing # {}
    <3>1. Min(missing) \in missing /\ \A pos \in missing : Min(missing) <= pos
      BY <2>1, <2>3, LeastPlaced
    <3>. QED
      BY <2>1, <2>3, <3>1
  <2>. QED
    BY <2>2, <2>3
<1>3. BRAND_PROBE \in ALLOWED_PROMPT_CATEGORIES /\ Range(CATEGORIES) \subseteq ALLOWED_PROMPT_CATEGORIES
  BY DEF ALLOWED_PROMPT_CATEGORIES
<1>4. ASSUME NEW n \in 1 .. length PROVE plan[n].category \in ALLOWED_PROMPT_CATEGORIES
  <2>1. CASE n - 1 \in probes
    <3>1. plan[n] = [text |-> <<BRAND_PROBE, Before(n - 1) + 1, 0>>, category |-> BRAND_PROBE]
      BY <2>1
    <3>2. plan[n].category = BRAND_PROBE
      <4>. HIDE DEF plan, Before
      <4>. QED
        BY <3>1
    <3>. QED
      BY <1>3, <3>2
  <2>2. CASE n - 1 \notin probes
    <3>1. n \in Int /\ n - 1 \in 0 .. count - 1 /\ n - 1 < length
      <4>. HIDE DEF length
      <4>. QED
        BY <1>2
    <3>2. n - 1 \notin missing
      <4>. HIDE DEF length, missing
      <4>. QED
        BY <1>2, <3>1
    <3>3. Turn(n - 1) \in DOMAIN questions
      <4>. HIDE DEF length, questions, Turn
      <4>. QED
        BY <2>2, <3>1, <3>2
    <3>4. plan[n] = questions[Turn(n - 1)]
      BY <2>2
    <3>. HIDE DEF plan, Turn, length, missing
    <3>5. questions[Turn(n - 1)].category \in Range(CATEGORIES)
      BY <3>3, SpecsNumbered, SpecsCategorized
    <3>. QED
      BY <1>3, <3>4, <3>5
  <2>. QED
    BY <2>1, <2>2
<1>5. Len(plan) = length
  <2>. HIDE DEF length
  <2>. QED
    BY <1>2
<1>. HIDE DEF plan, length
<1>. QED
  BY <1>1, <1>2, <1>4, <1>5 DEF InCategories

LEMMA CheckerInCategories ==
  ASSUME NEW profile
  PROVE  InCategories(CheckerPrompts(profile))
<1>. DEFINE plan == CheckerPrompts(profile)
            Category(n) == CATEGORIES[((n - 1) \div 2) + 1]
<1>1. /\ Len(plan) = 12
      /\ \A n \in 1 .. 12 : plan[n].category = Category(n)
  BY CategoryTurns DEF CheckerPrompts
<1>2. \A n \in 1 .. 12 : ((n - 1) \div 2) + 1 \in 1 .. 6
  OBVIOUS
<1>3. \A n \in 1 .. 12 : Category(n) \in Range(CATEGORIES)
  BY <1>2, CategoryTurns
<1>. HIDE DEF plan, Category
<1>4. InCategories(plan)
  BY <1>1, <1>3 DEF InCategories, ALLOWED_PROMPT_CATEGORIES
<1>. QED
  BY <1>4 DEF plan

LEMMA NotGeneral == "general_discovery" \notin ALLOWED_PROMPT_CATEGORIES
<1>1. \A category \in Range(CATEGORIES) : category # "general_discovery"
  BY DEF CATEGORIES, Range
<1>. QED
  BY <1>1 DEF ALLOWED_PROMPT_CATEGORIES, BRAND_PROBE

\* The questions of a run are categorized once planned, and its records with them.
PlanInv ==
  /\ run \in Runs
  /\ InCategories(prompts)
  /\ Len(records) \in Nat
  /\ DOMAIN records = 1 .. Len(records)
  /\ \A i \in DOMAIN records : records[i].category \in ALLOWED_PROMPT_CATEGORIES

LEMMA CategoryOfRecord ==
  ASSUME NEW n, NEW raw
  PROVE  AuditRecord(n, raw).category = Prompt(n).category
  BY DEF AuditRecord, Merged, Failed

LEMMA QuestionAsked ==
  ASSUME NEW m \in Nat \ {0}, NEW q \in Nat, NEW n \in 1 .. m * q
  PROVE  ((n - 1) \div m) + 1 \in 1 .. q
<1>. DEFINE d == (n - 1) \div m
<1>1. n - 1 \in Nat /\ n - 1 < m * q
  OBVIOUS
<1>2. d \in Nat /\ m * d <= n - 1
  BY <1>1
<1>. HIDE DEF d
<1>3. d < q
  <2>. SUFFICES ASSUME d >= q PROVE FALSE
    BY <1>2
  <2>1. m * d >= m * q
    BY <1>2
  <2>. QED
    BY <1>1, <1>2, <2>1
<1>4. d + 1 \in 1 .. q
  BY <1>2, <1>3
<1>. QED
  BY <1>4 DEF d

LEMMA QuestionsCategorized == ScoreSpec => []PlanInv
<1>1. ScoreInit => PlanInv
  BY DEF ScoreInit, PlanInv, InCategories
<1>2. PlanInv /\ [ScoreNext]_scoreVars => PlanInv'
  <2>. SUFFICES ASSUME PlanInv, [ScoreNext]_scoreVars PROVE PlanInv'
    OBVIOUS
  <2>0. /\ run.models \in Nat \ {0} /\ run.count \in Nat /\ MaxAnswers(run) \in Nat
    BY RunsAssumption DEF PlanInv
  <2>1. CASE UNCHANGED <<run, prompts, records>>
    BY <2>1 DEF PlanInv, InCategories
  <2>2. CASE Plan
    <3>1. prompts' = Planned(run) /\ UNCHANGED <<run, records>>
      BY <2>2 DEF Plan
    <3>2. InCategories(Planned(run))
      BY <2>0, GeneratedInCategories, CheckerInCategories DEF Planned
    <3>3. InCategories(prompts')
      BY <3>1, <3>2
    <3>4. InCategories(prompts)'
      BY <3>3 DEF InCategories
    <3>. QED
      BY <3>1, <3>4 DEF PlanInv
  <2>3. CASE Review
    <3>1. UNCHANGED <<run, records>>
      BY <2>3 DEF Review
    <3>2. InCategories(prompts)'
      <4>1. CASE UNCHANGED prompts
        BY <4>1 DEF PlanInv, InCategories
      <4>2. CASE Reviewed(prompts', run.count)
        BY <2>0, <4>2 DEF Reviewed, InCategories, USER_PROMPT_EXTRA
      <4>. QED
        BY <2>3, <4>1, <4>2 DEF Review
    <3>. QED
      BY <3>1, <3>2 DEF PlanInv
  <2>4. CASE Respond
    <3>. DEFINE n == Len(records) + 1
    <3>1. PICK raw : records' = Append(records, AuditRecord(n, raw))
      BY <2>4 DEF Respond
    <3>2. UNCHANGED <<run, prompts>> /\ Len(records) < Min({MaxAnswers(run), run.models * Len(prompts)})
      BY <2>4 DEF Respond
    <3>. DEFINE rec == AuditRecord(n, raw)
                m == run.models
                q == Len(prompts)
                cap == MaxAnswers(run)
                old == Len(records)
    <3>3. m \in Nat \ {0} /\ q \in Nat /\ cap \in Nat /\ old \in Nat
      BY <2>0 DEF PlanInv, InCategories
    <3>4. old < Min({cap, m * q})
      BY <3>2
    <3>. HIDE DEF rec, m, q, cap, old
    <3>5. n = old + 1
      BY DEF old
    <3>6. n \in 1 .. m * q
      <4>1. m * q \in Int
        BY <3>3
      <4>2. Min({cap, m * q}) <= m * q
        BY <3>3, <4>1, Smaller
      <4>3. Min({cap, m * q}) \in Int
        BY <3>3, <4>1, Smaller
      <4>. QED
        BY <3>3, <3>4, <3>5, <4>1, <4>2, <4>3
    <3>7. ((n - 1) \div m) + 1 \in 1 .. q
      BY <3>3, <3>6, QuestionAsked
    <3>8. Prompt(n).category \in ALLOWED_PROMPT_CATEGORIES
      BY <3>7 DEF Prompt, PlanInv, InCategories, m, q
    <3>9. rec.category \in ALLOWED_PROMPT_CATEGORIES
      BY <3>8, CategoryOfRecord DEF rec
    <3>10. /\ Len(records') = Len(records) + 1 /\ DOMAIN records' = 1 .. Len(records) + 1
           /\ \A i \in 1 .. Len(records) : records'[i] = records[i]
           /\ records'[Len(records) + 1] = rec
      BY <3>1 DEF PlanInv, rec
    <3>11. \A i \in DOMAIN records' : records'[i].category \in ALLOWED_PROMPT_CATEGORIES
      BY <3>9, <3>10 DEF PlanInv
    <3>12. InCategories(prompts)'
      BY <3>2 DEF PlanInv, InCategories
    <3>. QED
      BY <3>2, <3>10, <3>11, <3>12 DEF PlanInv
  <2>. QED
    BY <2>1, <2>2, <2>3, <2>4 DEF ScoreNext, ReadSite, Footprint, SearchOne, Score, scoreVars
<1>. QED
  BY <1>1, <1>2, PTL DEF ScoreSpec

LEMMA AppStoreNeeds ==
  ASSUME NEW t \in Library, t.id = "app_store_optimization"
  PROVE  "general_discovery" \in t.needs
<1>1. \A id, impact, effort, gaps, needs :
         /\ Template(id, impact, effort, gaps, needs).id = id
         /\ Template(id, impact, effort, gaps, needs).needs = needs
  BY DEF Template
<1>2. t = Template("app_store_optimization", 3, 3, {"ux_positioning_gap",
                   "weak_feature_association"}, {"general_discovery"})
  BY <1>1, Shelved, SMTT(60) DEF Titled
<1>. QED
  BY <1>1, <1>2

\* What is advised is what the records call for.
AdviceInv ==
  /\ ClaimsInv
  /\ PlanInv
  /\ stage = "done" => interventions = Aggregated(records)

LEMMA NeverCalled ==
  ASSUME AdviceInv, NEW t \in DOMAIN Aggregated(records)
  PROVE  t.id \notin {"third_party_listicle", "app_store_optimization"}
<1>1. t \in Library /\ \E i \in DOMAIN records : Matches(t, records[i])
  BY DEF Aggregated
<1>2. PICK i \in DOMAIN records : Matches(t, records[i])
  BY <1>1
<1>. DEFINE rec == records[i]
<1>3. \A need \in t.needs : Meets(rec, need)
  BY <1>2 DEF Matches
<1>4. /\ rec.metrics.earned => rec.metrics.cited
      /\ rec.category # "general_discovery"
  BY NotGeneral DEF AdviceInv, ClaimsInv, Consistent, PlanInv
<1>. HIDE DEF rec
<1>5. Meets(rec, "earned") = rec.metrics.earned
  BY Zenon DEF Meets
<1>6. Meets(rec, "not_cited") = ~rec.metrics.cited
  BY Zenon DEF Meets
<1>7. Meets(rec, "general_discovery") = (rec.category = "general_discovery")
  BY Zenon DEF Meets
<1>8. t.id # "third_party_listicle"
  BY <1>1, <1>3, <1>4, <1>5, <1>6, ListicleNeeds
<1>9. t.id # "app_store_optimization"
  BY <1>1, <1>3, <1>4, <1>7, AppStoreNeeds
<1>. QED
  BY <1>8, <1>9

\* Which advice a finished run gives, how often it is called for and the order it
\* is listed in do not depend on the order its answers came in; one more answers
\* call for never ranks behind one of the same worth that fewer do; its words are
\* those of the first answer that calls for it; and two templates of the library
\* are dead: an earned citation is a citation, and no question planned or reviewed
\* is of the category the other asks for.
THEOREM AdviceIsSound == ScoreSpec => []AdviceSound
<1>. DEFINE Advised == stage = "done" => interventions = Aggregated(records)
<1>1. ScoreInit => Advised
  BY DEF ScoreInit
<1>2. Advised /\ [ScoreNext]_scoreVars => Advised'
  <2>. SUFFICES ASSUME Advised, [ScoreNext]_scoreVars PROVE Advised'
    OBVIOUS
  <2>1. CASE UNCHANGED <<stage, interventions, records>>
    BY <2>1
  <2>2. CASE stage' # "done"
    BY <2>2
  <2>3. CASE Score
    <3>1. interventions' = Aggregated(records) /\ records' = records
      BY <2>3 DEF Score
    <3>. QED
      BY <3>1
  <2>. QED
    BY <2>1, <2>2, <2>3
       DEF ScoreNext, ReadSite, Plan, Review, Respond, Footprint, SearchOne, scoreVars, scores
<1>3. AdviceInv => AdviceSound
  <2>. SUFFICES ASSUME AdviceInv, stage = "done" PROVE AdviceSound
    BY DEF AdviceSound, AdviceIsFair, NeverAdvised
  <2>1. interventions = Aggregated(records) /\ records \in Seq(Range(records))
    BY DEF AdviceInv, ClaimsInv
  <2>. DEFINE given == DOMAIN interventions
              back == Aggregated(Reverse(records))
  <2>a. /\ DOMAIN back = given
        /\ \A t \in given : /\ back[t].count = interventions[t].count
                            /\ back[t].priority = interventions[t].priority
    BY <2>1, AggregatedReversed
  <2>b. \A s, t \in given : Precedes(back, s, t) <=> Precedes(interventions, s, t)
    <3>. HIDE DEF back, given
    <3>. QED
      BY <2>a DEF Precedes
  <2>c. \A s, t \in given :
           s = t \/ Precedes(interventions, s, t) \/ Precedes(interventions, t, s)
    BY <2>1, NoTies
  <2>d. \A s, t \in given :
           (Priority(s) = Priority(t) /\ interventions[s].count > interventions[t].count)
             => Precedes(interventions, s, t)
    BY <2>1, AdviceRanks DEF Precedes
  <2>e. ASSUME NEW t \in given
        PROVE  \E i \in DOMAIN records :
                  /\ interventions[t].words = FilledIn(records[i])
                  /\ Matches(t, records[i])
                  /\ \A j \in 1 .. i - 1 : ~Matches(t, records[j])
    <3>1. Len(records) \in Nat /\ DOMAIN records = 1 .. Len(records)
      BY <2>1
    <3>2. t \in DOMAIN Aggregated(records)
      BY <2>1
    <3>. QED
      BY <2>1, <3>1, <3>2, AdviceGiven
  <2>2. AdviceIsFair
    BY <2>a, <2>b, <2>c, <2>d, <2>e DEF AdviceIsFair
  <2>3. NeverAdvised
    BY <2>1, NeverCalled DEF NeverAdvised
  <2>. QED
    BY <2>2, <2>3 DEF AdviceSound
<1>. QED
  BY <1>1, <1>2, <1>3, RecordsConsistent, QuestionsCategorized, PTL DEF ScoreSpec, AdviceInv

-----------------------------------------------------------------------------
(***************************************************************************)
(* The pages of a run agree.                                               *)
(*                                                                         *)
(* Whatever is published of a run is counted from its records, by model,   *)
(* by intent, by category and by rival: the lemmas say that the parts of   *)
(* each count are disjoint and that nothing is in none of them.            *)
(***************************************************************************)

\* Some of the numbers up to n.
LEMMA SomeCounted ==
  ASSUME NEW n \in Nat
  PROVE  /\ IsFiniteSet(1 .. n) /\ Cardinality(1 .. n) = n
         /\ \A T \in SUBSET (1 .. n) :
               /\ IsFiniteSet(T) /\ Cardinality(T) \in Nat
               /\ Cardinality(T) = 0 <=> T = {}
         /\ \A T \in SUBSET (1 .. n), R \in SUBSET (1 .. n) :
               R \subseteq T => Cardinality(R) <= Cardinality(T)
<1>1. IsFiniteSet(1 .. n) /\ Cardinality(1 .. n) = n
  BY FS_Interval
<1>2. ASSUME NEW T \in SUBSET (1 .. n)
      PROVE  /\ IsFiniteSet(T) /\ Cardinality(T) \in Nat
             /\ Cardinality(T) = 0 <=> T = {}
  BY <1>1, FS_Subset, FS_CardinalityType, FS_EmptySet
<1>3. ASSUME NEW T \in SUBSET (1 .. n), NEW R \in SUBSET (1 .. n), R \subseteq T
      PROVE  Cardinality(R) <= Cardinality(T)
  BY <1>2, <1>3, FS_Subset
<1>. QED
  BY <1>1, <1>2, <1>3

-----------------------------------------------------------------------------
\* The score of an answer by its citations.

LEMMA Weights ==
  ASSUME NEW rec, NEW score
  PROVE  /\ PositionWeight(rec.context) \in {0, 4, 7, 10}
         /\ SentimentWeight(rec.sentiment, score) \in {5, 9, 10}
         /\ CitationWeight(rec.metrics) \in {60, 85, 100}
         /\ ~rec.metrics.cited => CitationWeight(rec.metrics) = 60
         /\ ~rec.metrics.owned => CitationWeight(rec.metrics) # 100
<1>1. PositionWeight(rec.context) \in {0, 4, 7, 10}
  BY DEF PositionWeight
<1>2. SentimentWeight(rec.sentiment, score) \in {5, 9, 10}
  BY DEF SentimentWeight
<1>3. /\ CitationWeight(rec.metrics) \in {60, 85, 100}
      /\ ~rec.metrics.cited => CitationWeight(rec.metrics) = 60
      /\ ~rec.metrics.owned => CitationWeight(rec.metrics) # 100
  BY DEF CitationWeight
<1>. QED
  BY <1>1, <1>2, <1>3

LEMMA Products ==
  ASSUME NEW p \in {0, 4, 7, 10}, NEW c \in {60, 85, 100}, NEW s \in {5, 9, 10}
  PROVE  p * c * s \in Nat /\ p * c * s <= 100 * c
<1>1. p * c * s = (p * s) * c
  OBVIOUS
<1>2. p * s \in 0 .. 100
  OBVIOUS
<1>. QED
  BY <1>1, <1>2

LEMMA AnswerScored ==
  ASSUME NEW rec, NEW score
  PROVE  /\ PerPromptScore(rec, score) \in Nat
         /\ PerPromptScore(rec, score) <= 10000
         /\ ~rec.metrics.owned => PerPromptScore(rec, score) <= 8500
         /\ ~rec.metrics.cited => PerPromptScore(rec, score) <= 6000
         /\ ~rec.mentioned => PerPromptScore(rec, score) = 0
<1>. DEFINE p == PositionWeight(rec.context)
            c == CitationWeight(rec.metrics)
            s == SentimentWeight(rec.sentiment, score)
            all == PerPromptScore(rec, score)
<1>1. /\ p \in {0, 4, 7, 10} /\ s \in {5, 9, 10} /\ c \in {60, 85, 100}
      /\ ~rec.metrics.cited => c = 60
      /\ ~rec.metrics.owned => c # 100
  BY Weights
<1>2. /\ rec.mentioned => all = p * c * s
      /\ ~rec.mentioned => all = 0
  BY DEF PerPromptScore
<1>. HIDE DEF p, c, s, all
<1>3. p * c * s \in Nat /\ p * c * s <= 100 * c
  BY <1>1, Products
<1>4. all \in Nat /\ all <= 100 * c
  <2>1. CASE rec.mentioned
    BY <1>2, <1>3, <2>1
  <2>2. CASE ~rec.mentioned
    BY <1>1, <1>2, <2>2
  <2>. QED
    BY <2>1, <2>2
<1>5. /\ all \in Nat /\ all <= 10000
      /\ ~rec.metrics.owned => all <= 8500
      /\ ~rec.metrics.cited => all <= 6000
  BY <1>1, <1>4
<1>. QED
  BY <1>2, <1>5 DEF all

\* A sum of n numbers that are at most b.
LEMMA SumUpTo ==
  ASSUME NEW n \in Nat, NEW f, \A i \in 1 .. n : f[i] \in Nat, NEW b \in Nat,
         \A i \in 1 .. n : f[i] <= b
  PROVE  SumFunctionOnSet(f, 1 .. n) <= b * n
<1>. DEFINE g == [i \in 1 .. n |-> b]
            S == 1 .. n
<1>1. IsFiniteSet(S) /\ Cardinality(S) = n
  BY SomeCounted
<1>2. \A i \in S : g[i] = b /\ f[i] \in Int /\ g[i] \in Int /\ f[i] <= g[i]
  OBVIOUS
<1>. HIDE DEF g, S
<1>3. SumFunctionOnSet(f, S) <= SumFunctionOnSet(g, S)
  BY <1>1, <1>2, SumAtMost
<1>4. SumFunctionOnSet(g, S) = b * Cardinality(S)
  BY <1>1, <1>2, SumOfEqual
<1>. QED
  BY <1>1, <1>3, <1>4 DEF S

\* An answer that is not cited earns at most 60 of 100, one whose citations are not
\* the brand's own at most 85.
LEMMA ScoreFits ==
  ASSUME NEW n \in Nat, NEW recs, DOMAIN recs = 1 .. n, NEW score
  PROVE  /\ GeoSum(recs, score) <= 10000 * n
         /\ CitationSummary(recs).cited = 0 => GeoSum(recs, score) <= 6000 * n
         /\ CitationSummary(recs).owned = 0 => GeoSum(recs, score) <= 8500 * n
         /\ Cardinality(Mentions(recs, 1 .. n)) = 0 => GeoSum(recs, score) = 0
<1>. DEFINE f == [i \in 1 .. n |-> PerPromptScore(recs[i], score)]
            sum == SumFunctionOnSet(f, 1 .. n)
<1>1. GeoSum(recs, score) = sum
  BY DEF GeoSum, SumFunction
<1>2. \A i \in 1 .. n : f[i] \in Nat /\ f[i] <= 10000
  BY AnswerScored
<1>3. sum <= 10000 * n
  <2>. HIDE DEF f
  <2>. QED
    BY <1>2, SumUpTo
<1>4. ASSUME CitationSummary(recs).cited = 0 PROVE sum <= 6000 * n
  <2>. DEFINE C == {i \in 1 .. n : recs[i].metrics.cited}
  <2>1. Cardinality(C) = 0
    BY <1>4 DEF CitationSummary
  <2>2. C \in SUBSET (1 .. n)
    OBVIOUS
  <2>3. C = {}
    <3>. HIDE DEF C
    <3>. QED
      BY <2>1, <2>2, SomeCounted
  <2>4. \A i \in 1 .. n : f[i] <= 6000
    BY <2>3, AnswerScored
  <2>. HIDE DEF f, C
  <2>. QED
    BY <1>2, <2>4, SumUpTo
<1>5. ASSUME CitationSummary(recs).owned = 0 PROVE sum <= 8500 * n
  <2>. DEFINE C == {i \in 1 .. n : recs[i].metrics.owned}
  <2>1. Cardinality(C) = 0
    BY <1>5 DEF CitationSummary
  <2>2. C \in SUBSET (1 .. n)
    OBVIOUS
  <2>3. C = {}
    <3>. HIDE DEF C
    <3>. QED
      BY <2>1, <2>2, SomeCounted
  <2>4. \A i \in 1 .. n : f[i] <= 8500
    BY <2>3, AnswerScored
  <2>. HIDE DEF f, C
  <2>. QED
    BY <1>2, <2>4, SumUpTo
<1>6. ASSUME Cardinality(Mentions(recs, 1 .. n)) = 0 PROVE sum = 0
  <2>1. Mentions(recs, 1 .. n) \in SUBSET (1 .. n)
    BY DEF Mentions
  <2>2. Mentions(recs, 1 .. n) = {}
    BY <1>6, <2>1, SomeCounted
  <2>3. \A i \in 1 .. n : f[i] = 0
    BY <2>2, AnswerScored DEF Mentions
  <2>4. IsFiniteSet(1 .. n)
    BY SomeCounted
  <2>. HIDE DEF f
  <2>. QED
    BY <1>2, <2>3, <2>4, SumZero
<1>. QED
  BY <1>1, <1>3, <1>4, <1>5, <1>6

-----------------------------------------------------------------------------
\* The maps: answers counted by model, by intent and by category.

\* What finitely many elements are mapped to is finite.
LEMMA FewImages ==
  ASSUME NEW T, IsFiniteSet(T), NEW f, NEW M, \A x : x \in M <=> \E i \in T : x = f[i]
  PROVE  IsFiniteSet(M)
<1>. DEFINE g == [i \in T |-> f[i]]
<1>1. g \in Surjection(T, M)
  BY DEF Surjection
<1>. HIDE DEF g
<1>. QED
  BY <1>1, FS_Surjection

\* The checker's map counts every answer under one model.
LEMMA PresenceAddsUp ==
  ASSUME NEW n \in Nat, NEW recs, DOMAIN recs = 1 .. n
  PROVE  LET presence == EnginePresence(recs) IN
         /\ Cardinality(Mentions(recs, 1 .. n))
              = SumFunction([m \in DOMAIN presence |-> presence[m].mentioned])
         /\ n = SumFunction([m \in DOMAIN presence |-> presence[m].total])
<1>. DEFINE presence == EnginePresence(recs)
            M == {recs[i].model : i \in 1 .. n}
            class == [i \in 1 .. n |-> recs[i].model]
            those == [m \in M |-> {i \in 1 .. n : recs[i].model = m}]
            named == [m \in M |-> Mentions(recs, those[m])]
            f == [m \in M |-> presence[m].mentioned]
            g == [m \in M |-> presence[m].total]
            U == Mentions(recs, 1 .. n)
<1>1. DOMAIN presence = M
  BY DEF EnginePresence
<1>2. \A m \in M : f[m] = Cardinality(named[m]) /\ g[m] = Cardinality(those[m])
  BY DEF EnginePresence, Ratio
<1>2a. IsFiniteSet(1 .. n) /\ Cardinality(1 .. n) = n
  BY SomeCounted
<1>2b. \A x : x \in M <=> \E i \in 1 .. n : x = class[i]
  OBVIOUS
<1>3. IsFiniteSet(M)
  <2>. HIDE DEF M, class
  <2>. QED
    BY <1>2a, <1>2b, FewImages
<1>4. U \in SUBSET (1 .. n)
  BY DEF Mentions
<1>5. IsFiniteSet(U)
  BY <1>4, SomeCounted
<1>6. \A i \in 1 .. n : class[i] \in M
  OBVIOUS
<1>6a. \A i \in U : class[i] \in M
  BY <1>4, <1>6
<1>7. \A m \in M : \A i : i \in those[m] <=> (i \in 1 .. n /\ class[i] = m)
  OBVIOUS
<1>8. \A m \in M : \A i : i \in named[m] <=> (i \in U /\ class[i] = m)
  BY DEF Mentions
<1>9. DOMAIN f = M /\ DOMAIN g = M
  OBVIOUS
<1>. HIDE DEF M, class, those, named, f, g, U
<1>10. SumFunctionOnSet(f, M) = Cardinality(U)
  <2>1. \A m \in M : f[m] = Cardinality(named[m])
    BY <1>2
  <2>. QED
    BY <1>3, <1>5, <1>6a, <1>8, <2>1, CountByPart
<1>11. SumFunctionOnSet(g, M) = Cardinality(1 .. n)
  <2>1. \A m \in M : g[m] = Cardinality(those[m])
    BY <1>2
  <2>. QED
    BY <1>2a, <1>3, <1>6, <1>7, <2>1, CountByPart
<1>12. SumFunction(f) = Cardinality(U) /\ SumFunction(g) = n
  BY <1>2a, <1>9, <1>10, <1>11 DEF SumFunction
<1>. QED
  BY <1>1, <1>12 DEF f, g, U

LEMMA CategoriesSix ==
  Range(CATEGORIES) =
    {"recommendation", "makers", "comparison", "alternatives", "best-of", "use-case"}
<1>1. DOMAIN CATEGORIES = 1 .. 6
  BY DEF CATEGORIES
<1>2. \A c : c \in Range(CATEGORIES) <=> \E k \in 1 .. 6 : c = CATEGORIES[k]
  BY <1>1 DEF Range
<1>3. /\ CATEGORIES[1] = "recommendation" /\ CATEGORIES[2] = "makers"
      /\ CATEGORIES[3] = "comparison" /\ CATEGORIES[4] = "alternatives"
      /\ CATEGORIES[5] = "best-of" /\ CATEGORIES[6] = "use-case"
  BY DEF CATEGORIES
<1>. DEFINE All == {"recommendation", "makers", "comparison", "alternatives", "best-of", "use-case"}
<1>4. \A c \in All : \E k \in 1 .. 6 : c = CATEGORIES[k]
  BY <1>3
<1>5. \A k \in 1 .. 6 : CATEGORIES[k] \in All
  <2>1. \A k \in 1 .. 6 : k = 1 \/ k = 2 \/ k = 3 \/ k = 4 \/ k = 5 \/ k = 6
    OBVIOUS
  <2>. QED
    BY <1>3, <2>1
<1>6. \A c : c \in Range(CATEGORIES) <=> c \in All
  <2>. HIDE DEF All
  <2>. QED
    BY <1>2, <1>4, <1>5
<1>. QED
  BY <1>6

LEMMA IntentsCover ==
  \A c : Intent(c) \in Intents <=> c \in Range(CATEGORIES)
  BY CategoriesSix DEF Intent, Intents

LEMMA FewIntents == IsFiniteSet(Intents)
<1>. DEFINE f == <<"discovery", "comparison", "recommendation">>
<1>1. IsFiniteSet(1 .. 3)
  BY SomeCounted
<1>2. \A x : x \in Intents <=> \E i \in 1 .. 3 : x = f[i]
  BY DEF Intents
<1>. HIDE DEF f
<1>. QED
  BY <1>1, <1>2, FewImages

LEMMA FewCategories == IsFiniteSet(Range(CATEGORIES))
<1>1. IsFiniteSet(1 .. 6)
  BY SomeCounted
<1>2. DOMAIN CATEGORIES = 1 .. 6
  BY DEF CATEGORIES
<1>3. \A x : x \in Range(CATEGORIES) <=> \E i \in 1 .. 6 : x = CATEGORIES[i]
  BY <1>2 DEF Range
<1>. QED
  BY <1>1, <1>3, FewImages

\* The answers by model of an insight, its parts and the answers they leave out.
LEMMA InsightAddsUp ==
  ASSUME NEW n \in Nat, NEW recs, DOMAIN recs = 1 .. n, NEW kyc, NEW m \in Engines(recs)
  PROVE  LET insight == EngineInsight(recs, kyc, m) IN
         /\ insight.answers.total = SumFunction([g \in Intents |-> insight.groups[g].total])
              + Cardinality({i \in Uncategorized(recs) : recs[i].model = m})
         /\ insight.answers.total <= EnginePresence(recs)[m].total
<1>. DEFINE insight == EngineInsight(recs, kyc, m)
            own == {i \in Scored(recs) : recs[i].model = m}
            these == {i \in 1 .. n : recs[i].model = m}
            rest == {i \in Uncategorized(recs) : recs[i].model = m}
            U == {i \in own : recs[i].category \in Range(CATEGORIES)}
            class == [i \in 1 .. n |-> Intent(recs[i].category)]
            part == [g \in Intents |-> {i \in own : Intent(recs[i].category) = g}]
            f == [g \in Intents |-> insight.groups[g].total]
<1>1. Scored(recs) \subseteq 1 .. n
  BY DEF Scored
<1>2. /\ own \in SUBSET (1 .. n) /\ these \in SUBSET (1 .. n) /\ own \subseteq these
      /\ U \in SUBSET (1 .. n) /\ rest \in SUBSET (1 .. n)
  BY <1>1 DEF Uncategorized
<1>3. insight.answers.total = Cardinality(own)
  BY DEF EngineInsight, Ratio
<1>4. \A g \in Intents : f[g] = Cardinality(part[g])
  BY DEF EngineInsight, Ratio
<1>5. EnginePresence(recs)[m].total = Cardinality(these)
  <2>1. m \in {recs[i].model : i \in DOMAIN recs}
    BY <1>1 DEF Engines
  <2>. QED
    BY <2>1 DEF EnginePresence, Ratio
<1>6. own = U \cup rest /\ U \cap rest = {}
  BY DEF Uncategorized
<1>7. \A i \in U : class[i] \in Intents
  BY <1>2, IntentsCover
<1>8. \A g \in Intents : \A i : i \in part[g] <=> (i \in U /\ class[i] = g)
  BY <1>1, IntentsCover
<1>9. IsFiniteSet(U) /\ IsFiniteSet(rest)
  <2>. HIDE DEF U, rest
  <2>. QED
    BY <1>2, SomeCounted
<1>10. IsFiniteSet(Intents)
  BY FewIntents
<1>11. DOMAIN f = Intents
  OBVIOUS
<1>. HIDE DEF insight, own, these, rest, U, class, part, f
<1>12. SumFunctionOnSet(f, Intents) = Cardinality(U)
  BY <1>4, <1>7, <1>8, <1>9, <1>10, CountByPart
<1>13. Cardinality(own) = Cardinality(U) + Cardinality(rest)
  BY <1>6, <1>9, CountApart
<1>14. Cardinality(own) <= Cardinality(these)
  BY <1>2, SomeCounted
<1>15. SumFunction(f) = Cardinality(U)
  BY <1>11, <1>12 DEF SumFunction
<1>. QED
  BY <1>3, <1>5, <1>13, <1>14, <1>15 DEF insight, f, rest, these

\* The mentions of the insights by model are those in the scored answers ...
LEMMA MentionsByModel ==
  ASSUME NEW n \in Nat, NEW recs, DOMAIN recs = 1 .. n, NEW kyc
  PROVE  SumFunction([m \in Engines(recs) |-> EngineInsight(recs, kyc, m).answers.mentioned])
           = Cardinality(Mentions(recs, Scored(recs)))
<1>. DEFINE M == Engines(recs)
            U == Mentions(recs, Scored(recs))
            class == [i \in 1 .. n |-> recs[i].model]
            part == [m \in M |-> Mentions(recs, {i \in Scored(recs) : recs[i].model = m})]
            f == [m \in M |-> EngineInsight(recs, kyc, m).answers.mentioned]
<1>1. Scored(recs) \in SUBSET (1 .. n)
  BY DEF Scored
<1>2. IsFiniteSet(M)
  <2>1. IsFiniteSet(Scored(recs))
    BY <1>1, SomeCounted
  <2>2. \A x : x \in M <=> \E i \in Scored(recs) : x = class[i]
    BY <1>1 DEF Engines
  <2>. HIDE DEF M, class
  <2>. QED
    BY <2>1, <2>2, FewImages
<1>3. U \in SUBSET (1 .. n)
  BY <1>1 DEF Mentions
<1>4. IsFiniteSet(U)
  BY <1>3, SomeCounted
<1>5. \A m \in M : f[m] = Cardinality(part[m])
  BY DEF EngineInsight, Ratio
<1>6. \A i \in U : class[i] \in M
  BY <1>1 DEF Mentions, Engines
<1>7. \A m \in M : \A i : i \in part[m] <=> (i \in U /\ class[i] = m)
  BY <1>1 DEF Mentions
<1>8. DOMAIN f = M
  OBVIOUS
<1>. HIDE DEF M, U, class, part, f
<1>9. SumFunctionOnSet(f, M) = Cardinality(U)
  BY <1>2, <1>4, <1>5, <1>6, <1>7, CountByPart
<1>. QED
  BY <1>8, <1>9 DEF SumFunction, f, M, U

\* ... and so are those by category, with the answers that are in none.
LEMMA MentionsByCategory ==
  ASSUME NEW n \in Nat, NEW recs, DOMAIN recs = 1 .. n
  PROVE  Cardinality(Mentions(recs, Scored(recs))) =
           SumFunction([c \in Range(CATEGORIES) |-> CategoryShares(recs)[c].mentioned])
           + Cardinality(Mentions(recs, Uncategorized(recs)))
<1>. DEFINE S == Range(CATEGORIES)
            all == Mentions(recs, Scored(recs))
            rest == Mentions(recs, Uncategorized(recs))
            U == {i \in all : recs[i].category \in S}
            class == [i \in 1 .. n |-> recs[i].category]
            part == [c \in S |-> Mentions(recs, {i \in Scored(recs) : recs[i].category = c})]
            f == [c \in S |-> CategoryShares(recs)[c].mentioned]
<1>1. Scored(recs) \in SUBSET (1 .. n)
  BY DEF Scored
<1>2. U \in SUBSET (1 .. n) /\ rest \in SUBSET (1 .. n)
  BY <1>1 DEF Mentions, Uncategorized
<1>3. IsFiniteSet(S)
  BY FewCategories
<1>4. IsFiniteSet(U) /\ IsFiniteSet(rest)
  <2>. HIDE DEF U, rest
  <2>. QED
    BY <1>2, SomeCounted
<1>5. \A c \in S : f[c] = Cardinality(part[c])
  BY DEF CategoryShares, Ratio
<1>6. \A i \in U : class[i] \in S
  BY <1>2
<1>7. \A c \in S : \A i : i \in part[c] <=> (i \in U /\ class[i] = c)
  BY <1>1 DEF Mentions
<1>8. all = U \cup rest /\ U \cap rest = {}
  BY DEF Mentions, Uncategorized
<1>9. DOMAIN f = S
  OBVIOUS
<1>. HIDE DEF S, all, rest, U, class, part, f
<1>10. SumFunctionOnSet(f, S) = Cardinality(U)
  BY <1>3, <1>4, <1>5, <1>6, <1>7, CountByPart
<1>11. Cardinality(all) = Cardinality(U) + Cardinality(rest)
  BY <1>4, <1>8, CountApart
<1>. QED
  BY <1>9, <1>10, <1>11 DEF SumFunction, f, S, all, rest

\* What the records say is what the run published of them.
Published ==
  /\ Len(records) \in Nat /\ DOMAIN records = 1 .. Len(records)
  /\ geo = GeoSum(records, reliability)
  /\ summary = CitationSummary(records)
  /\ headline = [count |-> Cardinality(Mentions(records, DOMAIN records)), total |-> Len(records)]

LEMMA ScoresFit == ASSUME Published PROVE ScoreFitsSummary
<1>. DEFINE n == Len(records)
            cited == summary.cited
            owned == summary.owned
            sum == GeoSum(records, reliability)
            named == Cardinality(Mentions(records, 1 .. n))
<1>1. /\ sum <= 10000 * n
      /\ cited = 0 => sum <= 6000 * n
      /\ owned = 0 => sum <= 8500 * n
      /\ named = 0 => sum = 0
  BY ScoreFits DEF Published
<1>2. geo = sum /\ headline.count = named
  BY DEF Published
<1>. HIDE DEF sum, named
<1>. QED
  BY <1>1, <1>2 DEF ScoreFitsSummary

LEMMA MapsFit == ASSUME Published PROVE MapsAgree
<1>. DEFINE n == Len(records)
            kyc == run.profile.kyc
            presence == EnginePresence(records)
            Insight(m) == EngineInsight(records, kyc, m)
            mentions == SumFunction([m \in Engines(records) |-> Insight(m).answers.mentioned])
            all == Mentions(records, 1 .. n)
            won == Mentions(records, Scored(records))
            probed == Mentions(records, Probed(records))
<1>1. n \in Nat /\ DOMAIN records = 1 .. n /\ headline.count = Cardinality(all) /\ headline.total = n
  BY DEF Published
<1>. HIDE DEF n
<1>2. /\ Cardinality(all) = SumFunction([m \in DOMAIN presence |-> presence[m].mentioned])
      /\ n = SumFunction([m \in DOMAIN presence |-> presence[m].total])
  BY <1>1, PresenceAddsUp
<1>3. mentions = Cardinality(won)
  BY <1>1, MentionsByModel
<1>4. Cardinality(all) = Cardinality(won) + Cardinality(probed)
  <2>1. all = won \cup probed /\ won \cap probed = {}
    BY <1>1 DEF Mentions, Scored, Probed
  <2>2. won \in SUBSET (1 .. n) /\ probed \in SUBSET (1 .. n)
    BY <1>1 DEF Mentions, Scored, Probed
  <2>. HIDE DEF all, won, probed
  <2>3. IsFiniteSet(won) /\ IsFiniteSet(probed)
    BY <1>1, <2>2, SomeCounted
  <2>. QED
    BY <2>1, <2>3, CountApart
<1>5. \A m \in Engines(records) :
         /\ Insight(m).answers.total = SumFunction([g \in Intents |-> Insight(m).groups[g].total])
              + Cardinality({i \in Uncategorized(records) : records[i].model = m})
         /\ Insight(m).answers.total <= presence[m].total
  BY <1>1, InsightAddsUp
<1>6. Cardinality(won) =
         SumFunction([c \in Range(CATEGORIES) |-> CategoryShares(records)[c].mentioned])
         + Cardinality(Mentions(records, Uncategorized(records)))
  BY <1>1, MentionsByCategory
<1>. QED
  BY <1>1, <1>2, <1>3, <1>4, <1>5, <1>6 DEF MapsAgree

-----------------------------------------------------------------------------
\* The rivals: who is named in the answers with the brand or in its place.

\* An answer lost in a category is not a mention.
LEMMA LostOrWon ==
  ASSUME NEW n \in Nat, NEW recs, DOMAIN recs = 1 .. n, NEW kyc
  PROVE  AnswersLost(recs, kyc) + Cardinality(Mentions(recs, Scored(recs)))
           <= Cardinality(Scored(recs))
<1>. DEFINE S == Range(CATEGORIES)
            scored == Scored(recs)
            won == Mentions(recs, scored)
            U == {i \in scored \ won : Rivals(recs, i, kyc) # {} /\ recs[i].category \in S}
            class == [i \in 1 .. n |-> recs[i].category]
            part == [c \in S |-> {i \in U : recs[i].category = c}]
            f == [c \in S |-> CategoryGap(recs, kyc, c).lost]
<1>1. scored \in SUBSET (1 .. n)
  BY DEF Scored
<1>2. U \in SUBSET (1 .. n) /\ won \in SUBSET (1 .. n) /\ U \cup won \in SUBSET scored
  BY <1>1 DEF Mentions
<1>3. \A c \in S : f[c] = Cardinality(part[c])
  <2>. SUFFICES ASSUME NEW c \in S PROVE f[c] = Cardinality(part[c])
    OBVIOUS
  <2>. DEFINE posed == {i \in Scored(recs) : recs[i].category = c}
              lost == {i \in posed \ Mentions(recs, posed) : Rivals(recs, i, kyc) # {}}
  <2>1. f[c] = Cardinality(lost)
    BY DEF CategoryGap
  <2>2. lost = part[c]
    BY DEF Mentions
  <2>. QED
    BY <2>1, <2>2
<1>4. \A i \in U : class[i] \in S
  BY <1>2
<1>5. \A c \in S : \A i : i \in part[c] <=> (i \in U /\ class[i] = c)
  BY <1>2
<1>6. DOMAIN f = S /\ U \cap won = {}
  OBVIOUS
<1>7. IsFiniteSet(U) /\ IsFiniteSet(won)
  <2>. HIDE DEF U, won
  <2>. QED
    BY <1>2, SomeCounted
<1>8. AnswersLost(recs, kyc) = SumFunctionOnSet(f, S)
  BY <1>6 DEF AnswersLost, SumFunction
<1>9. IsFiniteSet(S)
  BY FewCategories
<1>. HIDE DEF S, scored, won, U, class, part, f
<1>10. SumFunctionOnSet(f, S) = Cardinality(U)
  BY <1>3, <1>4, <1>5, <1>7, <1>9, CountByPart
<1>11. Cardinality(U \cup won) = Cardinality(U) + Cardinality(won)
  BY <1>6, <1>7, CountApart
<1>12. Cardinality(U \cup won) <= Cardinality(scored)
  BY <1>1, <1>2, SomeCounted
<1>. QED
  BY <1>8, <1>10, <1>11, <1>12 DEF scored, won

\* Who names the company by a word of its own in an answer mentions it.
NamesAreMentions(recs, kyc) == \A i \in DOMAIN recs : Whole(recs[i], kyc) # {} => recs[i].mentioned

LEMMA FirstAreNamed ==
  ASSUME NEW n \in Nat, NEW recs, DOMAIN recs = 1 .. n, NEW kyc, NamesAreMentions(recs, kyc), NEW m
  PROVE  EngineInsight(recs, kyc, m).first <=
           EngineInsight(recs, kyc, m).answers.mentioned
             + Cardinality(Hidden(recs, {i \in Scored(recs) : recs[i].model = m}, kyc))
<1>. DEFINE own == {i \in Scored(recs) : recs[i].model = m}
            firsts == {i \in own : First(recs, i, kyc)}
            won == Mentions(recs, own)
            hidden == Hidden(recs, own, kyc)
<1>1. /\ EngineInsight(recs, kyc, m).first = Cardinality(firsts)
      /\ EngineInsight(recs, kyc, m).answers.mentioned = Cardinality(won)
  BY DEF EngineInsight, Ratio
<1>2. own \in SUBSET (1 .. n)
  BY DEF Scored
<1>3. \A i \in own : First(recs, i, kyc) => recs[i].mentioned \/ i \in hidden
  <2>1. \A i \in own : First(recs, i, kyc) =>
           \E word \in Range(recs[i].text) : Holds(word) \cap Exclusions # {}
    BY DEF First, Range
  <2>. QED
    BY <1>2, <2>1 DEF NamesAreMentions, Hidden
<1>4. /\ firsts \subseteq won \cup hidden /\ firsts \in SUBSET (1 .. n)
      /\ won \in SUBSET (1 .. n) /\ hidden \in SUBSET (1 .. n)
  BY <1>2, <1>3 DEF Mentions, Hidden
<1>. DEFINE others == hidden \ won
<1>5. /\ won \cup others \in SUBSET (1 .. n) /\ others \in SUBSET (1 .. n)
      /\ firsts \subseteq won \cup others /\ others \subseteq hidden /\ won \cap others = {}
  BY <1>4
<1>. HIDE DEF firsts, won, hidden, others
<1>6. /\ Cardinality(firsts) <= Cardinality(won \cup others)
      /\ Cardinality(others) <= Cardinality(hidden)
      /\ IsFiniteSet(won) /\ IsFiniteSet(others)
      /\ Cardinality(firsts) \in Nat /\ Cardinality(won) \in Nat
      /\ Cardinality(others) \in Nat /\ Cardinality(hidden) \in Nat
  BY <1>4, <1>5, SomeCounted
<1>7. Cardinality(won \cup others) = Cardinality(won) + Cardinality(others)
  BY <1>5, <1>6, CountApart
<1>8. Cardinality(firsts) <= Cardinality(won) + Cardinality(hidden)
  BY <1>6, <1>7
<1>. QED
  BY <1>1, <1>8 DEF hidden

\* A competitor of the scored answers is one of all the answers.
LEMMA RivalsAppear ==
  ASSUME NEW n \in Nat, NEW recs, DOMAIN recs = 1 .. n, NEW kyc, NEW m,
         NEW name \in DOMAIN EngineInsight(recs, kyc, m).competitors
  PROVE  /\ name \in DOMAIN CompetitorsAppeared(recs, kyc)
         /\ EngineInsight(recs, kyc, m).competitors[name] <= CompetitorsAppeared(recs, kyc)[name]
<1>. DEFINE own == {i \in Scored(recs) : recs[i].model = m}
            few == Naming(recs, own, name)
            all == Naming(recs, 1 .. n, name)
            pool == Pool(recs, 1 .. n, kyc)
<1>1. own \in SUBSET (1 .. n)
  BY DEF Scored
<1>2. name \in UNION {Rivals(recs, i, kyc) : i \in own}
  BY DEF EngineInsight
<1>3. PICK i \in own : name \in Rivals(recs, i, kyc)
  BY <1>2
<1>4. name \in pool /\ name \in Range(recs[i].text)
  BY <1>1, <1>3 DEF Rivals, Named, Pool, Scored
<1>5. name \in UNION {Named(recs[j], pool) : j \in 1 .. n}
  BY <1>1, <1>4 DEF Named
<1>6. /\ name \in DOMAIN CompetitorsAppeared(recs, kyc)
      /\ CompetitorsAppeared(recs, kyc)[name] = Cardinality(all)
  BY <1>5 DEF CompetitorsAppeared
<1>7. EngineInsight(recs, kyc, m).competitors[name] = Cardinality(few)
  BY <1>2 DEF EngineInsight
<1>8. few \subseteq all /\ few \in SUBSET (1 .. n) /\ all \in SUBSET (1 .. n)
  BY <1>1 DEF Naming
<1>. HIDE DEF few, all
<1>9. Cardinality(few) <= Cardinality(all)
  BY <1>8, SomeCounted
<1>. QED
  BY <1>6, <1>7, <1>9

-----------------------------------------------------------------------------
\* The landscape: the four kinds of its entities.

Ours(recs) ==
  [Entity(recs, "brand", Cardinality(Mentions(recs, Scored(recs))), "ours") EXCEPT !.tier = "core"]
Found(recs, name) == Naming(recs, Scored(recs), name)
Located(recs, name) == Entity(recs, name, Cardinality(Found(recs, name)), "location")
Stranger(recs, name) == Entity(recs, name, Cardinality(Found(recs, name)), "competitor")

LEMMA Listings ==
  ASSUME NEW recs, NEW kyc, NEW e \in Landscape(recs, kyc)
  PROVE  \/ e = Ours(recs)
         \/ \E term \in kyc.terms : e = OwnEntity(recs, term)
         \/ \E name \in kyc.places : e = Located(recs, name)
         \/ \E name : /\ name \notin kyc.terms \cup kyc.places \cup Exclusions
                      /\ e = Stranger(recs, name)
<1>. DEFINE scored == Scored(recs)
            Count(name) == Cardinality(Naming(recs, scored, name))
            pool == (UNION {Rivals(recs, i, kyc) : i \in scored}) \ (kyc.terms \cup kyc.places)
<1>1. \A name \in pool : name \notin kyc.terms \cup kyc.places \cup Exclusions
  <2>. SUFFICES ASSUME NEW name \in pool PROVE name \notin kyc.terms \cup kyc.places \cup Exclusions
    OBVIOUS
  <2>1. PICK i \in scored : name \in Rivals(recs, i, kyc)
    OBVIOUS
  <2>2. name \notin kyc.terms \cup kyc.places
    OBVIOUS
  <2>. HIDE DEF pool, scored, Count
  <2>3. name \in Pool(recs, Scored(recs), kyc)
    BY <2>1 DEF Rivals, Named
  <2>4. name \notin Exclusions
    BY <2>3 DEF Pool
  <2>. QED
    BY <2>2, <2>4
<1>. HIDE DEF pool
<1>2. \/ e = Ours(recs)
      \/ \E term \in kyc.terms : e = OwnEntity(recs, term)
      \/ \E name \in kyc.places : e = Located(recs, name)
      \/ \E name \in pool : e = Stranger(recs, name)
  BY DEF Landscape, Ours, Located, Stranger, Found, pool
<1>. QED
  BY <1>1, <1>2

LEMMA OursIs == \A recs : Ours(recs).name = "brand" /\ Ours(recs).ownership = "ours"
  BY DEF Ours, Entity

LEMMA OwnIs ==
  ASSUME NEW recs, NEW term
  PROVE  /\ OwnEntity(recs, term).name = term
         /\ OwnEntity(recs, term).answers = Cardinality(Found(recs, term))
         /\ OwnEntity(recs, term).tier = Tier(recs, Cardinality(Found(recs, term)))
         /\ OwnEntity(recs, term).ownership = "competitor"
               => Mentions(recs, Found(recs, term)) = {} /\ Found(recs, term) # {}
         /\ OwnEntity(recs, term).ownership = "shared"
               <=> Mentions(recs, Found(recs, term)) # {}
  BY DEF OwnEntity, Entity, Found

LEMMA LocatedIs ==
  ASSUME NEW recs, NEW name
  PROVE  /\ Located(recs, name).name = name /\ Located(recs, name).ownership = "location"
         /\ Located(recs, name).answers = Cardinality(Found(recs, name))
         /\ Located(recs, name).tier = Tier(recs, Cardinality(Found(recs, name)))
  BY DEF Located, Entity

LEMMA StrangerIs ==
  ASSUME NEW recs, NEW name
  PROVE  /\ Stranger(recs, name).name = name
         /\ Stranger(recs, name).answers = Cardinality(Found(recs, name))
         /\ Stranger(recs, name).tier = Tier(recs, Cardinality(Found(recs, name)))
  BY DEF Stranger, Entity

\* The kinds of the landscape overlap where the profile has a name twice, only.
LEMMA ListedOnce ==
  ASSUME NEW recs, NEW kyc, NEW e \in Landscape(recs, kyc), NEW f \in Landscape(recs, kyc),
         e.name = f.name, e # f
  PROVE  e.name \in (kyc.terms \cap kyc.places) \cup ({"brand"} \cap (kyc.terms \cup kyc.places))
<1>. DEFINE Kind(x, k) ==
              /\ k = 1 => x = Ours(recs)
              /\ k = 2 => x.name \in kyc.terms /\ x = OwnEntity(recs, x.name)
              /\ k = 3 => x.name \in kyc.places /\ x = Located(recs, x.name)
              /\ k = 4 => /\ x.name \notin kyc.terms \cup kyc.places \cup Exclusions
                          /\ x = Stranger(recs, x.name)
<1>1. \A x \in Landscape(recs, kyc) : \E k \in 1 .. 4 : Kind(x, k)
  <2>. SUFFICES ASSUME NEW x \in Landscape(recs, kyc) PROVE \E k \in 1 .. 4 : Kind(x, k)
    OBVIOUS
  <2>1. CASE x = Ours(recs)
    BY <2>1
  <2>2. CASE \E term \in kyc.terms : x = OwnEntity(recs, term)
    BY <2>2, OwnIs
  <2>3. CASE \E name \in kyc.places : x = Located(recs, name)
    BY <2>3, LocatedIs
  <2>4. CASE \E name : /\ name \notin kyc.terms \cup kyc.places \cup Exclusions
                       /\ x = Stranger(recs, name)
    BY <2>4, StrangerIs
  <2>. QED
    BY <2>1, <2>2, <2>3, <2>4, Listings
<1>2. PICK j \in 1 .. 4, k \in 1 .. 4 : Kind(e, j) /\ Kind(f, k)
  BY <1>1
<1>3. /\ j = 1 \/ j = 2 \/ j = 3 \/ j = 4
      /\ k = 1 \/ k = 2 \/ k = 3 \/ k = 4
  OBVIOUS
<1>4. Ours(recs).name = "brand" /\ "brand" \in Exclusions
  BY OursIs DEF Exclusions
<1>. QED
  BY <1>2, <1>3, <1>4

LEMMA Larger ==
  ASSUME NEW a \in Int, NEW b \in Int
  PROVE  Max({a, b}) = IF a >= b THEN a ELSE b
  BY DEF Max

LEMMA CoreIsHalf ==
  ASSUME NEW n \in Nat, NEW recs, DOMAIN recs = 1 .. n, NEW a \in Nat, Tier(recs, a) = "core"
  PROVE  2 * a >= Cardinality(Scored(recs))
<1>. DEFINE c == Cardinality(Scored(recs))
            h == (c + 1) \div 2
            S == {1, h}
<1>1. c \in Nat
  <2>1. Scored(recs) \in SUBSET (1 .. n)
    BY DEF Scored
  <2>. QED
    BY <2>1, SomeCounted
<1>2. a >= Max(S)
  BY DEF Tier, CoreThreshold
<1>. HIDE DEF c
<1>3. h \in Int /\ 2 * h >= c
  BY <1>1
<1>. HIDE DEF h
<1>4. Max(S) \in S /\ h <= Max(S)
  <2>1. Max(S) = IF 1 >= h THEN 1 ELSE h
    BY <1>3, Larger
  <2>. QED
    BY <1>3, <2>1
<1>5. Max(S) \in Int
  BY <1>3, <1>4
<1>. QED
  BY <1>1, <1>2, <1>3, <1>4, <1>5 DEF c

LEMMA RivalsFit ==
  ASSUME Published, run.mode = "measured" => NamesAreMentions(records, run.profile.kyc)
  PROVE  RivalsAgree
<1>. DEFINE n == Len(records)
            kyc == run.profile.kyc
            shown == Landscape(records, kyc)
            appeared == CompetitorsAppeared(records, kyc)
            scored == Scored(records)
            doubled == (kyc.terms \cap kyc.places) \cup ({"brand"} \cap (kyc.terms \cup kyc.places))
<1>1. /\ n \in Nat /\ DOMAIN records = 1 .. n
      /\ headline.count = Cardinality(Mentions(records, 1 .. n))
  BY DEF Published
<1>. HIDE DEF n
<1>2. AnswersLost(records, kyc) + Cardinality(Mentions(records, scored)) <= Cardinality(scored)
  BY <1>1, LostOrWon
<1>3. ASSUME NEW m \in Engines(records)
      PROVE  LET insight == EngineInsight(records, kyc, m) IN
             /\ run.mode = "measured" =>
                   insight.first <= insight.answers.mentioned
                       + Cardinality(Hidden(records, {i \in scored : records[i].model = m}, kyc))
             /\ \A name \in DOMAIN insight.competitors :
                   name \in DOMAIN appeared /\ insight.competitors[name] <= appeared[name]
  BY <1>1, FirstAreNamed, RivalsAppear
<1>4. \A e, f \in shown : e.name = f.name => e = f \/ e.name \in doubled
  BY ListedOnce
<1>. HIDE DEF kyc
<1>5. ASSUME NEW e \in shown
      PROVE  /\ (\/ kyc.terms \cap Exclusions = {}
                 \/ run.mode = "measured" /\ kyc.terms \cap kyc.unmatched = {}) =>
                   (e.ownership = "competitor" => e.name \notin Exclusions)
             /\ (e.tier = "core" /\ e.name # "brand") => 2 * e.answers >= Cardinality(scored)
  <2>1. ASSUME NEW name, e.tier = Tier(records, Cardinality(Found(records, name))),
               e.answers = Cardinality(Found(records, name)), e.tier = "core"
        PROVE  2 * e.answers >= Cardinality(scored)
    <3>1. Found(records, name) \in SUBSET (1 .. n)
      BY <1>1 DEF Found, Naming, Scored
    <3>2. Cardinality(Found(records, name)) \in Nat
      BY <1>1, <3>1, SomeCounted
    <3>. QED
      BY <1>1, <2>1, <3>2, CoreIsHalf
  <2>2. CASE e = Ours(records)
    BY <2>2, OursIs
  <2>3. CASE \E term \in kyc.terms : e = OwnEntity(records, term)
    <3>1. PICK term \in kyc.terms : e = OwnEntity(records, term)
      BY <2>3
    <3>2. /\ e.name = term /\ e.tier = Tier(records, Cardinality(Found(records, term)))
          /\ e.answers = Cardinality(Found(records, term))
          /\ e.ownership = "competitor" =>
                Mentions(records, Found(records, term)) = {} /\ Found(records, term) # {}
      BY <3>1, OwnIs
    <3>3. ASSUME run.mode = "measured", kyc.terms \cap kyc.unmatched = {},
                 e.ownership = "competitor", term \in Exclusions
          PROVE  FALSE
      <4>1. PICK i \in Found(records, term) : ~records[i].mentioned
        BY <3>2, <3>3 DEF Mentions
      <4>2. i \in DOMAIN records /\ term \in Range(records[i].text)
        BY <4>1 DEF Found, Naming, Scored
      <4>3. term \in Whole(records[i], kyc)
        BY <3>1, <3>3, <4>2 DEF Whole
      <4>. QED
        BY <3>3, <4>1, <4>2, <4>3 DEF NamesAreMentions, kyc
    <3>. QED
      BY <2>1, <3>2, <3>3
  <2>4. CASE \E name \in kyc.places : e = Located(records, name)
    <3>1. PICK name \in kyc.places : e = Located(records, name)
      BY <2>4
    <3>2. /\ e.name = name /\ e.ownership = "location" /\ e.answers = Cardinality(Found(records, name))
          /\ e.tier = Tier(records, Cardinality(Found(records, name)))
      BY <3>1, LocatedIs
    <3>. QED
      BY <2>1, <3>2
  <2>5. CASE \E name : /\ name \notin kyc.terms \cup kyc.places \cup Exclusions
                       /\ e = Stranger(records, name)
    <3>1. PICK name : /\ name \notin kyc.terms \cup kyc.places \cup Exclusions
                      /\ e = Stranger(records, name)
      BY <2>5
    <3>2. /\ e.name = name /\ e.answers = Cardinality(Found(records, name))
          /\ e.tier = Tier(records, Cardinality(Found(records, name)))
      BY <3>1, StrangerIs
    <3>. QED
      BY <2>1, <3>1, <3>2
  <2>. QED
    BY <2>2, <2>3, <2>4, <2>5, Listings
<1>6. ASSUME NEW term \in Present(records, kyc)
      PROVE  \E e \in shown : e.name = term /\ headline.count > 0
  <2>. DEFINE named == Found(records, term)
              both == Mentions(records, named)
  <2>1. term \in kyc.terms /\ both # {} /\ OwnEntity(records, term).name = term
    BY OwnIs DEF Present
  <2>2. /\ named \in SUBSET (1 .. n) /\ both \in SUBSET (1 .. n)
        /\ both \subseteq Mentions(records, 1 .. n) /\ Mentions(records, 1 .. n) \in SUBSET (1 .. n)
    BY <1>1 DEF Found, Naming, Scored, Mentions
  <2>3. named # {}
    BY <2>1 DEF Mentions
  <2>. DEFINE a == Cardinality(named)
              b == Cardinality(Mentions(records, 1 .. n))
  <2>4. a \in Nat /\ a # 0
    <3>. HIDE DEF named
    <3>. QED
      BY <1>1, <2>2, <2>3, SomeCounted
  <2>5. b \in Nat /\ b # 0
    <3>1. Mentions(records, 1 .. n) # {}
      BY <2>1, <2>2
    <3>. QED
      BY <1>1, <2>2, <3>1, SomeCounted
  <2>6. Cardinality(Naming(records, Scored(records), term)) > 0
    BY <2>4 DEF Found
  <2>7. OwnEntity(records, term) \in shown
    BY <2>1, <2>6 DEF Landscape
  <2>. HIDE DEF b
  <2>8. headline.count > 0
    BY <1>1, <2>5 DEF b
  <2>. QED
    BY <2>1, <2>7, <2>8
<1>. QED
  BY <1>2, <1>3, <1>4, <1>5, <1>6 DEF RivalsAgree, kyc

-----------------------------------------------------------------------------
\* The grade of a site.

\* A quotient grows with the fraction.
LEMMA Quotients ==
  ASSUME NEW a \in Nat, NEW b \in Nat \ {0}, NEW c \in Nat, NEW d \in Nat \ {0}, a * d <= c * b
  PROVE  a \div b <= c \div d
<1>. DEFINE p == a \div b
            q == c \div d
<1>1. p \in Nat /\ b * p <= a /\ q \in Nat /\ c < d * (q + 1)
  BY DEF p, q
<1>. HIDE DEF p, q
<1>2. p <= q
  <2>. SUFFICES ASSUME p >= q + 1 PROVE FALSE
    BY <1>1
  <2>1. d * (q + 1) <= d * p
    BY <1>1
  <2>2. c < d * p
    BY <1>1, <2>1
  <2>3. c * b < (d * p) * b
    BY <1>1, <2>2
  <2>4. (d * p) * b = (b * p) * d
    BY <1>1
  <2>5. (b * p) * d <= a * d
    BY <1>1
  <2>. QED
    BY <1>1, <2>3, <2>4, <2>5
<1>. QED
  BY <1>2 DEF p, q

\* The score of checks worth t, of which e is earned, in tenths.
Scale(e, t) == (1000 * e + t) \div (2 * t)

LEMMA ScaleUp ==
  ASSUME NEW e \in Nat, NEW f \in Nat, NEW t \in Nat \ {0}, e <= f
  PROVE  Scale(e, t) <= Scale(f, t)
<1>. DEFINE a == 1000 * e + t
            c == 1000 * f + t
            b == 2 * t
<1>1. a \in Nat /\ c \in Nat /\ a <= c /\ b \in Nat \ {0}
  OBVIOUS
<1>. HIDE DEF a, b, c
<1>2. a * b <= c * b
  BY <1>1
<1>3. a \div b <= c \div b
  BY <1>1, <1>2, Quotients
<1>. QED
  BY <1>3 DEF Scale, a, b, c

\* A check that could not be made counts for no more than a pass and no less than a failure.
LEMMA ScaleBetween ==
  ASSUME NEW e \in Nat, NEW t \in Nat \ {0}, e <= 2 * t, NEW w \in Nat
  PROVE  Scale(e, t + w) <= Scale(e, t) /\ Scale(e, t) <= Scale(e + 2 * w, t + w)
<1>. DEFINE a == 1000 * e + t
            b == 2 * t
            c == 1000 * e + (t + w)
            d == 2 * (t + w)
            g == 1000 * (e + 2 * w) + (t + w)
<1>0. e * w \in Nat /\ e * t \in Nat /\ t * t \in Nat /\ t * w \in Nat /\ w * w \in Nat
  OBVIOUS
<1>1. a \in Nat /\ c \in Nat /\ g \in Nat /\ b \in Nat \ {0} /\ d \in Nat \ {0}
  OBVIOUS
<1>2. e * w <= 2 * (t * w)
  <2>1. e * w <= (2 * t) * w
    OBVIOUS
  <2>. QED
    BY <2>1
<1>3. c * b = 2000 * (e * t) + 2 * (t * t) + 2 * (t * w)
  OBVIOUS
<1>4. a * d = 2000 * (e * t) + 2000 * (e * w) + 2 * (t * t) + 2 * (t * w)
  OBVIOUS
<1>5. g * b = 2000 * (e * t) + 4000 * (t * w) + 2 * (t * t) + 2 * (t * w)
  OBVIOUS
<1>6. c * b <= a * d /\ a * d <= g * b
  BY <1>0, <1>2, <1>3, <1>4, <1>5
<1>. HIDE DEF a, b, c, d, g
<1>7. c \div d <= a \div b
  BY <1>1, <1>6, Quotients
<1>8. a \div b <= g \div d
  BY <1>1, <1>6, Quotients
<1>. QED
  BY <1>7, <1>8 DEF Scale, a, b, c, d, g

\* The grade of k critical failures and a score
Mark(k, score) ==
  IF k >= 2 THEN "F" ELSE IF k = 1 /\ Band(score) \in {"A", "B"} THEN "C" ELSE Band(score)

\* More critical failures and a lower score are no better a grade.
LEMMA MarkDrops ==
  ASSUME NEW k \in Nat, NEW l \in Nat, k <= l, NEW x \in Int, NEW y \in Int, x <= y
  PROVE  Rank(Mark(l, x)) <= Rank(Mark(k, y))
<1>1. \A z \in Int : Band(z) \in {"A", "B", "C", "D", "F"}
  BY DEF Band
<1>2. /\ Rank("A") = 5 /\ Rank("B") = 4 /\ Rank("C") = 3 /\ Rank("D") = 2 /\ Rank("F") = 1
  BY DEF Rank
<1>3. Rank(Band(x)) <= Rank(Band(y))
  BY <1>2 DEF Band
<1>. DEFINE a == Band(x)
            b == Band(y)
<1>4. a \in {"A", "B", "C", "D", "F"} /\ b \in {"A", "B", "C", "D", "F"} /\ Rank(a) <= Rank(b)
  BY <1>1, <1>3
<1>. HIDE DEF a, b
<1>5. Rank(IF l >= 2 THEN "F" ELSE IF l = 1 /\ a \in {"A", "B"} THEN "C" ELSE a)
        <= Rank(IF k >= 2 THEN "F" ELSE IF k = 1 /\ b \in {"A", "B"} THEN "C" ELSE b)
  BY <1>2, <1>4
<1>. QED
  BY <1>5 DEF Mark, a, b

LEMMA ChecksFew ==
  /\ IsFiniteSet(CHECKS) /\ IsFiniteSet(CRITICAL) /\ CRITICAL \subseteq CHECKS
  /\ \A c \in CHECKS : Weight[c] \in {1, 3, 5}
<1>1. IsFiniteSet(1 .. 5)
  BY SomeCounted
<1>2. IsFiniteSet(CRITICAL)
  <2>. DEFINE f == <<"ai_crawler_access", "indexable", "server_rendered_content", "thin_content", "https">>
  <2>1. \A x : x \in CRITICAL <=> \E i \in 1 .. 5 : x = f[i]
    BY DEF CRITICAL
  <2>. HIDE DEF f
  <2>. QED
    BY <1>1, <2>1, FewImages
<1>3. IsFiniteSet(IMPORTANT)
  <2>. DEFINE f == <<"organization_schema", "entity_links_sameas", "title_present", "h1_present",
                     "lang_declared">>
  <2>1. \A x : x \in IMPORTANT <=> \E i \in 1 .. 5 : x = f[i]
    BY DEF IMPORTANT
  <2>. HIDE DEF f
  <2>. QED
    BY <1>1, <2>1, FewImages
<1>4. IsFiniteSet(MINOR)
  <2>. DEFINE f == <<"meta_description", "canonical", "sitemap", "open_graph", "image_alt">>
  <2>1. \A x : x \in MINOR <=> \E i \in 1 .. 5 : x = f[i]
    BY DEF MINOR
  <2>. HIDE DEF f
  <2>. QED
    BY <1>1, <2>1, FewImages
<1>5. IsFiniteSet(CHECKS)
  <2>1. IsFiniteSet(CRITICAL \cup IMPORTANT)
    BY <1>2, <1>3, FS_Union
  <2>. QED
    BY <1>4, <2>1, FS_Union DEF CHECKS
<1>6. \A c \in CHECKS : Weight[c] \in {1, 3, 5}
  BY DEF Weight
<1>. QED
  BY <1>2, <1>5, <1>6 DEF CHECKS

Verdicts == {"pass", "warn", "fail"}

LEMMA Credits ==
  /\ DOMAIN Credit = Verdicts
  /\ Credit["pass"] = 2 /\ Credit["warn"] = 1 /\ Credit["fail"] = 0
  BY DEF Credit, Verdicts

\* What some of the checks are worth, and what they earn.
Worth(B) == SumFunctionOnSet(Weight, B)
Earns(told) == [c \in Evaluated(told) |-> Weight[c] * Credit[told[c]]]

LEMMA WorthOf ==
  ASSUME NEW B \in SUBSET CHECKS
  PROVE  /\ IsFiniteSet(B) /\ Worth(B) \in Nat
         /\ B # {} => Worth(B) # 0
         /\ \A c \in CHECKS \ B : Worth(B \cup {c}) = Worth(B) + Weight[c]
<1>1. IsFiniteSet(B)
  BY ChecksFew, FS_Subset
<1>2. \A c \in CHECKS : Weight[c] \in Nat /\ Weight[c] \in Int /\ Weight[c] # 0
  BY ChecksFew
<1>3. Worth(B) \in Nat /\ (Worth(B) = 0 <=> \A c \in B : Weight[c] = 0)
  BY <1>1, <1>2, SumZero DEF Worth
<1>4. ASSUME NEW c \in CHECKS, c \notin B PROVE Worth(B \cup {c}) = Worth(B) + Weight[c]
  <2>1. SumFunctionOnSet(Weight, B \cup {c}) = Weight[c] + SumFunctionOnSet(Weight, B)
    BY <1>1, <1>2, <1>4, SumInsert
  <2>2. Weight[c] \in Int /\ SumFunctionOnSet(Weight, B) \in Int
    BY <1>2, <1>3 DEF Worth
  <2>. QED
    BY <2>1, <2>2 DEF Worth
<1>5. B # {} => Worth(B) # 0
  BY <1>2, <1>3
<1>. QED
  BY <1>1, <1>3, <1>4, <1>5

\* Checks earn at most twice what they are worth, in halves.
LEMMA EarnedOf ==
  ASSUME NEW B \in SUBSET CHECKS, NEW earned,
         \A c \in B : earned[c] \in {0, Weight[c], 2 * Weight[c]}
  PROVE  /\ SumFunctionOnSet(earned, B) \in Nat
         /\ SumFunctionOnSet(earned, B) <= 2 * Worth(B)
<1>1. IsFiniteSet(B)
  BY WorthOf
<1>2. \A c \in B : Weight[c] \in {1, 3, 5}
  BY ChecksFew
<1>. DEFINE twice == [c \in B |-> 2 * Weight[c]]
<1>3. \A c \in B : /\ Weight[c] \in Int /\ twice[c] = 2 * Weight[c] /\ twice[c] \in Int
                   /\ earned[c] \in Nat /\ earned[c] \in Int /\ earned[c] <= twice[c]
  BY <1>2
<1>. HIDE DEF twice
<1>4. SumFunctionOnSet(twice, B) = 2 * Worth(B)
  BY <1>1, <1>3, SumTimes DEF Worth
<1>5. SumFunctionOnSet(earned, B) <= SumFunctionOnSet(twice, B)
  BY <1>1, <1>3, SumAtMost
<1>6. SumFunctionOnSet(earned, B) \in Nat
  BY <1>1, <1>3, SumZero
<1>. QED
  BY <1>4, <1>5, <1>6

\* What all that were made earn.
Earned(told) == SumFunctionOnSet(Earns(told), Evaluated(told))

LEMMA GradeIs ==
  ASSUME NEW verdicts, Evaluated(verdicts) # {}
  PROVE  AuditGrade(verdicts) =
           Mark(Cardinality(CriticalFailures(verdicts)),
                Scale(Earned(verdicts), Worth(Evaluated(verdicts))))
<1>1. AuditScore(verdicts) = Scale(Earned(verdicts), Worth(Evaluated(verdicts)))
  BY DEF AuditScore, Scale, Earned, Worth, Earns, SumFunction
<1>. QED
  BY <1>1 DEF AuditGrade, Mark

\* A verdict put in the place of another changes the sums by what it is worth.
LEMMA Regraded ==
  ASSUME NEW verdicts, DOMAIN verdicts = CHECKS, NEW c \in CHECKS, NEW v \in Verdicts
  PROVE  LET B == Evaluated(verdicts) \ {c}
             X == [verdicts EXCEPT ![c] = v]
         IN  /\ Evaluated(X) = B \cup {c}
             /\ Worth(Evaluated(X)) = Worth(B) + Weight[c]
             /\ Earned(X) = SumFunctionOnSet(Earns(verdicts), B) + Weight[c] * Credit[v]
<1>. DEFINE B == Evaluated(verdicts) \ {c}
            X == [verdicts EXCEPT ![c] = v]
            f == Earns(verdicts)
            g == Earns(X)
<1>1. Evaluated(X) = B \cup {c}
  BY Credits DEF Evaluated
<1>2. B \in SUBSET CHECKS /\ c \notin B
  BY DEF Evaluated
<1>3. \A d \in B : X[d] = verdicts[d] /\ d \in Evaluated(verdicts) /\ d \in Evaluated(X)
  BY <1>1, <1>2
<1>4. X[c] = v
  OBVIOUS
<1>5. \A d \in B : f[d] = Weight[d] * Credit[verdicts[d]] /\ g[d] = f[d]
  <2>. SUFFICES ASSUME NEW d \in B PROVE f[d] = Weight[d] * Credit[verdicts[d]] /\ g[d] = f[d]
    OBVIOUS
  <2>1. X[d] = verdicts[d] /\ d \in Evaluated(verdicts) /\ d \in Evaluated(X)
    BY <1>3
  <2>. HIDE DEF X
  <2>2. f[d] = Weight[d] * Credit[verdicts[d]]
    BY <2>1 DEF Earns
  <2>3. g[d] = Weight[d] * Credit[X[d]]
    BY <2>1 DEF Earns
  <2>. QED
    BY <2>1, <2>2, <2>3
<1>6. g[c] = Weight[c] * Credit[v]
  BY <1>1, <1>4 DEF Earns
<1>7. \A d \in CHECKS : Weight[d] \in {1, 3, 5}
  BY ChecksFew
<1>8. \A d \in B : verdicts[d] \in Verdicts
  BY Credits DEF Evaluated
<1>9. \A u \in Verdicts : Credit[u] \in {0, 1, 2}
  BY Credits DEF Verdicts
<1>. HIDE DEF B, X, f, g
<1>10. \A d \in B : f[d] \in Int /\ g[d] \in Int
  BY <1>2, <1>5, <1>7, <1>8, <1>9
<1>11. Weight[c] * Credit[v] \in Int
  BY <1>7, <1>9
<1>12. IsFiniteSet(B)
  BY <1>2, WorthOf
<1>13. SumFunctionOnSet(g, B \cup {c}) = g[c] + SumFunctionOnSet(g, B)
  BY <1>2, <1>6, <1>10, <1>11, <1>12, SumInsert
<1>14. SumFunctionOnSet(g, B) = SumFunctionOnSet(f, B)
  BY <1>5, <1>12, SumSame
<1>15. SumFunctionOnSet(f, B) \in Int
  BY <1>10, <1>12, SumType
<1>16. Earned(X) = SumFunctionOnSet(f, B) + Weight[c] * Credit[v]
  BY <1>1, <1>6, <1>11, <1>13, <1>14, <1>15 DEF Earned, g
<1>17. Worth(B \cup {c}) = Worth(B) + Weight[c]
  BY <1>2, WorthOf
<1>. QED
  BY <1>1, <1>16, <1>17 DEF B, X, f

\* Whatever a check says, the grade lies between the one of its failure and the
\* one of its passing.
LEMMA GradeBetween ==
  ASSUME NEW verdicts, DOMAIN verdicts = CHECKS, verdicts = [x \in CHECKS |-> verdicts[x]],
         Evaluated(verdicts) # {}, NEW c \in CHECKS
  PROVE  LET Graded(verdict) == AuditGrade([verdicts EXCEPT ![c] = verdict]) IN
         /\ Rank(AuditGrade(verdicts)) \in Int
         /\ Rank(Graded("fail")) <= Rank(AuditGrade(verdicts))
         /\ Rank(AuditGrade(verdicts)) <= Rank(Graded("pass"))
<1>. DEFINE E == Evaluated(verdicts)
            B == E \ {c}
            e == SumFunctionOnSet(Earns(verdicts), B)
            t == Worth(B)
            w == Weight[c]
            low == [verdicts EXCEPT ![c] = "fail"]
            high == [verdicts EXCEPT ![c] = "pass"]
            K == CriticalFailures(verdicts)
            kl == Cardinality(CriticalFailures(low))
            k == Cardinality(K)
            kh == Cardinality(CriticalFailures(high))
            mine == Scale(Earned(verdicts), Worth(E))
<1>1. w \in {1, 3, 5}
  BY ChecksFew
<1>2. e \in Nat /\ t \in Nat /\ e <= 2 * t /\ (B # {} => t # 0)
  <2>1. B \in SUBSET CHECKS
    BY DEF Evaluated
  <2>2. \A d \in B : Earns(verdicts)[d] \in {0, Weight[d], 2 * Weight[d]}
    <3>. SUFFICES ASSUME NEW d \in B PROVE Earns(verdicts)[d] \in {0, Weight[d], 2 * Weight[d]}
      OBVIOUS
    <3>1. Earns(verdicts)[d] = Weight[d] * Credit[verdicts[d]]
      BY DEF Earns
    <3>2. verdicts[d] \in Verdicts
      BY Credits DEF Evaluated
    <3>3. Credit[verdicts[d]] \in {0, 1, 2}
      BY <3>2, Credits DEF Verdicts
    <3>4. Weight[d] \in {1, 3, 5}
      BY <2>1, ChecksFew
    <3>. QED
      BY <3>1, <3>3, <3>4
  <2>. HIDE DEF B
  <2>. QED
    BY <2>1, <2>2, WorthOf, EarnedOf
<1>3. /\ Evaluated(low) # {} /\ Worth(Evaluated(low)) = t + w /\ Earned(low) = e
      /\ Evaluated(high) # {} /\ Worth(Evaluated(high)) = t + w /\ Earned(high) = e + 2 * w
  <2>1. "fail" \in Verdicts /\ "pass" \in Verdicts /\ Credit["fail"] = 0 /\ Credit["pass"] = 2
    BY Credits DEF Verdicts
  <2>2. /\ Evaluated(low) = B \cup {c} /\ Worth(Evaluated(low)) = t + w
        /\ Earned(low) = e + w * Credit["fail"]
    BY <2>1, Regraded
  <2>3. /\ Evaluated(high) = B \cup {c} /\ Worth(Evaluated(high)) = t + w
        /\ Earned(high) = e + w * Credit["pass"]
    BY <2>1, Regraded
  <2>. HIDE DEF B, e, t, w, low, high
  <2>. QED
    BY <1>1, <1>2, <2>1, <2>2, <2>3
<1>4. /\ Scale(e, t + w) <= mine /\ mine <= Scale(e + 2 * w, t + w)
      /\ mine \in Int /\ Scale(e, t + w) \in Int /\ Scale(e + 2 * w, t + w) \in Int
  <2>1. CASE c \in E
    <3>1. verdicts[c] \in Verdicts
      BY <2>1, Credits DEF Evaluated
    <3>2. [verdicts EXCEPT ![c] = verdicts[c]] = verdicts
      OBVIOUS
    <3>. DEFINE v == Credit[verdicts[c]]
    <3>3. Worth(E) = t + w /\ Earned(verdicts) = e + w * v
      BY <3>1, <3>2, Regraded
    <3>4. v \in {0, 1, 2}
      BY <3>1, Credits DEF Verdicts
    <3>. HIDE DEF e, t, w, v, E
    <3>5. e + w * v \in Nat /\ e <= e + w * v /\ e + w * v <= e + 2 * w /\ t + w \in Nat \ {0}
          /\ e + 2 * w \in Nat
      BY <1>1, <1>2, <3>4
    <3>6. Scale(e, t + w) <= Scale(e + w * v, t + w)
      BY <1>2, <3>5, ScaleUp
    <3>7. Scale(e + w * v, t + w) <= Scale(e + 2 * w, t + w)
      BY <1>2, <3>5, ScaleUp
    <3>8. \A a \in Nat, b \in Nat \ {0} : Scale(a, b) \in Int
      BY DEF Scale
    <3>. QED
      BY <1>2, <3>3, <3>5, <3>6, <3>7, <3>8
  <2>2. CASE c \notin E
    <3>1. E = B
      BY <2>2
    <3>2. mine = Scale(e, t) /\ t # 0
      BY <1>2, <3>1 DEF Earned
    <3>. HIDE DEF e, t, w, E, B, mine
    <3>3. t \in Nat \ {0} /\ w \in Nat /\ t + w \in Nat \ {0} /\ e + 2 * w \in Nat
      BY <1>1, <1>2, <3>2
    <3>4. Scale(e, t + w) <= Scale(e, t) /\ Scale(e, t) <= Scale(e + 2 * w, t + w)
      BY <1>2, <3>3, ScaleBetween
    <3>5. \A a \in Nat, b \in Nat \ {0} : Scale(a, b) \in Int
      BY DEF Scale
    <3>. QED
      BY <1>2, <3>2, <3>3, <3>4, <3>5
  <2>. QED
    BY <2>1, <2>2
<1>5. kl \in Nat /\ k \in Nat /\ kh \in Nat /\ kh <= k /\ k <= kl
  <2>. DEFINE L == CriticalFailures(low)
              H == CriticalFailures(high)
  <2>1. H \subseteq K /\ K \subseteq L /\ L \subseteq CRITICAL
    BY DEF CriticalFailures
  <2>2. IsFiniteSet(CRITICAL)
    BY ChecksFew
  <2>. HIDE DEF K, L, H
  <2>3. IsFiniteSet(L) /\ IsFiniteSet(K) /\ IsFiniteSet(H)
    BY <2>1, <2>2, FS_Subset
  <2>4. Cardinality(H) <= Cardinality(K) /\ Cardinality(K) <= Cardinality(L)
    BY <2>1, <2>3, FS_Subset
  <2>. QED
    BY <2>3, <2>4, FS_CardinalityType DEF L, H
<1>6. /\ AuditGrade(verdicts) = Mark(k, mine)
      /\ AuditGrade(low) = Mark(kl, Scale(e, t + w))
      /\ AuditGrade(high) = Mark(kh, Scale(e + 2 * w, t + w))
  <2>1. AuditGrade(verdicts) = Mark(k, mine)
    BY GradeIs
  <2>2. AuditGrade(low) = Mark(kl, Scale(Earned(low), Worth(Evaluated(low))))
    <3>. HIDE DEF low
    <3>. QED
      BY <1>3, GradeIs
  <2>3. AuditGrade(high) = Mark(kh, Scale(Earned(high), Worth(Evaluated(high))))
    <3>. HIDE DEF high
    <3>. QED
      BY <1>3, GradeIs
  <2>. QED
    BY <1>3, <2>1, <2>2, <2>3
<1>. DEFINE x == Scale(e, t + w)
            y == Scale(e + 2 * w, t + w)
<1>. HIDE DEF E, B, e, t, w, K, kl, k, kh, mine, x, y
<1>7. Rank(Mark(kl, x)) <= Rank(Mark(k, mine))
  BY <1>4, <1>5, MarkDrops DEF x, y
<1>8. Rank(Mark(k, mine)) <= Rank(Mark(kh, y))
  BY <1>4, <1>5, MarkDrops DEF x, y
<1>9. Rank(Mark(k, mine)) \in Int
  BY DEF Rank
<1>. QED
  BY <1>6, <1>7, <1>8, <1>9 DEF x, y

\* What a site says to the checks no other can make up for
LEMMA SiteChecks ==
  ASSUME NEW s
  PROVE  LET verdicts == RunChecks(s) IN
         /\ DOMAIN verdicts = CHECKS /\ verdicts = [x \in CHECKS |-> verdicts[x]]
         /\ verdicts["indexable"] = Verdict(~s.pages[1].noindex)
         /\ verdicts["ai_crawler_access"] = AiAccess(RobotsReport(s.robots))
         /\ verdicts["server_rendered_content"] = Verdict(s.pages[1].text # "none")
         /\ s.pages[1].text = "none" => verdicts["thin_content"] = "fail"
         /\ Evaluated(verdicts) # {}
<1>. DEFINE verdicts == RunChecks(s)
<1>1. DOMAIN verdicts = CHECKS
  BY DEF RunChecks
<1>2. verdicts = [x \in CHECKS |-> verdicts[x]]
  BY DEF RunChecks
<1>3. verdicts["indexable"] = Verdict(~s.pages[1].noindex)
  BY DEF RunChecks, AccessChecks, CHECKS, CRITICAL, MARKUP
<1>4. verdicts["ai_crawler_access"] = AiAccess(RobotsReport(s.robots))
  BY DEF RunChecks, CHECKS, CRITICAL
<1>5. verdicts["server_rendered_content"] = Verdict(s.pages[1].text # "none")
  BY DEF RunChecks, AccessChecks, CHECKS, CRITICAL, MARKUP
<1>6. s.pages[1].text = "none" => verdicts["thin_content"] = "fail"
  BY DEF RunChecks, AccessChecks, CHECKS, CRITICAL, MARKUP
<1>7. "indexable" \in CHECKS
  BY DEF CHECKS, CRITICAL
<1>. HIDE DEF verdicts
<1>8. verdicts["indexable"] \in Verdicts
  BY <1>3 DEF Verdict, Verdicts
<1>9. "indexable" \in Evaluated(verdicts)
  BY <1>1, <1>7, <1>8, Credits DEF Evaluated
<1>. QED
  BY <1>1, <1>2, <1>3, <1>4, <1>5, <1>6, <1>9 DEF verdicts

LEMMA Marked ==
  ASSUME NEW k \in Nat, NEW x \in Int
  PROVE  /\ Mark(k, x) # NotGraded
         /\ k >= 1 => Mark(k, x) \notin {"A", "B"}
         /\ k >= 2 => Mark(k, x) = "F"
<1>1. Band(x) \in {"A", "B", "C", "D", "F"}
  BY DEF Band
<1>2. NotGraded \notin {"A", "B", "C", "D", "F"}
  BY DEF NotGraded
<1>. DEFINE b == Band(x)
<1>. HIDE DEF b
<1>3. LET m == IF k >= 2 THEN "F" ELSE IF k = 1 /\ b \in {"A", "B"} THEN "C" ELSE b IN
      /\ m # NotGraded
      /\ k >= 1 => m \notin {"A", "B"}
      /\ k >= 2 => m = "F"
  BY <1>1, <1>2 DEF b
<1>. QED
  BY <1>3 DEF Mark, b

\* The score of checks of which some were made is a number.
LEMMA ScaleType ==
  ASSUME NEW verdicts, DOMAIN verdicts = CHECKS, Evaluated(verdicts) # {}
  PROVE  Scale(Earned(verdicts), Worth(Evaluated(verdicts))) \in Int
<1>. DEFINE E == Evaluated(verdicts)
            e == Earned(verdicts)
            t == Worth(E)
<1>1. E \in SUBSET CHECKS
  BY DEF Evaluated
<1>2. ASSUME NEW d \in E PROVE Earns(verdicts)[d] \in {0, Weight[d], 2 * Weight[d]}
  <2>1. Earns(verdicts)[d] = Weight[d] * Credit[verdicts[d]]
    BY DEF Earns
  <2>2. verdicts[d] \in Verdicts
    BY Credits DEF Evaluated
  <2>3. Credit[verdicts[d]] \in {0, 1, 2}
    BY <2>2, Credits DEF Verdicts
  <2>4. Weight[d] \in {1, 3, 5}
    BY <1>1, ChecksFew
  <2>. QED
    BY <2>1, <2>3, <2>4
<1>. HIDE DEF E
<1>3. e \in Nat /\ t \in Nat
  BY <1>1, <1>2, WorthOf, EarnedOf DEF Earned, E
<1>4. t # 0
  BY <1>1, WorthOf DEF E
<1>. HIDE DEF e, t
<1>5. Scale(e, t) \in Int
  BY <1>3, <1>4 DEF Scale
<1>. QED
  BY <1>5 DEF e, t, E

LEMMA SiteGraded == ASSUME NEW s PROVE GradeHonest(s, Audited(s))
<1>. DEFINE verdicts == RunChecks(s)
            K == CriticalFailures(verdicts)
            k == Cardinality(K)
            E == Evaluated(verdicts)
            x == Scale(Earned(verdicts), Worth(E))
            grade == AuditGrade(verdicts)
<1>1. /\ DOMAIN verdicts = CHECKS /\ verdicts = [c \in CHECKS |-> verdicts[c]] /\ E # {}
      /\ verdicts["indexable"] = Verdict(~s.pages[1].noindex)
      /\ verdicts["ai_crawler_access"] = AiAccess(RobotsReport(s.robots))
      /\ verdicts["server_rendered_content"] = Verdict(s.pages[1].text # "none")
      /\ s.pages[1].text = "none" => verdicts["thin_content"] = "fail"
  BY SiteChecks
<1>2. Audited(s).checks = verdicts /\ Audited(s).grade = grade
  BY DEF Audited
<1>. HIDE DEF verdicts
<1>3. grade = Mark(k, x)
  BY <1>1, GradeIs
<1>4. ASSUME NEW c \in CHECKS
      PROVE  LET Graded(verdict) == AuditGrade([verdicts EXCEPT ![c] = verdict]) IN
             /\ Rank(grade) \in Int
             /\ Rank(Graded("fail")) <= Rank(grade) /\ Rank(grade) <= Rank(Graded("pass"))
  BY <1>1, GradeBetween
<1>5. \A a : Rank(a) \in Int
  BY DEF Rank
<1>6. IsFiniteSet(K) /\ k \in Nat
  <2>1. IsFiniteSet(CRITICAL) /\ K \subseteq CRITICAL
    BY ChecksFew DEF CriticalFailures
  <2>. HIDE DEF K
  <2>. QED
    BY <2>1, FS_Subset, FS_CardinalityType
<1>7. \A c \in CRITICAL : verdicts[c] = "fail" => c \in K
  BY <1>1, ChecksFew DEF CriticalFailures
<1>8. x \in Int
  BY <1>1, ScaleType
<1>. HIDE DEF K, k, x, grade
<1>9. /\ grade # NotGraded
      /\ k >= 1 => grade \notin {"A", "B"}
      /\ k >= 2 => grade = "F"
  BY <1>3, <1>6, <1>8, Marked
<1>10. /\ "indexable" \in CRITICAL /\ "ai_crawler_access" \in CRITICAL
       /\ "server_rendered_content" \in CRITICAL /\ "thin_content" \in CRITICAL
  BY DEF CRITICAL
<1>11. ASSUME NEW c \in K PROVE k >= 1
  <2>1. k # 0
    BY <1>6, FS_EmptySet DEF k
  <2>. QED
    BY <1>6, <2>1
<1>12. ASSUME (s.robots.status = 200 /\ "retrieval" \in s.robots.blocked) \/ s.pages[1].noindex
       PROVE  grade \notin {"A", "B"}
  <2>1. CASE s.robots.status = 200 /\ "retrieval" \in s.robots.blocked
    <3>1. AiAccess(RobotsReport(s.robots)) = "fail"
      BY <2>1 DEF AiAccess, RobotsReport
    <3>. QED
      BY <1>1, <1>7, <1>9, <1>10, <1>11, <3>1
  <2>2. CASE s.pages[1].noindex
    <3>1. Verdict(~s.pages[1].noindex) = "fail"
      BY <2>2 DEF Verdict
    <3>. QED
      BY <1>1, <1>7, <1>9, <1>10, <1>11, <3>1
  <2>. QED
    BY <1>12, <2>1, <2>2
<1>13. ASSUME s.pages[1].text = "none" PROVE grade = "F"
  <2>1. verdicts["server_rendered_content"] = "fail" /\ verdicts["thin_content"] = "fail"
    BY <1>1, <1>13 DEF Verdict
  <2>. DEFINE two == {"server_rendered_content", "thin_content"}
  <2>2. two \subseteq K
    BY <1>7, <1>10, <2>1
  <2>3. Cardinality(two) = 2
    <3>1. IsFiniteSet({"thin_content"}) /\ Cardinality({"thin_content"}) = 1
      BY FS_Singleton
    <3>2. two = {"thin_content"} \cup {"server_rendered_content"}
      OBVIOUS
    <3>3. Cardinality({"thin_content"} \cup {"server_rendered_content"}) = 1 + 1
      BY <3>1, FS_AddElement
    <3>. QED
      BY <3>2, <3>3
  <2>. HIDE DEF two
  <2>4. 2 <= k
    <3>1. Cardinality(two) <= Cardinality(K)
      BY <1>6, <2>2, FS_Subset
    <3>. QED
      BY <2>3, <3>1 DEF k
  <2>. QED
    BY <1>6, <1>9, <2>4
<1>14. \A c \in CHECKS :
          LET Graded(verdict) == AuditGrade([verdicts EXCEPT ![c] = verdict]) IN
          Rank(grade) \in Rank(Graded("fail")) .. Rank(Graded("pass"))
  <2>. SUFFICES ASSUME NEW c \in CHECKS
                PROVE  Rank(grade) \in Rank(AuditGrade([verdicts EXCEPT ![c] = "fail"]))
                                         .. Rank(AuditGrade([verdicts EXCEPT ![c] = "pass"]))
    OBVIOUS
  <2>. DEFINE low == AuditGrade([verdicts EXCEPT ![c] = "fail"])
              high == AuditGrade([verdicts EXCEPT ![c] = "pass"])
  <2>1. Rank(low) <= Rank(grade) /\ Rank(grade) <= Rank(high)
    BY <1>4
  <2>2. Rank(low) \in Int /\ Rank(grade) \in Int /\ Rank(high) \in Int
    BY <1>5
  <2>. HIDE DEF low, high
  <2>3. Rank(grade) \in Rank(low) .. Rank(high)
    BY <2>1, <2>2
  <2>. QED
    BY <2>3 DEF low, high
<1>. QED
  BY <1>1, <1>2, <1>9, <1>12, <1>13, <1>14 DEF GradeHonest

-----------------------------------------------------------------------------
\* A page of the search is read or it is not, and its hit has a rank.
LEMMA PageRead ==
  ASSUME NEW query, NEW page, page[2] \in Seq(SUBSET {"own", "name"}), NEW sited
  PROVE  LET check == SerpCheck(query, page, sited) IN
         /\ check.hit = "yes" => Measurable(page)
         /\ check.hit = "unknown" <=> ~Measurable(page)
         /\ check.hit = "yes" <=> check.rank > 0
<1>. DEFINE hits == Hits(page, sited)
            none == [hit |-> "no", rank |-> 0, via |-> "none"]
            seen == Detected(page, sited)
<1>1. hits \subseteq Nat \ {0}
  BY DEF Hits
<1>2. hits # {} => Min(hits) \in hits
  <2>. SUFFICES ASSUME hits # {} PROVE Min(hits) \in hits
    OBVIOUS
  <2>. HIDE DEF hits
  <2>1. \E m \in hits : \A n \in hits : m <= n
    BY <1>1, SmallestNumber
  <2>. QED
    BY <2>1 DEF Min
<1>3. hits = {} => seen.hit = "no" /\ seen.rank = 0
  BY DEF Detected
<1>4. hits # {} => seen.hit = "yes" /\ seen.rank = Min(hits)
  BY DEF Detected
<1>. DEFINE first == Min(hits)
<1>. HIDE DEF hits, seen, first
<1>4a. hits # {} => seen.rank = first /\ first \in Nat /\ first # 0
  BY <1>1, <1>2, <1>4 DEF first
<1>5. /\ seen.hit \in {"yes", "no"}
      /\ seen.hit = "yes" <=> seen.rank > 0
  <2>1. CASE hits = {}
    BY <1>3, <2>1
  <2>2. CASE hits # {}
    BY <1>4, <1>4a, <2>2
  <2>. QED
    BY <2>1, <2>2
<1>6. /\ Measurable(page) => /\ SerpCheck(query, page, sited).hit = seen.hit
                             /\ SerpCheck(query, page, sited).rank = seen.rank
      /\ ~Measurable(page) => /\ SerpCheck(query, page, sited).hit = "unknown"
                              /\ SerpCheck(query, page, sited).rank = 0
  BY DEF SerpCheck, seen
<1>. QED
  BY <1>5, <1>6

LEMMA OneMore ==
  ASSUME NEW k \in Nat, NEW S \in SUBSET (1 .. k)
  PROVE  Cardinality(S) \in Nat /\ Cardinality(S \cup {k + 1}) = Cardinality(S) + 1
<1>1. IsFiniteSet(S) /\ Cardinality(S) \in Nat
  BY SomeCounted
<1>2. k + 1 \notin S
  OBVIOUS
<1>. QED
  BY <1>1, <1>2, FS_AddElement

\* One more query counted
LEMMA SearchCounted ==
  ASSUME NEW k \in Nat, NEW some, Len(some) = k, DOMAIN some = 1 .. k, NEW count, SearchAgrees(some, count),
         NEW query, NEW page, page[2] \in Seq(SUBSET {"own", "name"}), NEW sited,
         NEW more, DOMAIN more = 1 .. k + 1, \A i \in 1 .. k : more[i] = some[i],
         more[k + 1] = SerpCheck(query, page, sited)
  PROVE  SearchAgrees(more, CountAnswer(count, page, SerpCheck(query, page, sited)))
<1>. DEFINE check == SerpCheck(query, page, sited)
            after == CountAnswer(count, page, check)
            known == {n \in 1 .. k : some[n].hit # "unknown"}
            hits == {n \in 1 .. k : some[n].hit = "yes"}
            nowKnown == {n \in 1 .. k + 1 : more[n].hit # "unknown"}
            nowHits == {n \in 1 .. k + 1 : more[n].hit = "yes"}
            a == Cardinality(known)
            b == Cardinality(hits)
<1>1. /\ count.queries = a /\ count.hits = b /\ (count.queries = 0 <=> count.status # "ok")
      /\ \A n \in 1 .. k : some[n].hit = "yes" <=> some[n].rank > 0
  BY DEF SearchAgrees
<1>2. /\ check.hit = "yes" => Measurable(page)
      /\ check.hit = "unknown" <=> ~Measurable(page)
      /\ check.hit = "yes" <=> check.rank > 0
  BY PageRead
<1>3. /\ ~Measurable(page) => after = count
      /\ Measurable(page) =>
            /\ after.status = "ok" /\ after.queries = count.queries + 1
            /\ after.hits = count.hits + (IF check.hit = "yes" THEN 1 ELSE 0)
  BY DEF CountAnswer
<1>. HIDE DEF check, after
<1>4. \A n \in 1 .. k + 1 : n \in 1 .. k \/ n = k + 1
  OBVIOUS
<1>5. nowKnown = known \cup (IF check.hit # "unknown" THEN {k + 1} ELSE {})
  BY <1>4 DEF check
<1>6. nowHits = hits \cup (IF check.hit = "yes" THEN {k + 1} ELSE {})
  BY <1>4 DEF check
<1>7. known \in SUBSET (1 .. k) /\ hits \in SUBSET (1 .. k)
  OBVIOUS
<1>8. \A n \in DOMAIN more : more[n].hit = "yes" <=> more[n].rank > 0
  BY <1>1, <1>2, <1>4 DEF check
<1>. HIDE DEF known, hits, nowKnown, nowHits
<1>11. /\ a \in Nat /\ Cardinality(known \cup {k + 1}) = a + 1
       /\ b \in Nat /\ Cardinality(hits \cup {k + 1}) = b + 1
  BY <1>7, OneMore
<1>9. Cardinality(nowKnown) = a + (IF check.hit # "unknown" THEN 1 ELSE 0)
  <2>1. CASE check.hit # "unknown"
    <3>1. nowKnown = known \cup {k + 1}
      BY <1>5, <2>1
    <3>. QED
      BY <1>11, <2>1, <3>1
  <2>2. CASE check.hit = "unknown"
    <3>1. nowKnown = known
      BY <1>5, <2>2
    <3>. QED
      BY <1>11, <2>2, <3>1
  <2>. QED
    BY <2>1, <2>2
<1>10. Cardinality(nowHits) = b + (IF check.hit = "yes" THEN 1 ELSE 0)
  <2>1. CASE check.hit = "yes"
    <3>1. nowHits = hits \cup {k + 1}
      BY <1>6, <2>1
    <3>. QED
      BY <1>11, <2>1, <3>1
  <2>2. CASE check.hit # "yes"
    <3>1. nowHits = hits
      BY <1>6, <2>2
    <3>. QED
      BY <1>11, <2>2, <3>1
  <2>. QED
    BY <2>1, <2>2
<1>. HIDE DEF a, b
<1>12. after.queries = Cardinality(nowKnown) /\ after.hits = Cardinality(nowHits)
  BY <1>1, <1>2, <1>3, <1>9, <1>10, <1>11
<1>13. after.queries = 0 <=> after.status # "ok"
  BY <1>1, <1>3, <1>11
<1>. QED
  BY <1>8, <1>12, <1>13 DEF SearchAgrees, nowKnown, nowHits, after, check

LEMMA NothingSearched ==
  ASSUME NEW count, count.queries = 0, count.hits = 0, count.status # "ok"
  PROVE  SearchAgrees(<<>>, count)
<1>1. /\ {n \in DOMAIN <<>> : <<>>[n].hit # "unknown"} = {}
      /\ {n \in DOMAIN <<>> : <<>>[n].hit = "yes"} = {}
  OBVIOUS
<1>. QED
  BY <1>1, FS_EmptySet DEF SearchAgrees

\* A measured answer in which the company is named is a mention, whether its audit
\* was read or not.
LEMMA NameIsMention ==
  ASSUME run.mode = "measured", NEW n, NEW raw,
         Whole(AuditRecord(n, raw), run.profile.kyc) # {}
  PROVE  AuditRecord(n, raw).mentioned
<1>. DEFINE kyc == run.profile.kyc
<1>1. Whole(raw, kyc) # {} => Mentioned(raw)
  BY DEF Mentioned
<1>2. CASE raw.failed = "no"
  <2>1. /\ AuditRecord(n, raw).text = raw.text
        /\ AuditRecord(n, raw).mentioned = Mentioned(raw)
    BY <1>2 DEF AuditRecord, Merged
  <2>2. Whole(AuditRecord(n, raw), kyc) = Whole(raw, kyc)
    BY <2>1 DEF Whole
  <2>. QED
    BY <1>1, <2>1, <2>2
<1>3. CASE raw.failed = "audit_extraction"
  <2>1. AuditRecord(n, raw) = Failed(n, raw)
    BY <1>3 DEF AuditRecord
  <2>2. Failed(n, raw).text = raw.text
    BY <1>3 DEF Failed
  <2>3. Mentioned(raw) => Failed(n, raw).mentioned
    BY <1>3, Zenon DEF Failed
  <2>4. Whole(AuditRecord(n, raw), kyc) = Whole(raw, kyc)
    BY <2>1, <2>2 DEF Whole
  <2>. QED
    BY <1>1, <2>1, <2>3, <2>4
<1>4. CASE raw.failed # "no" /\ raw.failed # "audit_extraction"
  <2>1. AuditRecord(n, raw).text = <<>>
    BY <1>4 DEF AuditRecord, Failed
  <2>2. Whole(AuditRecord(n, raw), kyc) = {}
    BY <2>1 DEF Whole, Range
  <2>. QED
    BY <2>2
<1>. QED
  BY <1>2, <1>3, <1>4

-----------------------------------------------------------------------------
\* What the pages are read from: the grade is the one of the site, who names the
\* company in a measured answer is a mention, the counters of the search count its
\* rows, and what is published is computed from the records.
PagesInv ==
  /\ seo.status # "ok" \/ seo = Audited(site)
  /\ run.mode = "measured" => NamesAreMentions(records, run.profile.kyc)
  /\ Len(checks) \in Nat /\ DOMAIN checks = 1 .. Len(checks)
  /\ stage \in {"discovery", "kyc", "prompts", "execute"} => checks = <<>>
  /\ stage \in {"footprint", "done"} => SearchAgrees(checks, search)
  /\ stage = "done" =>
        /\ geo = GeoSum(records, reliability)
        /\ summary = CitationSummary(records)
        /\ headline = [count |-> Cardinality(Mentions(records, DOMAIN records)),
                       total |-> Len(records)]

LEMMA PagesStep ==
  ASSUME PagesInv, PlanInv, [ScoreNext]_scoreVars
  PROVE  PagesInv'
<1>. USE DEF PagesInv
<1>1. CASE UNCHANGED scoreVars
  BY <1>1 DEF scoreVars, scores, reading, searching, NamesAreMentions
<1>2. CASE ReadSite
  <2>1. seo'.status # "ok" \/ seo' = Audited(site')
    BY <1>2 DEF ReadSite, reading, AuditFailed, NoAudit
  <2>. QED
    BY <1>2, <2>1 DEF ReadSite, scores, searching, NamesAreMentions
<1>3. CASE Plan
  BY <1>3 DEF Plan, scores, reading, searching, NamesAreMentions
<1>4. CASE Review
  BY <1>4 DEF Review, scores, reading, searching, NamesAreMentions
<1>5. CASE Respond
  <2>. DEFINE n == Len(records) + 1
  <2>1. PICK raw : records' = Append(records, AuditRecord(n, raw))
    BY <1>5 DEF Respond
  <2>2. /\ stage = "execute"
        /\ UNCHANGED <<stage, run, reading, searching>>
    BY <1>5 DEF Respond
  <2>3. ASSUME run.mode = "measured" PROVE NamesAreMentions(records', run.profile.kyc)
    <3>1. /\ DOMAIN records' = 1 .. n /\ records'[n] = AuditRecord(n, raw)
          /\ \A i \in 1 .. Len(records) : records'[i] = records[i]
      BY <2>1 DEF PlanInv
    <3>. SUFFICES ASSUME NEW i \in DOMAIN records', Whole(records'[i], run.profile.kyc) # {}
                  PROVE  records'[i].mentioned
      BY DEF NamesAreMentions
    <3>2. CASE i = n
      BY <2>3, <3>1, <3>2, NameIsMention
    <3>3. CASE i # n
      <4>1. i \in DOMAIN records /\ records'[i] = records[i]
        BY <3>1, <3>3 DEF PlanInv
      <4>. QED
        BY <2>3, <4>1 DEF NamesAreMentions
    <3>. QED
      BY <3>2, <3>3
  <2>. QED
    BY <2>2, <2>3 DEF reading, searching
<1>6. CASE Footprint
  <2>1. /\ checks' = <<>> /\ stage' = "footprint"
        /\ UNCHANGED <<run, records, seo, site>>
    BY <1>6 DEF Footprint, reading
  <2>2. search'.queries = 0 /\ search'.hits = 0 /\ search'.status # "ok"
    BY <1>6 DEF Footprint, Began, NotSearched
  <2>3. SearchAgrees(checks', search')
    BY <2>1, <2>2, NothingSearched
  <2>. QED
    BY <2>1, <2>3 DEF NamesAreMentions
<1>7. CASE SearchOne
  <2>. DEFINE k == Len(checks)
              q == queries[k + 1]
              sited == run.kind # "checker"
  <2>1. PICK page \in SearchPages(run) :
           /\ checks' = Append(checks, SerpCheck(q, page, sited))
           /\ search' = CountAnswer(search, page, SerpCheck(q, page, sited))
    BY <1>7 DEF SearchOne
  <2>2. stage = "footprint" /\ UNCHANGED <<stage, run, records, seo, site>>
    BY <1>7 DEF SearchOne, reading
  <2>3. page[2] \in Seq(SUBSET {"own", "name"})
    BY RunsAssumption DEF PlanInv
  <2>. DEFINE check == SerpCheck(q, page, sited)
  <2>. HIDE DEF check
  <2>4. /\ k \in Nat /\ Len(checks') = k + 1 /\ DOMAIN checks' = 1 .. k + 1
        /\ checks'[k + 1] = check /\ \A i \in 1 .. k : checks'[i] = checks[i]
    BY <2>1 DEF check
  <2>5. SearchAgrees(checks, search) /\ DOMAIN checks = 1 .. k
    BY <2>2
  <2>6. SearchAgrees(checks', search')
    <3>1. search' = CountAnswer(search, page, SerpCheck(q, page, sited))
      BY <2>1
    <3>2. /\ k \in Nat /\ Len(checks) = k /\ DOMAIN checks = 1 .. k /\ DOMAIN checks' = 1 .. k + 1
          /\ checks'[k + 1] = SerpCheck(q, page, sited) /\ \A i \in 1 .. k : checks'[i] = checks[i]
      BY <2>4, <2>5 DEF check
    <3>. DEFINE more == checks'
    <3>. HIDE DEF k, q, sited, more
    <3>3. SearchAgrees(more, CountAnswer(search, page, SerpCheck(q, page, sited)))
      BY <2>3, <2>5, <3>2, SearchCounted DEF more
    <3>. QED
      BY <3>1, <3>3 DEF more
  <2>. QED
    BY <2>2, <2>4, <2>6 DEF NamesAreMentions
<1>8. CASE Score
  BY <1>8 DEF Score, reading, searching, NamesAreMentions
<1>. QED
  BY <1>1, <1>2, <1>3, <1>4, <1>5, <1>6, <1>7, <1>8 DEF ScoreNext

\* The pages of a finished run tell one story: the score fits the citations, the
\* checker's map, the insights and the categories add up to the headline, no answer
\* is lost and won at once, the rate of the search is over the queries that could
\* be read -- and before that, the grade of the site lies, for each of its checks,
\* between the one of its failure and the one of its passing.
THEOREM ReportsDoAgree == ScoreSpec => []ReportsAgree
<1>1. ScoreInit => PagesInv
  BY DEF ScoreInit, PagesInv, NoAudit, NamesAreMentions
<1>2. PagesInv /\ PlanInv /\ [ScoreNext]_scoreVars => PagesInv'
  BY PagesStep
<1>3. PagesInv /\ PlanInv => ReportsAgree
  <2>. SUFFICES ASSUME PagesInv, PlanInv PROVE ReportsAgree
    OBVIOUS
  <2>1. GradeHonest(site, seo)
    <3>1. CASE seo = Audited(site)
      <4>1. GradeHonest(site, Audited(site))
        BY SiteGraded
      <4>. QED
        BY <3>1, <4>1
    <3>2. CASE seo.status # "ok"
      BY <3>2 DEF GradeHonest
    <3>. QED
      BY <3>1, <3>2 DEF PagesInv
  <2>2. ASSUME stage = "done"
        PROVE  ScoreFitsSummary /\ MapsAgree /\ RivalsAgree /\ SearchAgrees(checks, search)
    <3>1. Published
      BY <2>2 DEF PagesInv, PlanInv, Published
    <3>2. ScoreFitsSummary /\ MapsAgree
      BY <3>1, ScoresFit, MapsFit
    <3>3. RivalsAgree
      BY <3>1, RivalsFit DEF PagesInv
    <3>. QED
      BY <2>2, <3>2, <3>3 DEF PagesInv
  <2>. QED
    BY <2>1, <2>2 DEF ReportsAgree
<1>. QED
  BY <1>1, <1>2, <1>3, QuestionsCategorized, PTL DEF ScoreSpec

-----------------------------------------------------------------------------
(***************************************************************************)
(* Plans and searches: two strides over the same topics.                   *)
(***************************************************************************)
LEMMA NthPlaced ==
  ASSUME NEW z \in Nat, NEW S, S \subseteq 0 .. z, NEW k \in 1 .. Cardinality(S)
  PROVE  Nth(S, k) \in S /\ Standing(S, Nth(S, k)) = k
<1>1. \E n \in S : Standing(S, n) = k
  BY StandingTaken
<1>. QED
  BY <1>1 DEF Nth, Standing

\* The constants of a profile
IsProfile(profile) ==
  /\ profile.candidates \in Seq(Range(profile.candidates))
  /\ profile.products \in Nat /\ profile.solutions \in BOOLEAN

\* A topic is in the pool once.
LEMMA PoolSound ==
  ASSUME NEW profile, IsProfile(profile), NEW pool, pool = TopicPool(profile)
  PROVE  /\ Len(pool) \in Nat /\ DOMAIN pool = 1 .. Len(pool)
         /\ \A i, j \in DOMAIN pool : pool[i].topic = pool[j].topic => i = j
<1>. DEFINE list == profile.candidates
            z == Len(list)
            E == Askable(profile)
            S == {i \in E : \A j \in E : list[j].topic = list[i].topic => i <= j}
<1>1. z \in Nat /\ DOMAIN list = 1 .. z
  BY DEF IsProfile
<1>2. pool = Kept(list, S)
  BY DEF TopicPool
<1>3. E \subseteq 1 .. z
  BY <1>1 DEF Askable
<1>. HIDE DEF z, E
<1>4. S \subseteq 0 .. z /\ S \in SUBSET (0 .. z) /\ IsFiniteSet(0 .. z)
  <2>1. S \subseteq E
    OBVIOUS
  <2>. HIDE DEF S
  <2>2. 1 .. z \subseteq 0 .. z /\ IsFiniteSet(0 .. z)
    BY <1>1, FS_Interval
  <2>. QED
    BY <1>3, <2>1, <2>2
<1>. HIDE DEF S
<1>5. IsFiniteSet(S)
  BY <1>4, FS_Subset
<1>6. Cardinality(S) \in Nat
  BY <1>5, FS_CardinalityType
<1>7. pool = [k \in 1 .. Cardinality(S) |-> list[Nth(S, k)]]
  BY <1>2 DEF Kept
<1>8. Len(pool) = Cardinality(S) /\ DOMAIN pool = 1 .. Cardinality(S)
  BY <1>6, <1>7
<1>9. ASSUME NEW i \in DOMAIN pool, NEW j \in DOMAIN pool, pool[i].topic = pool[j].topic
      PROVE  i = j
  <2>. DEFINE m == Nth(S, i)
              n == Nth(S, j)
  <2>1. m \in S /\ Standing(S, m) = i
    BY <1>1, <1>4, <1>8, NthPlaced
  <2>2. n \in S /\ Standing(S, n) = j
    BY <1>1, <1>4, <1>8, NthPlaced
  <2>3. list[m].topic = list[n].topic
    BY <1>7, <1>8, <1>9
  <2>. HIDE DEF m, n
  <2>4. m <= n /\ n <= m
    BY <2>1, <2>2, <2>3 DEF S
  <2>5. m \in Int /\ n \in Int
    BY <1>1, <1>4, <2>1, <2>2
  <2>6. m = n
    BY <2>4, <2>5
  <2>. QED
    BY <2>1, <2>2, <2>6
<1>. QED
  BY <1>6, <1>8, <1>9

LEMMA TopicsSound ==
  ASSUME NEW profile, IsProfile(profile), NEW topics, topics = Topics(profile)
  PROVE  /\ Len(topics) \in Nat \ {0} /\ DOMAIN topics = 1 .. Len(topics)
         /\ \A i, j \in DOMAIN topics : topics[i].topic = topics[j].topic => i = j
         /\ \/ \A i \in DOMAIN topics : topics[i].names = FALSE
            \/ Len(topics) = 1 /\ topics[1].names = TRUE /\ profile.solutions
<1>. DEFINE pool == TopicPool(profile)
<1>1. /\ Len(pool) \in Nat /\ DOMAIN pool = 1 .. Len(pool)
      /\ \A i, j \in DOMAIN pool : pool[i].topic = pool[j].topic => i = j
  BY PoolSound
<1>2. topics = IF pool = <<>> THEN <<[topic |-> "solutions", names |-> profile.solutions]>>
               ELSE [i \in DOMAIN pool |-> [topic |-> pool[i].topic, names |-> FALSE]]
  BY DEF Topics
<1>. HIDE DEF pool
<1>3. CASE pool = <<>>
  <2>. DEFINE only == [topic |-> "solutions", names |-> profile.solutions]
  <2>1. topics = <<only>>
    BY <1>2, <1>3
  <2>. HIDE DEF only
  <2>2. Len(topics) = 1 /\ DOMAIN topics = 1 .. 1 /\ topics[1] = only
    BY <2>1
  <2>3. only.names = profile.solutions
    BY DEF only
  <2>4. \A i \in 1 .. 1 : i = 1
    OBVIOUS
  <2>5. profile.solutions = TRUE \/ profile.solutions = FALSE
    BY DEF IsProfile
  <2>6. CASE profile.solutions = FALSE
    BY <2>2, <2>3, <2>4, <2>6
  <2>7. CASE profile.solutions = TRUE
    BY <2>2, <2>3, <2>4, <2>7
  <2>. QED
    BY <2>5, <2>6, <2>7
<1>4. CASE pool # <<>>
  <2>1. topics = [i \in DOMAIN pool |-> [topic |-> pool[i].topic, names |-> FALSE]]
    BY <1>2, <1>4
  <2>2. Len(pool) # 0
    BY <1>1, <1>4
  <2>3. Len(topics) = Len(pool) /\ DOMAIN topics = 1 .. Len(pool)
    BY <1>1, <2>1
  <2>4. \A i \in DOMAIN topics : topics[i].topic = pool[i].topic /\ topics[i].names = FALSE
    BY <1>1, <2>1, <2>3
  <2>. QED
    BY <1>1, <2>2, <2>3, <2>4
<1>. QED
  BY <1>3, <1>4

LEMMA CategoriesApart ==
  /\ DOMAIN CATEGORIES = 1 .. 6
  /\ \A i, j \in 1 .. 6 : CATEGORIES[i] = CATEGORIES[j] => i = j
  /\ \A i \in 1 .. 6 : CATEGORIES[i] # "numbered" /\ CATEGORIES[i] # "padder"
                       /\ CATEGORIES[i] # BRAND_PROBE
  BY DEF CATEGORIES, BRAND_PROBE

\* The topics of a profile, as the strides use them
IsPool(topics) ==
  /\ Len(topics) \in Nat \ {0} /\ DOMAIN topics = 1 .. Len(topics)
  /\ \A i, j \in DOMAIN topics : topics[i].topic = topics[j].topic => i = j

\* Step b of lap a
LEMMA StepOfLap ==
  ASSUME NEW topics, IsPool(topics), NEW a \in Nat, NEW b \in 0 .. 5
  PROVE  /\ ((7 * a + b) % Len(topics)) + 1 \in DOMAIN topics
         /\ StepText(topics, 6 * a + b) =
              <<CATEGORIES[b + 1], topics[((7 * a + b) % Len(topics)) + 1].topic,
                (a \div Len(topics)) % Wordings>>
<1>. DEFINE t == Len(topics)
            s == 6 * a + b
<1>1. t \in Nat \ {0} /\ s \in Nat
  BY DEF IsPool
<1>2. s \div 6 = a /\ s % 6 = b
  BY LapOfStep
<1>3. s \div (6 * t) = a \div t
  <2>. HIDE DEF t
  <2>. QED
    BY <1>1, CycleOfStep
<1>4. s + (s \div 6) = 7 * a + b
  <2>1. s + a = 7 * a + b
    OBVIOUS
  <2>. HIDE DEF s
  <2>. QED
    BY <1>2, <2>1
<1>5. StepText(topics, s) = <<CATEGORIES[(s % 6) + 1], topics[((s + (s \div 6)) % t) + 1].topic,
                              (s \div (6 * t)) % Wordings>>
  BY CategoryTurns DEF StepText
<1>6. ((7 * a + b) % t) + 1 \in 1 .. t
  <2>1. 7 * a + b \in Nat
    OBVIOUS
  <2>. HIDE DEF t
  <2>2. (7 * a + b) % t \in 0 .. t - 1
    BY <1>1, <2>1, Division
  <2>. QED
    BY <1>1, <2>2
<1>7. StepText(topics, s) = <<CATEGORIES[b + 1], topics[((7 * a + b) % t) + 1].topic,
                              (a \div t) % Wordings>>
  <2>. HIDE DEF s, t
  <2>. QED
    BY <1>2, <1>3, <1>4, <1>5
<1>. QED
  BY <1>6, <1>7 DEF IsPool

\* The place of step b of lap a among what is tried, and the text there
PlaceAt(a, b) == 6 * a + b + 1
TextAt(topics, n) == StepText(topics, n - 1)

\* Laps a and c ask the same, each in its turn.
SameLap(t, a, c) == (7 * a) % t = (7 * c) % t /\ (a \div t) % Wordings = (c \div t) % Wordings

LEMMA StepsSame ==
  ASSUME NEW topics, IsPool(topics), NEW a \in Nat, NEW b \in 0 .. 5, NEW c \in Nat, NEW d \in 0 .. 5
  PROVE  TextAt(topics, PlaceAt(a, b)) = TextAt(topics, PlaceAt(c, d))
           <=> (b = d /\ SameLap(Len(topics), a, c))
<1>. DEFINE t == Len(topics)
            x == 7 * a
            y == 7 * c
            p == x + b
            q == y + d
            i == (p % t) + 1
            j == (q % t) + 1
            v == (a \div t) % Wordings
            w == (c \div t) % Wordings
<1>1. i \in DOMAIN topics /\ StepText(topics, 6 * a + b) = <<CATEGORIES[b + 1], topics[i].topic, v>>
  BY StepOfLap
<1>2. j \in DOMAIN topics /\ StepText(topics, 6 * c + d) = <<CATEGORIES[d + 1], topics[j].topic, w>>
  BY StepOfLap
<1>3. CATEGORIES[b + 1] = CATEGORIES[d + 1] <=> b = d
  <2>1. b + 1 \in 1 .. 6 /\ d + 1 \in 1 .. 6 /\ (b + 1 = d + 1 <=> b = d)
    OBVIOUS
  <2>. QED
    BY <2>1, CategoriesApart
<1>4. topics[i].topic = topics[j].topic <=> i = j
  <2>. HIDE DEF i, j
  <2>. QED
    BY <1>1, <1>2 DEF IsPool
<1>5. b = d => (i = j <=> x % t = y % t)
  <2>. SUFFICES ASSUME b = d PROVE i = j <=> x % t = y % t
    OBVIOUS
  <2>1. x \in Nat /\ y \in Nat /\ b \in Nat /\ t \in Nat \ {0} /\ p \in Nat /\ q \in Nat
    BY DEF IsPool
  <2>2. p - q = x - y
    OBVIOUS
  <2>. HIDE DEF x, y, t, p, q, i, j, v, w
  <2>3. p % t = q % t <=> x % t = y % t
    <3>1. \A m \in Nat, n \in Nat : m % t = n % t <=> \E k \in Int : m - n = k * t
      BY <2>1, SameRemainder
    <3>2. p % t = q % t <=> \E k \in Int : p - q = k * t
      BY <2>1, <3>1
    <3>3. x % t = y % t <=> \E k \in Int : x - y = k * t
      BY <2>1, <3>1
    <3>. QED
      BY <2>2, <3>2, <3>3
  <2>4. p % t \in 0 .. t - 1 /\ q % t \in 0 .. t - 1
    BY <2>1, Division
  <2>5. \A m, n \in 0 .. t - 1 : m + 1 = n + 1 <=> m = n
    BY <2>1
  <2>6. i = j <=> p % t = q % t
    BY <2>4, <2>5 DEF i, j
  <2>. QED
    BY <2>3, <2>6
<1>. HIDE DEF i, j, v, w
<1>6. StepText(topics, 6 * a + b) = StepText(topics, 6 * c + d)
        <=> (CATEGORIES[b + 1] = CATEGORIES[d + 1] /\ topics[i].topic = topics[j].topic /\ v = w)
  BY <1>1, <1>2
<1>7. SameLap(t, a, c) <=> (x % t = y % t /\ v = w)
  BY DEF SameLap, v, w
<1>8. StepText(topics, 6 * a + b) = StepText(topics, 6 * c + d)
        <=> (b = d /\ SameLap(t, a, c))
  BY <1>3, <1>4, <1>5, <1>6, <1>7
<1>9. PlaceAt(a, b) - 1 = 6 * a + b /\ PlaceAt(c, d) - 1 = 6 * c + d
  BY DEF PlaceAt
<1>. QED
  BY <1>8, <1>9 DEF TextAt

LEMMA PoolOfProfile ==
  ASSUME NEW profile, IsProfile(profile)
  PROVE  IsPool(Topics(profile))
  BY TopicsSound DEF IsPool

LEMMA RowOf ==
  ASSUME NEW n \in Nat, NEW row, DOMAIN row = 1 .. n, row = [k \in 1 .. n |-> row[k]]
  PROVE  Len(row) = n /\ \A T : (\A k \in 1 .. n : row[k] \in T) => row \in Seq(T)
  OBVIOUS

\* The steps up to e, the padders up to p and the numbered texts after them
TriedInParts(tried, topics, count, e, p) ==
  /\ e \in Nat /\ p \in Nat /\ e <= p
  /\ count > 0 => 6 * Len(topics) + 1 <= e
  /\ DOMAIN tried = 1 .. p + 4 * count
  /\ \A n \in 1 .. e : tried[n] = TextAt(topics, n)
  /\ \A n \in e + 1 .. p :
       \E i \in DOMAIN topics, k \in Nat : tried[n] = <<"padder", topics[i].topic, k>>
  /\ \A n \in 1 .. 4 * count : tried[p + n] = <<"numbered", topics[1].topic, n>>

LEMMA StepsEnough ==
  ASSUME NEW t \in Nat \ {0}, NEW count \in Nat, NEW e, e = Min({count * 6 * t + count, 3 * 6 * t})
  PROVE  e \in Nat /\ (count > 0 => 6 * t + 1 <= e)
<1>. DEFINE w == count * 6 * t
<1>1. w \in Nat /\ 3 * 6 * t = 18 * t /\ (count > 0 => 6 * t <= w)
  <2>1. count * t \in Nat /\ w = 6 * (count * t)
    OBVIOUS
  <2>2. count > 0 => t <= count * t
    OBVIOUS
  <2>. DEFINE v == count * t
  <2>. HIDE DEF v, w
  <2>3. w \in Nat /\ (count > 0 => 6 * t <= w)
    <3>1. v \in Nat /\ w = 6 * v /\ (count > 0 => t <= v)
      BY <2>1, <2>2 DEF v
    <3>. QED
      BY <3>1
  <2>. QED
    BY <2>3
<1>. HIDE DEF w
<1>2. e = IF w + count <= 18 * t THEN w + count ELSE 18 * t
  <2>1. w + count \in Int /\ 3 * 6 * t \in Int
    BY <1>1
  <2>2. e = Min({w + count, 3 * 6 * t})
    BY DEF w
  <2>. QED
    BY <1>1, <2>1, <2>2, Smaller
<1>. QED
  BY <1>1, <1>2

LEMMA TriedParts ==
  ASSUME NEW profile, IsProfile(profile), NEW count \in Nat
  PROVE  \E e, p \in Nat : TriedInParts(Tried(profile, count), Topics(profile), count, e, p)
<1>. DEFINE topics == Topics(profile)
            t == Len(topics)
            e == Min({count * Lap * t + count, Wordings * Lap * t})
            d == Padders * t + count
            Pad(n) == <<"padder", topics[(n % t) + 1].topic, n % Padders>>
            steps == [n \in 1 .. e |-> StepText(topics, n - 1)]
            pads == [n \in 1 .. d |-> Pad(n - 1)]
            numbered == [n \in 1 .. 4 * count |-> <<"numbered", topics[1].topic, n>>]
            tried == steps \o pads \o numbered
<1>1. Tried(profile, count) = tried
  BY DEF Tried
<1>2. t \in Nat \ {0} /\ DOMAIN topics = 1 .. t
  BY PoolOfProfile DEF IsPool
<1>3. e \in Nat /\ (count > 0 => 6 * t + 1 <= e)
  <2>. HIDE DEF t
  <2>1. e = Min({count * 6 * t + count, 3 * 6 * t})
    BY CategoryTurns DEF Wordings
  <2>. HIDE DEF e
  <2>. QED
    BY <1>2, <2>1, StepsEnough
<1>4. d \in Nat
  <2>. HIDE DEF t
  <2>. QED
    BY <1>2 DEF Padders
<1>5. \A n \in 1 .. d : (n - 1) % t \in 0 .. t - 1 /\ (n - 1) % Padders \in Nat
  <2>. HIDE DEF t, d
  <2>1. \A n \in 1 .. d : n - 1 \in Nat
    BY <1>4
  <2>2. ASSUME NEW m \in Nat PROVE m % t \in 0 .. t - 1 /\ m % 6 \in Nat
    <3>1. m % t \in 0 .. t - 1
      BY <1>2, Division
    <3>2. m % 6 \in Nat
      OBVIOUS
    <3>. QED
      BY <3>1, <3>2
  <2>. QED
    BY <2>1, <2>2 DEF Padders
<1>6. \A n \in 1 .. d : \E i \in DOMAIN topics, k \in Nat : pads[n] = <<"padder", topics[i].topic, k>>
  <2>. SUFFICES ASSUME NEW n \in 1 .. d
                PROVE  \E i \in DOMAIN topics, k \in Nat : pads[n] = <<"padder", topics[i].topic, k>>
    OBVIOUS
  <2>1. pads[n] = Pad(n - 1)
    BY <1>4
  <2>. DEFINE i == ((n - 1) % t) + 1
              k == (n - 1) % Padders
  <2>2. pads[n] = <<"padder", topics[i].topic, k>>
    BY <2>1
  <2>. HIDE DEF pads
  <2>3. i \in 1 .. t /\ k \in Nat
    <3>. HIDE DEF t, d
    <3>. QED
      BY <1>2, <1>5
  <2>. HIDE DEF i, k
  <2>. QED
    BY <1>2, <2>2, <2>3
<1>. DEFINE T == {steps[n] : n \in 1 .. e} \cup {pads[n] : n \in 1 .. d}
                   \cup {numbered[n] : n \in 1 .. 4 * count}
<1>7. Len(steps) = e /\ steps \in Seq(T)
  <2>1. \A n \in 1 .. e : steps[n] \in T
    OBVIOUS
  <2>2. DOMAIN steps = 1 .. e /\ steps = [n \in 1 .. e |-> steps[n]]
    OBVIOUS
  <2>. HIDE DEF steps, e, T
  <2>. QED
    BY <1>3, <2>1, <2>2, RowOf
<1>8. Len(pads) = d /\ pads \in Seq(T)
  <2>1. \A n \in 1 .. d : pads[n] \in T
    OBVIOUS
  <2>2. DOMAIN pads = 1 .. d /\ pads = [n \in 1 .. d |-> pads[n]]
    OBVIOUS
  <2>. HIDE DEF pads, d, T
  <2>. QED
    BY <1>4, <2>1, <2>2, RowOf
<1>9. Len(numbered) = 4 * count /\ numbered \in Seq(T)
  <2>1. \A n \in 1 .. 4 * count : numbered[n] \in T
    OBVIOUS
  <2>2. DOMAIN numbered = 1 .. 4 * count /\ numbered = [n \in 1 .. 4 * count |-> numbered[n]]
    OBVIOUS
  <2>3. 4 * count \in Nat
    OBVIOUS
  <2>. HIDE DEF numbered, T
  <2>. QED
    BY <2>1, <2>2, <2>3, RowOf
<1>10. \A n \in 1 .. e : steps[n] = TextAt(topics, n)
  BY DEF TextAt
<1>11. \A n \in 1 .. 4 * count : numbered[n] = <<"numbered", topics[1].topic, n>>
  OBVIOUS
<1>. HIDE DEF steps, pads, numbered, e, d, T, topics, Pad
<1>12. /\ DOMAIN tried = 1 .. e + d + 4 * count
       /\ \A n \in 1 .. e : tried[n] = steps[n]
       /\ \A n \in 1 .. d : tried[e + n] = pads[n]
       /\ \A n \in 1 .. 4 * count : tried[e + d + n] = numbered[n]
  <2>1. tried = steps \o pads \o numbered
    OBVIOUS
  <2>. HIDE DEF tried
  <2>2. /\ DOMAIN tried = 1 .. Len(steps) + Len(pads) + Len(numbered)
        /\ \A n \in 1 .. Len(steps) : tried[n] = steps[n]
        /\ \A n \in 1 .. Len(pads) : tried[Len(steps) + n] = pads[n]
        /\ \A n \in 1 .. Len(numbered) : tried[Len(steps) + Len(pads) + n] = numbered[n]
    <3>1. steps \in Seq(T) /\ pads \in Seq(T) /\ numbered \in Seq(T)
      BY <1>7, <1>8, <1>9
    <3>2. tried = (steps \o pads) \o numbered
      BY <2>1
    <3>3. DOMAIN tried = 1 .. Len(steps) + Len(pads) + Len(numbered)
      BY <3>1, <3>2
    <3>4. \A n \in 1 .. Len(steps) : tried[n] = steps[n]
      BY <3>1, <3>2
    <3>5. \A n \in 1 .. Len(pads) : tried[Len(steps) + n] = pads[n]
      BY <3>1, <3>2
    <3>6. \A n \in 1 .. Len(numbered) : tried[Len(steps) + Len(pads) + n] = numbered[n]
      BY <3>1, <3>2
    <3>. QED
      BY <3>3, <3>4, <3>5, <3>6
  <2>. QED
    BY <1>7, <1>8, <1>9, <2>2
<1>. DEFINE p == e + d
<1>13. p \in Nat /\ e <= p
  BY <1>3, <1>4
<1>14. \A n \in e + 1 .. p : n - e \in 1 .. d /\ n = e + (n - e)
  BY <1>3, <1>4
<1>15. \A n \in e + 1 .. p : tried[n] = pads[n - e]
  BY <1>12, <1>14
<1>. HIDE DEF tried, p
<1>16. TriedInParts(tried, topics, count, e, p)
  <2>1. \A n \in e + 1 .. p :
          \E i \in DOMAIN topics, k \in Nat : tried[n] = <<"padder", topics[i].topic, k>>
    BY <1>6, <1>14, <1>15
  <2>. QED
    BY <1>3, <1>10, <1>11, <1>12, <1>13, <2>1 DEF TriedInParts, p
<1>. QED
  BY <1>1, <1>3, <1>13, <1>16 DEF topics

\* The k-th of some numbers, as the places of a plan use it
LEMMA PlacesOf ==
  ASSUME NEW z \in Nat, NEW S, S \subseteq 1 .. z
  PROVE  /\ IsFiniteSet(S) /\ Cardinality(S) \in Nat /\ S \subseteq Int
         /\ \A k \in 1 .. Cardinality(S) : Nth(S, k) \in S /\ Standing(S, Nth(S, k)) = k
<1>1. S \subseteq 0 .. z /\ S \in SUBSET (1 .. z) /\ S \subseteq Int
  OBVIOUS
<1>2. IsFiniteSet(1 .. z)
  BY FS_Interval
<1>3. IsFiniteSet(S)
  BY <1>1, <1>2, FS_Subset
<1>4. Cardinality(S) \in Nat
  BY <1>3, FS_CardinalityType
<1>5. \A k \in 1 .. Cardinality(S) : Nth(S, k) \in S /\ Standing(S, Nth(S, k)) = k
  BY <1>1, NthPlaced
<1>. QED
  BY <1>1, <1>3, <1>4, <1>5

\* The topics of a pool do not name the brand, the neutral one may.
LEMMA LeakIsPhrase ==
  ASSUME NEW profile, \A i \in DOMAIN Topics(profile) : Topics(profile)[i].names = FALSE, NEW text
  PROVE  Leaks(profile, text) <=> \/ text \in profile.named
                                  \/ Phrases(text) \cap profile.leaky # {}
  BY Zenon DEF Leaks

LEMMA NamelessNeverLeaks ==
  ASSUME NEW profile, \A i \in DOMAIN Topics(profile) : Topics(profile)[i].names = FALSE,
         Nameless(profile), NEW text
  PROVE  ~Leaks(profile, text)
<1>1. profile.leaky = {} /\ profile.named = {}
  BY DEF Nameless
<1>2. Phrases(text) \cap profile.leaky = {}
  BY <1>1
<1>. QED
  BY <1>1, <1>2, LeakIsPhrase

LEMMA PhraseOfNumber ==
  ASSUME NEW text, text[1] = "numbered"
  PROVE  Phrases(text) = {}
<1>1. text[1] # "alternatives" /\ text[1] \notin {"makers", "best-of"} /\ text[1] # "comparison"
  OBVIOUS
<1>. QED
  BY <1>1, Zenon DEF Phrases

LEMMA TopicOfTried ==
  ASSUME NEW topics, IsPool(topics), NEW tried, NEW count \in Nat, NEW e, NEW p,
         TriedInParts(tried, topics, count, e, p), NEW n \in DOMAIN tried
  PROVE  \E i \in DOMAIN topics : tried[n][2] = topics[i].topic
<1>0. /\ e \in Nat /\ p \in Nat /\ e <= p /\ n \in 1 .. p + 4 * count
      /\ Len(topics) \in Nat \ {0} /\ DOMAIN topics = 1 .. Len(topics)
  BY DEF TriedInParts, IsPool
<1>1. CASE n <= e
  <2>. DEFINE s == n - 1
              x == s + (s \div Lap)
              i == (x % Len(topics)) + 1
  <2>1. s \in Nat /\ n \in 1 .. e
    BY <1>0, <1>1
  <2>2. tried[n] = StepText(topics, s)
    BY <2>1 DEF TriedInParts, TextAt
  <2>3. tried[n][2] = topics[i].topic
    <3>. HIDE DEF s
    <3>. QED
      BY <2>2 DEF StepText
  <2>4. x \in Nat
    <3>. HIDE DEF s
    <3>. QED
      BY <2>1, CategoryTurns
  <2>5. i \in 1 .. Len(topics)
    <3>. HIDE DEF x
    <3>1. x % Len(topics) \in 0 .. Len(topics) - 1
      BY <1>0, <2>4, Division
    <3>. QED
      BY <1>0, <3>1
  <2>. HIDE DEF i
  <2>. QED
    BY <1>0, <2>3, <2>5
<1>2. CASE n > e /\ n <= p
  <2>1. n \in e + 1 .. p
    BY <1>0, <1>2
  <2>2. PICK i \in DOMAIN topics, k \in Nat : tried[n] = <<"padder", topics[i].topic, k>>
    BY <2>1 DEF TriedInParts
  <2>. QED
    BY <2>2
<1>3. CASE n > p
  <2>. DEFINE m == n - p
  <2>1. m \in 1 .. 4 * count /\ n = p + m
    BY <1>0, <1>3
  <2>. HIDE DEF m
  <2>2. tried[n] = <<"numbered", topics[1].topic, m>>
    BY <2>1 DEF TriedInParts
  <2>3. 1 \in DOMAIN topics
    BY <1>0
  <2>. QED
    BY <2>2, <2>3
<1>. QED
  BY <1>0, <1>1, <1>2, <1>3

LEMMA FreshPlaces ==
  ASSUME NEW profile, IsProfile(profile), NEW count \in Nat,
         NEW tried, tried = Tried(profile, count), NEW S, S = Fresh(profile, tried)
  PROVE  \E z \in Nat : DOMAIN tried = 1 .. z /\ S \subseteq 1 .. z
<1>1. PICK e, p \in Nat : TriedInParts(tried, Topics(profile), count, e, p)
  BY TriedParts
<1>2. DOMAIN tried = 1 .. p + 4 * count /\ p + 4 * count \in Nat
  BY <1>1 DEF TriedInParts
<1>3. S \subseteq DOMAIN tried
  BY Zenon DEF Fresh
<1>. QED
  BY <1>2, <1>3

\* The questions of a plan: different texts, each the next that is fresh
LEMMA TextsPlaced ==
  ASSUME NEW profile, IsProfile(profile), NEW count \in Nat,
         NEW tried, tried = Tried(profile, count), NEW S, S = Fresh(profile, tried),
         NEW texts, texts = Texts(profile, count)
  PROVE  /\ Cardinality(S) \in Nat
         /\ DOMAIN texts = 1 .. (IF count <= Cardinality(S) THEN count ELSE Cardinality(S))
         /\ \A k \in DOMAIN texts :
              /\ Nth(S, k) \in S /\ Standing(S, Nth(S, k)) = k
              /\ texts[k] = tried[Nth(S, k)]
         /\ \A k, l \in DOMAIN texts : texts[k] = texts[l] => k = l
<1>1. PICK z \in Nat : DOMAIN tried = 1 .. z /\ S \subseteq 1 .. z
  BY FreshPlaces
<1>2. /\ Cardinality(S) \in Nat
      /\ \A k \in 1 .. Cardinality(S) : Nth(S, k) \in S /\ Standing(S, Nth(S, k)) = k
  BY <1>1, PlacesOf
<1>. DEFINE d == Min({count, Cardinality(S)})
<1>3. d = IF count <= Cardinality(S) THEN count ELSE Cardinality(S)
  BY <1>2, Smaller
<1>4. texts = [k \in 1 .. d |-> tried[Nth(S, k)]]
  BY DEF Texts
<1>. HIDE DEF d
<1>5. DOMAIN texts = 1 .. d /\ 1 .. d \subseteq 1 .. Cardinality(S)
  BY <1>2, <1>3, <1>4
<1>6. \A k \in DOMAIN texts : /\ Nth(S, k) \in S /\ Standing(S, Nth(S, k)) = k
                              /\ texts[k] = tried[Nth(S, k)]
  BY <1>2, <1>4, <1>5
<1>7. ASSUME NEW k \in DOMAIN texts, NEW l \in DOMAIN texts, texts[k] = texts[l]
      PROVE  k = l
  <2>. DEFINE m == Nth(S, k)
              n == Nth(S, l)
  <2>1. m \in S /\ n \in S /\ Standing(S, m) = k /\ Standing(S, n) = l /\ tried[m] = tried[n]
    BY <1>6, <1>7
  <2>. HIDE DEF m, n
  <2>2. (\A i \in 1 .. m - 1 : tried[i] # tried[m]) /\ (\A i \in 1 .. n - 1 : tried[i] # tried[n])
    BY <2>1, Zenon DEF Fresh
  <2>3. m \in 1 .. z /\ n \in 1 .. z
    BY <1>1, <2>1
  <2>4. ~(m < n) /\ ~(n < m)
    BY <2>1, <2>2, <2>3
  <2>5. m = n
    BY <2>3, <2>4
  <2>. QED
    BY <2>1, <2>5
<1>. QED
  BY <1>2, <1>3, <1>5, <1>6, <1>7

\* The numbered texts alone make a plan, unless they or their topic name the brand.
Unnamed(profile, count) ==
  \A n \in 1 .. 4 * count : <<"numbered", Topics(profile)[1].topic, n>> \notin profile.named

LEMMA EnoughTexts ==
  ASSUME NEW profile, IsProfile(profile), NEW count \in Nat,
         \A i \in DOMAIN Topics(profile) : Topics(profile)[i].names = FALSE,
         Unnamed(profile, count), NEW texts, texts = Texts(profile, count)
  PROVE  DOMAIN texts = 1 .. count
<1>. DEFINE tried == Tried(profile, count)
            topics == Topics(profile)
            S == Fresh(profile, tried)
<1>1. PICK e, p \in Nat : TriedInParts(tried, topics, count, e, p)
  BY TriedParts
<1>2. IsPool(topics)
  BY PoolOfProfile
<1>. HIDE DEF tried, topics
<1>3. e <= p /\ DOMAIN tried = 1 .. p + 4 * count
  BY <1>1 DEF TriedInParts
<1>4. ASSUME NEW m \in 1 .. p PROVE tried[m][1] # "numbered"
  <2>1. CASE m <= e
    <3>1. m \in 1 .. e
      BY <1>3, <2>1
    <3>2. tried[m] = StepText(topics, m - 1)
      BY <1>1, <3>1 DEF TriedInParts, TextAt
    <3>3. tried[m][1] = CATEGORIES[((m - 1) % Lap) + 1]
      BY <3>2 DEF StepText
    <3>4. ((m - 1) % 6) + 1 \in 1 .. 6
      BY <3>1
    <3>. QED
      BY <3>3, <3>4, CategoryTurns, CategoriesApart
  <2>2. CASE m > e
    <3>1. m \in e + 1 .. p
      BY <1>3, <2>2
    <3>2. PICK i \in DOMAIN topics, k \in Nat : tried[m] = <<"padder", topics[i].topic, k>>
      BY <1>1, <3>1 DEF TriedInParts
    <3>. QED
      BY <3>2
  <2>. QED
    BY <1>3, <2>1, <2>2
<1>5. ASSUME NEW n \in 1 .. 4 * count PROVE p + n \in S
  <2>1. tried[p + n] = <<"numbered", topics[1].topic, n>>
    BY <1>1 DEF TriedInParts
  <2>2. ~Leaks(profile, tried[p + n])
    <3>1. Phrases(tried[p + n]) \cap profile.leaky = {}
      <4>1. Phrases(tried[p + n]) = {}
        BY <2>1, PhraseOfNumber
      <4>. QED
        BY <4>1
    <3>2. tried[p + n] \notin profile.named
      BY <2>1 DEF Unnamed, topics
    <3>. QED
      BY <3>1, <3>2, LeakIsPhrase
  <2>3. ASSUME NEW m \in 1 .. p + n - 1 PROVE tried[m] # tried[p + n]
    <3>1. CASE m <= p
      <4>1. m \in 1 .. p
        BY <3>1
      <4>. QED
        BY <1>4, <2>1, <4>1
    <3>2. CASE m > p
      <4>. DEFINE l == m - p
      <4>1. l \in 1 .. 4 * count /\ m = p + l /\ l # n
        BY <3>2
      <4>. HIDE DEF l
      <4>2. tried[m] = <<"numbered", topics[1].topic, l>>
        BY <1>1, <4>1 DEF TriedInParts
      <4>. QED
        BY <2>1, <4>1, <4>2
    <3>. QED
      BY <3>1, <3>2
  <2>4. p + n \in DOMAIN tried
    BY <1>3
  <2>. QED
    BY <2>2, <2>3, <2>4 DEF Fresh
<1>6. count <= Cardinality(S)
  <2>. DEFINE T == (p + 1) .. (p + 4 * count)
  <2>1. T \subseteq S
    <3>1. \A m \in T : m - p \in 1 .. 4 * count /\ m = p + (m - p)
      BY <1>3
    <3>. HIDE DEF T, S
    <3>. QED
      BY <1>5, <3>1
  <2>2. IsFiniteSet(S)
    <3>1. PICK z \in Nat : S \subseteq 1 .. z
      BY FreshPlaces DEF tried
    <3>. HIDE DEF S
    <3>. QED
      BY <3>1, PlacesOf
  <2>3. Cardinality(T) = 4 * count
    <3>1. p + 1 \in Int /\ p + 4 * count \in Int
      BY <1>3
    <3>2. Cardinality(T) = IF p + 1 > p + 4 * count THEN 0 ELSE p + 4 * count - (p + 1) + 1
      BY <3>1, FS_Interval
    <3>. QED
      BY <3>1, <3>2
  <2>. HIDE DEF T, S
  <2>4. Cardinality(T) <= Cardinality(S) /\ Cardinality(S) \in Nat
    BY <2>1, <2>2, Sizes
  <2>. QED
    BY <2>3, <2>4
<1>7. /\ Cardinality(S) \in Nat
      /\ DOMAIN texts = 1 .. (IF count <= Cardinality(S) THEN count ELSE Cardinality(S))
  BY TextsPlaced DEF tried
<1>. HIDE DEF S
<1>. QED
  BY <1>6, <1>7

\* If it does, there is no question.
LEMMA NoTexts ==
  ASSUME NEW profile, IsProfile(profile), NEW count \in Nat,
         Len(Topics(profile)) = 1, Topics(profile)[1].names = TRUE,
         NEW texts, texts = Texts(profile, count)
  PROVE  DOMAIN texts = {}
<1>. DEFINE tried == Tried(profile, count)
            topics == Topics(profile)
            S == Fresh(profile, tried)
<1>1. PICK e, p \in Nat : TriedInParts(tried, topics, count, e, p)
  BY TriedParts
<1>2. IsPool(topics)
  BY PoolOfProfile
<1>3. DOMAIN topics = 1 .. 1
  BY <1>2 DEF IsPool
<1>4. ASSUME NEW n \in DOMAIN tried PROVE Leaks(profile, tried[n])
  <2>1. PICK i \in DOMAIN topics : tried[n][2] = topics[i].topic
    <3>. HIDE DEF tried, topics
    <3>. QED
      BY <1>1, <1>2, TopicOfTried
  <2>2. i = 1
    BY <1>3
  <2>3. topics[i].topic = tried[n][2] /\ topics[i].names
    BY <2>1, <2>2
  <2>. QED
    BY <2>3, Zenon DEF Leaks
<1>5. S = {}
  <2>. HIDE DEF tried
  <2>. QED
    BY <1>4, Zenon DEF Fresh
<1>6. Cardinality(S) = 0
  BY <1>5, FS_EmptySet
<1>7. DOMAIN texts = 1 .. (IF count <= Cardinality(S) THEN count ELSE Cardinality(S))
  BY TextsPlaced
<1>. HIDE DEF S
<1>. QED
  BY <1>6, <1>7

LEMMA PlaceOfStep ==
  ASSUME NEW a \in Nat, NEW b \in 0 .. 5
  PROVE  PlaceAt(a, b) \in Nat \ {0}
  BY DEF PlaceAt

LEMMA PlaceOfLap ==
  ASSUME NEW a \in Nat, NEW c \in Nat, NEW b \in 0 .. 5
  PROVE  c < a <=> PlaceAt(c, b) < PlaceAt(a, b)
  BY DEF PlaceAt

LEMMA StepOfPlace ==
  ASSUME NEW n \in Nat \ {0}
  PROVE  \E a \in Nat, b \in 0 .. 5 : n = PlaceAt(a, b)
<1>. DEFINE a == (n - 1) \div 6
            b == (n - 1) % 6
<1>1. a \in Nat /\ b \in 0 .. 5 /\ n = 6 * a + b + 1
  OBVIOUS
<1>. HIDE DEF a, b
<1>. QED
  BY <1>1 DEF PlaceAt

\* A step of lap a is fresh when no lap before asked the same.
FreshLaps(S, t, e) ==
  \A a \in Nat, b \in 0 .. 5 :
     PlaceAt(a, b) <= e => (PlaceAt(a, b) \in S <=> \A c \in Nat : c < a => ~SameLap(t, a, c))

LEMMA StepFresh ==
  ASSUME NEW profile, IsProfile(profile), NEW count \in Nat, Nameless(profile),
         NEW topics, topics = Topics(profile), \A i \in DOMAIN topics : topics[i].names = FALSE,
         NEW tried, tried = Tried(profile, count), NEW S, S = Fresh(profile, tried),
         NEW e, NEW p, TriedInParts(tried, topics, count, e, p)
  PROVE  FreshLaps(S, Len(topics), e)
<1>. SUFFICES ASSUME NEW a \in Nat, NEW b \in 0 .. 5, PlaceAt(a, b) <= e
              PROVE  PlaceAt(a, b) \in S <=> \A c \in Nat : c < a => ~SameLap(Len(topics), a, c)
  BY DEF FreshLaps
<1>. DEFINE n == PlaceAt(a, b)
<1>1. IsPool(topics)
  BY PoolOfProfile
<1>2. /\ e \in Nat /\ p \in Nat /\ e <= p /\ DOMAIN tried = 1 .. p + 4 * count
      /\ \A m \in 1 .. e : tried[m] = TextAt(topics, m)
  BY DEF TriedInParts
<1>0. n \in Nat \ {0}
  BY PlaceOfStep
<1>3. n \in 1 .. e /\ n \in DOMAIN tried
  <2>1. n <= e
    OBVIOUS
  <2>. HIDE DEF n
  <2>. QED
    BY <1>0, <1>2, <2>1
<1>4. ~Leaks(profile, tried[n])
  BY NamelessNeverLeaks
<1>5. ASSUME NEW c \in Nat, NEW d \in 0 .. 5, PlaceAt(c, d) <= e
      PROVE  tried[PlaceAt(c, d)] = tried[n] <=> (b = d /\ SameLap(Len(topics), a, c))
  <2>0. PlaceAt(c, d) \in Nat \ {0}
    BY PlaceOfStep
  <2>1. PlaceAt(c, d) \in 1 .. e
    BY <1>2, <1>5, <2>0
  <2>2. tried[PlaceAt(c, d)] = TextAt(topics, PlaceAt(c, d))
    BY <1>2, <2>1
  <2>3. tried[n] = TextAt(topics, PlaceAt(a, b))
    BY <1>2, <1>3
  <2>4. TextAt(topics, PlaceAt(a, b)) = TextAt(topics, PlaceAt(c, d))
          <=> (b = d /\ SameLap(Len(topics), a, c))
    BY <1>1, StepsSame
  <2>. QED
    BY <2>2, <2>3, <2>4
<1>. HIDE DEF n
<1>6. ASSUME n \in S, NEW c \in Nat, c < a PROVE ~SameLap(Len(topics), a, c)
  <2>1. \A m \in 1 .. n - 1 : tried[m] # tried[n]
    BY <1>6, Zenon DEF Fresh
  <2>2. PlaceAt(c, b) < n
    BY <1>6, PlaceOfLap DEF n
  <2>4. PlaceAt(c, b) \in Nat \ {0}
    BY PlaceOfStep
  <2>5. PlaceAt(c, b) \in 1 .. n - 1 /\ PlaceAt(c, b) <= e
    BY <1>2, <1>3, <2>2, <2>4
  <2>3. tried[PlaceAt(c, b)] # tried[n]
    BY <2>1, <2>5
  <2>. QED
    BY <1>5, <2>3, <2>5
<1>7. ASSUME \A c \in Nat : c < a => ~SameLap(Len(topics), a, c) PROVE n \in S
  <2>1. ASSUME NEW m \in 1 .. n - 1 PROVE tried[m] # tried[n]
    <3>0. m \in Nat \ {0} /\ m < n /\ m <= e
      BY <1>0, <1>2, <1>3
    <3>1. PICK c \in Nat, d \in 0 .. 5 : m = PlaceAt(c, d)
      BY <3>0, StepOfPlace
    <3>2. PlaceAt(c, d) <= e /\ PlaceAt(c, d) < n
      BY <3>0, <3>1
    <3>3. d = b => c < a
      BY <3>2, PlaceOfLap DEF n
    <3>4. tried[PlaceAt(c, d)] = tried[n] <=> (b = d /\ SameLap(Len(topics), a, c))
      BY <1>5, <3>2
    <3>. QED
      BY <1>7, <3>1, <3>3, <3>4
  <2>. QED
    BY <1>3, <1>4, <2>1, Zenon DEF Fresh
<1>8. n \in S <=> \A c \in Nat : c < a => ~SameLap(Len(topics), a, c)
  BY <1>6, <1>7
<1>. QED
  BY <1>8 DEF n

\* Two places in the order of the categories are the same category's.
SameTurn(j, k) == (j - 1) % 6 = (k - 1) % 6

LEMMA FreshTurns ==
  ASSUME NEW profile, IsProfile(profile), NEW count \in Nat, Nameless(profile),
         NEW topics, topics = Topics(profile), \A i \in DOMAIN topics : topics[i].names = FALSE,
         NEW tried, tried = Tried(profile, count), NEW S, S = Fresh(profile, tried),
         NEW e, NEW p, TriedInParts(tried, topics, count, e, p),
         NEW n \in S, n <= e
  PROVE  SameTurn(Standing(S, n), n)
<1>0. FreshLaps(S, Len(topics), e)
  BY StepFresh
<1>1. PICK z \in Nat : S \subseteq 1 .. z
  BY FreshPlaces
<1>2. e \in Nat
  BY DEF TriedInParts
<1>3. ASSUME NEW a \in Nat, NEW b \in 0 .. 5, PlaceAt(a, b) <= e
      PROVE  PlaceAt(a, b) \in S <=> PlaceAt(a, 0) \in S
  <2>1. PlaceAt(a, b) \in S <=> \A c \in Nat : c < a => ~SameLap(Len(topics), a, c)
    BY <1>0, <1>3 DEF FreshLaps
  <2>2. PlaceAt(a, 0) <= e /\ 0 \in 0 .. 5
    BY <1>2, <1>3 DEF PlaceAt
  <2>3. PlaceAt(a, 0) \in S <=> \A c \in Nat : c < a => ~SameLap(Len(topics), a, c)
    BY <1>0, <2>2 DEF FreshLaps
  <2>. QED
    BY <2>1, <2>3
<1>4. \A a \in Nat : \A b \in 0 .. 5 :
         6 * a + b + 1 <= e => (6 * a + b + 1 \in S <=> 6 * a + 1 \in S)
  BY <1>3 DEF PlaceAt
<1>. QED
  BY <1>1, <1>2, <1>4, LapPlaces DEF SameTurn

\* When nothing leaks the categories take turns.
CategoryAt(k) == CATEGORIES[((k - 1) % 6) + 1]

LEMMA SpecTurns ==
  ASSUME NEW profile, IsProfile(profile), NEW count \in Nat, Nameless(profile),
         \A i \in DOMAIN Topics(profile) : Topics(profile)[i].names = FALSE,
         NEW specs, specs = QuestionSpecs(profile, count), NEW k \in DOMAIN specs
  PROVE  specs[k].category = CategoryAt(k)
<1>. SUFFICES specs[k].category = CATEGORIES[((k - 1) % 6) + 1]
  BY DEF CategoryAt
<1>. DEFINE topics == Topics(profile)
            tried == Tried(profile, count)
            S == Fresh(profile, tried)
            texts == Texts(profile, count)
<1>0. /\ topics = Topics(profile) /\ tried = Tried(profile, count) /\ S = Fresh(profile, tried)
      /\ texts = Texts(profile, count) /\ \A i \in DOMAIN topics : topics[i].names = FALSE
  OBVIOUS
<1>. HIDE DEF topics, tried, S, texts
<1>. USE <1>0
<1>. DEFINE n == Nth(S, k)
<1>1. PICK e, p \in Nat : TriedInParts(tried, topics, count, e, p)
  BY TriedParts
<1>2. /\ k \in DOMAIN texts
      /\ specs[k] = [text |-> texts[k],
                     category |-> IF texts[k][1] \in Range(CATEGORIES) THEN texts[k][1]
                                  ELSE CATEGORIES[((k - 1) % Lap) + 1]]
  BY DEF QuestionSpecs
<1>3. specs[k].category = IF texts[k][1] \in Range(CATEGORIES) THEN texts[k][1]
                          ELSE CATEGORIES[((k - 1) % 6) + 1]
  <2>. QED
    BY <1>2, CategoryTurns
<1>4. n \in S /\ Standing(S, n) = k /\ texts[k] = tried[n]
  BY <1>2, TextsPlaced
<1>5. /\ e <= p /\ DOMAIN tried = 1 .. p + 4 * count
      /\ \A m \in 1 .. e : tried[m] = StepText(topics, m - 1)
  BY <1>1 DEF TriedInParts, TextAt
<1>6. n \in 1 .. p + 4 * count
  <2>1. S \subseteq DOMAIN tried
    BY Zenon DEF Fresh
  <2>. HIDE DEF n
  <2>. QED
    BY <1>4, <1>5, <2>1
<1>7. CASE n <= e
  <2>1. (k - 1) % 6 = (n - 1) % 6
    <3>1. SameTurn(Standing(S, n), n)
      <4>. HIDE DEF n
      <4>. QED
        BY <1>1, <1>4, <1>7, FreshTurns
    <3>. QED
      BY <1>4, <3>1 DEF SameTurn
  <2>. HIDE DEF n
  <2>2. tried[n] = StepText(topics, n - 1)
    BY <1>5, <1>6, <1>7
  <2>3. texts[k][1] = CATEGORIES[((n - 1) % 6) + 1]
    BY <1>4, <2>2, CategoryTurns DEF StepText
  <2>. QED
    BY <1>3, <2>1, <2>3
<1>8. CASE n > e
  <2>. HIDE DEF n
  <2>1. tried[n][1] \in {"padder", "numbered"}
    <3>1. CASE n <= p
      <4>1. n \in e + 1 .. p
        BY <1>6, <1>8, <3>1
      <4>2. PICK i \in DOMAIN topics, l \in Nat : tried[n] = <<"padder", topics[i].topic, l>>
        BY <1>1, <4>1 DEF TriedInParts
      <4>. QED
        BY <4>2
    <3>2. CASE n > p
      <4>. DEFINE l == n - p
      <4>1. l \in 1 .. 4 * count /\ n = p + l
        BY <1>6, <3>2
      <4>. HIDE DEF l
      <4>2. tried[n] = <<"numbered", topics[1].topic, l>>
        BY <1>1, <4>1 DEF TriedInParts
      <4>. QED
        BY <4>2
    <3>. QED
      BY <1>6, <3>1, <3>2
  <2>2. "padder" \notin Range(CATEGORIES) /\ "numbered" \notin Range(CATEGORIES)
    BY CategoriesApart DEF Range
  <2>. QED
    BY <1>3, <1>4, <2>1, <2>2
<1>. HIDE DEF n
<1>. QED
  BY <1>6, <1>7, <1>8

LEMMA FirstNumbers ==
  ASSUME NEW b \in Nat
  PROVE  IsFiniteSet(0 .. b - 1) /\ Cardinality(0 .. b - 1) = b
<1>1. CASE b = 0
  <2>1. 0 .. b - 1 = {}
    BY <1>1
  <2>. QED
    BY <1>1, <2>1, FS_EmptySet
<1>2. CASE b # 0
  <2>1. PICK n \in Nat : b = n + 1
    <3>1. b - 1 \in Nat /\ b = (b - 1) + 1
      BY <1>2
    <3>. QED
      BY <3>1
  <2>2. IsFiniteSet(0 .. n) /\ Cardinality(0 .. n) = n + 1
    BY FS_Interval
  <2>3. 0 .. b - 1 = 0 .. n
    BY <2>1
  <2>. QED
    BY <2>1, <2>2, <2>3
<1>. QED
  BY <1>1, <1>2

\* Probes are at most a quarter of the plan, inside it, and apart.
LEMMA ProbesSpread ==
  ASSUME NEW b \in Nat, NEW count \in Nat, 4 * b <= count, NEW P, P = BrandPositions(b, count)
  PROVE  /\ P \subseteq 0 .. count - 1 /\ IsFiniteSet(P) /\ Cardinality(P) \in Nat
         /\ 4 * Cardinality(P) <= count
         /\ \A p \in P : p # 0 /\ p - 1 \notin P
<1>. DEFINE m == b + 1
            Multiple(i) == (i + 1) * count
            f == [i \in 0 .. b - 1 |-> Multiple(i) \div m]
<1>1. \A p : p \in P <=> \E i \in 0 .. b - 1 : p = f[i]
  BY DEF BrandPositions
<1>2. m \in Nat \ {0} /\ (b > 0 => 2 * m <= count)
  OBVIOUS
<1>3. ASSUME NEW i \in 0 .. b - 1
      PROVE  /\ Multiple(i) \in Nat /\ f[i] = Multiple(i) \div m
             /\ 0 + count <= Multiple(i) /\ Multiple(i) + count <= m * count
             /\ \A j \in 0 .. b - 1 : i < j => Multiple(i) + count <= Multiple(j)
  <2>1. Multiple(i) \in Nat
    OBVIOUS
  <2>2. f[i] = Multiple(i) \div m
    OBVIOUS
  <2>3. \A x, y \in Nat : x <= y => x * count <= y * count
    OBVIOUS
  <2>4. \A x \in Nat : x * count + count = (x + 1) * count
    OBVIOUS
  <2>5. 0 + count <= Multiple(i)
    <3>1. 1 \in Nat /\ i + 1 \in Nat /\ 1 <= i + 1
      OBVIOUS
    <3>2. 1 * count <= (i + 1) * count
      BY <2>3, <3>1
    <3>. QED
      BY <3>2
  <2>6. Multiple(i) + count = (i + 1 + 1) * count
    BY <2>4
  <2>7. (i + 1 + 1) * count <= m * count
    <3>1. i + 1 + 1 \in Nat /\ m \in Nat /\ i + 1 + 1 <= m
      OBVIOUS
    <3>. QED
      BY <2>3, <3>1
  <2>8. ASSUME NEW j \in 0 .. b - 1, i < j PROVE Multiple(i) + count <= Multiple(j)
    <3>1. i + 1 + 1 \in Nat /\ j + 1 \in Nat /\ i + 1 + 1 <= j + 1
      BY <2>8
    <3>2. (i + 1 + 1) * count <= (j + 1) * count
      BY <2>3, <3>1
    <3>. QED
      BY <2>6, <3>2
  <2>. HIDE DEF Multiple, f, m
  <2>. QED
    BY <2>1, <2>2, <2>5, <2>6, <2>7, <2>8
<1>4. m * count \in Nat /\ (m * count) \div m = count
  <2>1. m * count \in Nat /\ m * count = m * count + 0 /\ 0 \in 0 .. m - 1
    OBVIOUS
  <2>. HIDE DEF m
  <2>. DEFINE x == m * count
  <2>2. x \in Nat /\ x = m * count + 0 /\ 0 \in 0 .. m - 1
    BY <2>1
  <2>. HIDE DEF x
  <2>3. x \div m = count
    BY <1>2, <2>2, Quotient
  <2>. QED
    BY <2>2, <2>3 DEF x
<1>. HIDE DEF m, Multiple, f
<1>5. ASSUME NEW i \in 0 .. b - 1
      PROVE  f[i] \in Nat /\ 2 <= f[i] /\ f[i] + 2 <= count
  <2>1. 2 * m <= count
    BY <1>2
  <2>2. (0 \div m) + 2 <= Multiple(i) \div m /\ Multiple(i) \div m \in Nat
    BY <1>2, <1>3, <2>1, SpreadApart
  <2>3. 0 \div m = 0
    BY <1>2
  <2>. DEFINE all == m * count
  <2>4. all \in Nat /\ all \div m = count /\ Multiple(i) + count <= all
    BY <1>3, <1>4
  <2>. HIDE DEF all
  <2>5. (Multiple(i) \div m) + 2 <= all \div m
    BY <1>2, <1>3, <2>1, <2>4, SpreadApart
  <2>. QED
    BY <1>3, <2>2, <2>3, <2>4, <2>5
<1>6. ASSUME NEW i \in 0 .. b - 1, NEW j \in 0 .. b - 1, i < j PROVE f[i] + 2 <= f[j]
  <2>1. 2 * m <= count
    BY <1>2
  <2>2. (Multiple(i) \div m) + 2 <= Multiple(j) \div m
    BY <1>2, <1>3, <1>6, <2>1, SpreadApart
  <2>. QED
    BY <1>3, <2>2
<1>7. P \subseteq 0 .. count - 1
  BY <1>1, <1>5
<1>8. IsFiniteSet(P) /\ Cardinality(P) \in Nat /\ Cardinality(P) <= b
  <2>. DEFINE g == [i \in 0 .. b - 1 |-> f[i]]
  <2>1. g \in Surjection(0 .. b - 1, P)
    BY <1>1 DEF Surjection
  <2>. HIDE DEF g
  <2>2. IsFiniteSet(0 .. b - 1) /\ Cardinality(0 .. b - 1) = b
    BY FirstNumbers
  <2>3. IsFiniteSet(P) /\ Cardinality(P) <= b
    BY <2>1, <2>2, FS_Surjection
  <2>. QED
    BY <2>3, FS_CardinalityType
<1>9. ASSUME NEW p \in P PROVE p # 0 /\ p - 1 \notin P
  <2>1. PICK i \in 0 .. b - 1 : p = f[i]
    BY <1>1
  <2>2. p \in Nat /\ 2 <= p
    BY <1>5, <2>1
  <2>3. ASSUME p - 1 \in P PROVE FALSE
    <3>1. PICK j \in 0 .. b - 1 : p - 1 = f[j]
      BY <1>1, <2>3
    <3>2. f[i] \in Nat /\ f[j] \in Nat /\ f[j] = f[i] - 1
      BY <1>5, <2>1, <3>1
    <3>3. ~(i < j)
      BY <1>6, <3>2
    <3>4. ~(j < i)
      BY <1>6, <3>2
    <3>5. i = j
      BY <3>3, <3>4
    <3>. QED
      BY <3>2, <3>5
  <2>. QED
    BY <2>2, <2>3
<1>. QED
  BY <1>7, <1>8, <1>9

\* The turn of a question is its place among the positions that are not a probe's.
LEMMA TurnIsPlace ==
  ASSUME NEW count \in Nat, NEW P, P \subseteq 0 .. count - 1, NEW N, N = (0 .. count - 1) \ P,
         NEW n \in N
  PROVE  /\ n - Cardinality({p \in P : p < n}) + 1 = Standing(N, n)
         /\ IsFiniteSet(N) /\ N \subseteq Int /\ N \subseteq 0 .. count /\ Cardinality(N) <= count
         /\ Cardinality(N) \in Nat /\ Standing(N, n) \in 1 .. Cardinality(N)
<1>. DEFINE z == count - 1
<1>1. z \in Nat /\ n \in 0 .. z /\ P \subseteq 0 .. z /\ N = (0 .. z) \ P /\ count = z + 1
  OBVIOUS
<1>. HIDE DEF z
<1>2. {p \in P : p < n} = {p \in P : p <= n}
  <2>1. \A p \in P : p < n <=> p <= n
    BY <1>1
  <2>. QED
    BY <2>1
<1>3. Standing(N, n) = n + 1 - Standing(P, n)
  <2>1. Standing((0 .. z) \ P, n) = n + 1 - Standing(P, n)
    BY ONLY <1>1, StandingOfOthers
  <2>. QED
    BY <1>1, <2>1
<1>4. IsFiniteSet(0 .. z) /\ Cardinality(0 .. z) = z + 1
  BY <1>1, FS_Interval
<1>5. P \in SUBSET (0 .. z) /\ N \in SUBSET (0 .. z) /\ N \subseteq Int
  BY <1>1
<1>6. IsFiniteSet(P) /\ IsFiniteSet(N) /\ Cardinality(N) <= z + 1
  <2>1. IsFiniteSet(P)
    BY <1>4, <1>5, FS_Subset
  <2>2. IsFiniteSet(N) /\ Cardinality(N) <= Cardinality(0 .. z)
    BY ONLY <1>4, <1>5, FS_Subset
  <2>. QED
    BY <1>4, <2>1, <2>2
<1>7. Cardinality(P) \in Nat /\ Cardinality(N) \in Nat
  BY <1>6, FS_CardinalityType
<1>8. Standing(P, n) \in 0 .. Cardinality(P)
  BY <1>6, StandingType
<1>9. Cardinality({p \in P : p < n}) = Standing(P, n)
  BY <1>2 DEF Standing
<1>10. n - Standing(P, n) + 1 = Standing(N, n)
  BY <1>1, <1>3, <1>7, <1>8
<1>11. Standing(N, n) \in 1 .. Cardinality(N)
  BY <1>5, <1>6, StandingOfMember
<1>12. N \subseteq 0 .. count
  BY <1>1
<1>. QED
  BY <1>1, <1>5, <1>6, <1>7, <1>9, <1>10, <1>11, <1>12

\* Probes at P, and between them the questions in turn, as long as there are some
Interleaved(plan, count, P, N, specs) ==
  /\ P \subseteq 0 .. count - 1 /\ IsFiniteSet(P) /\ Cardinality(P) \in Nat
  /\ 4 * Cardinality(P) <= count
  /\ \A p \in P : p # 0 /\ p - 1 \notin P
  /\ N = (0 .. count - 1) \ P
  /\ DOMAIN plan = 1 .. Len(plan) /\ Len(plan) \in 0 .. count
  /\ DOMAIN specs = 1 .. count => Len(plan) = count
  /\ \A n \in DOMAIN plan : n - 1 \in P =>
        /\ plan[n].category = BRAND_PROBE
        /\ plan[n].text = <<BRAND_PROBE, Standing(P, n - 2) + 1, 0>>
  /\ \A n \in DOMAIN plan : n - 1 \notin P =>
        /\ n - 1 \in N /\ Standing(N, n - 1) \in DOMAIN specs
        /\ plan[n] = specs[Standing(N, n - 1)]

LEMMA BudgetFits ==
  ASSUME NEW profile, IsProfile(profile), NEW count \in Nat,
         NEW b, b = Min({profile.products, count \div 4})
  PROVE  b \in Nat /\ 4 * b <= count
<1>. DEFINE q == count \div 4
            m == profile.products
<1>1. q \in Nat /\ 4 * q <= count /\ m \in Nat
  BY DEF IsProfile
<1>. HIDE DEF q, m
<1>2. b = IF m <= q THEN m ELSE q
  <2>1. b = Min({m, q})
    BY DEF m, q
  <2>. QED
    BY <1>1, <2>1, Smaller
<1>. QED
  BY <1>1, <1>2

LEMMA SpecsOfTexts ==
  ASSUME NEW profile, NEW count
  PROVE  /\ DOMAIN QuestionSpecs(profile, count) = DOMAIN Texts(profile, count)
         /\ \A k \in DOMAIN Texts(profile, count) :
               QuestionSpecs(profile, count)[k].text = Texts(profile, count)[k]
  BY DEF QuestionSpecs

LEMMA PlanPlaced ==
  ASSUME NEW profile, IsProfile(profile), NEW count \in Nat,
         NEW plan, plan = GeneratePrompts(profile, count)
  PROVE  \E P, N : Interleaved(plan, count, P, N, QuestionSpecs(profile, count))
<1>. DEFINE budget == Min({profile.products, count \div 4})
            P == BrandPositions(budget, count)
            N == (0 .. count - 1) \ P
            questions == QuestionSpecs(profile, count)
            Before(pos) == Cardinality({p \in P : p < pos})
            Turn(pos) == pos - Before(pos) + 1
            missing == {pos \in N : Turn(pos) \notin DOMAIN questions}
            length == IF missing = {} THEN count ELSE Min(missing)
            probe(n) == [text |-> <<BRAND_PROBE, Before(n - 1) + 1, 0>>, category |-> BRAND_PROBE]
<1>1. plan = [n \in 1 .. length |-> IF n - 1 \in P THEN probe(n) ELSE questions[Turn(n - 1)]]
  BY DEF GeneratePrompts
<1>2. budget \in Nat /\ 4 * budget <= count
  BY BudgetFits
<1>3. /\ P \subseteq 0 .. count - 1 /\ IsFiniteSet(P) /\ Cardinality(P) \in Nat
      /\ 4 * Cardinality(P) <= count
      /\ \A p \in P : p # 0 /\ p - 1 \notin P
  <2>. HIDE DEF budget
  <2>. QED
    BY <1>2, ProbesSpread
<1>4. ASSUME NEW n \in N
      PROVE  /\ Turn(n) = Standing(N, n)
             /\ Cardinality(N) <= count /\ Cardinality(N) \in Nat /\ Standing(N, n) \in 1 .. Cardinality(N)
  <2>1. N = (0 .. count - 1) \ P
    OBVIOUS
  <2>. HIDE DEF N, P, questions
  <2>. QED
    BY <1>3, <2>1, TurnIsPlace
<1>5. length \in Nat /\ length <= count /\ \A pos \in missing : length <= pos
  <2>1. missing \subseteq Nat /\ \A pos \in missing : pos <= count
    OBVIOUS
  <2>. HIDE DEF missing
  <2>2. CASE missing = {}
    BY <2>2
  <2>3. CASE missing # {}
    <3>1. Min(missing) \in missing /\ \A pos \in missing : Min(missing) <= pos
      BY <2>1, <2>3, LeastPlaced
    <3>. QED
      BY <2>1, <2>3, <3>1
  <2>. QED
    BY <2>2, <2>3
<1>6. ASSUME DOMAIN questions = 1 .. count PROVE length = count
  <2>1. ASSUME NEW n \in N PROVE Turn(n) \in DOMAIN questions
    <3>. HIDE DEF N, P, questions, Turn
    <3>. QED
      BY <1>4, <1>6
  <2>2. missing = {}
    <3>. HIDE DEF N, P, questions, Turn
    <3>. QED
      BY <2>1
  <2>. QED
    BY <2>2
<1>7. DOMAIN plan = 1 .. length /\ Len(plan) = length
  <2>. HIDE DEF length, probe, Turn, P, questions
  <2>. QED
    BY <1>1, <1>5
<1>8. ASSUME NEW n \in DOMAIN plan
      PROVE  n \in 1 .. length /\ n - 1 \in 0 .. count - 1
  <2>. HIDE DEF length
  <2>. QED
    BY <1>5, <1>7
<1>9. ASSUME NEW n \in DOMAIN plan, n - 1 \in P
      PROVE  /\ plan[n].category = BRAND_PROBE
             /\ plan[n].text = <<BRAND_PROBE, Standing(P, n - 2) + 1, 0>>
  <2>1. plan[n] = probe(n)
    <3>. HIDE DEF probe, Turn, P, questions, length
    <3>. QED
      BY <1>1, <1>8, <1>9
  <2>2. Before(n - 1) = Standing(P, n - 2)
    <3>1. n \in Int
      <4>. HIDE DEF length
      <4>. QED
        BY <1>8
    <3>2. \A p \in P : p < n - 1 <=> p <= n - 2
      <4>. HIDE DEF P
      <4>1. \A p \in P : p \in Int
        BY <1>3
      <4>. QED
        BY <3>1, <4>1
    <3>3. {p \in P : p < n - 1} = {p \in P : p <= n - 2}
      BY <3>2
    <3>. HIDE DEF P
    <3>. QED
      BY <3>3 DEF Standing
  <2>3. probe(n).category = BRAND_PROBE /\ probe(n).text = <<BRAND_PROBE, Before(n - 1) + 1, 0>>
    <3>. HIDE DEF Before
    <3>. QED
      OBVIOUS
  <2>. HIDE DEF probe, Before, P
  <2>. QED
    BY <2>1, <2>2, <2>3
<1>10. ASSUME NEW n \in DOMAIN plan, n - 1 \notin P
       PROVE  /\ n - 1 \in N /\ Standing(N, n - 1) \in DOMAIN questions
              /\ plan[n] = questions[Standing(N, n - 1)]
  <2>1. n - 1 \in N
    <3>. HIDE DEF P
    <3>. QED
      BY <1>8, <1>10
  <2>2. n - 1 \notin missing
    <3>1. n - 1 < length /\ n - 1 \in Int
      <4>. HIDE DEF length
      <4>. QED
        BY <1>5, <1>8
    <3>. HIDE DEF length, missing
    <3>. QED
      BY <1>5, <3>1
  <2>3. Turn(n - 1) \in DOMAIN questions
    <3>. HIDE DEF Turn, N, questions
    <3>. QED
      BY <2>1, <2>2
  <2>4. Turn(n - 1) = Standing(N, n - 1)
    <3>. HIDE DEF Turn, N
    <3>. QED
      BY <1>4, <2>1
  <2>5. plan[n] = questions[Turn(n - 1)]
    <3>. HIDE DEF probe, Turn, P, questions, length
    <3>. QED
      BY <1>1, <1>8, <1>10
  <2>. HIDE DEF probe, Turn, P, questions, N, missing
  <2>. QED
    BY <2>1, <2>3, <2>4, <2>5
<1>11. N = (0 .. count - 1) \ P
  OBVIOUS
<1>. HIDE DEF P, N, questions, length
<1>12. length \in 0 .. count
  BY <1>5
<1>13. Interleaved(plan, count, P, N, questions)
  BY <1>3, <1>6, <1>7, <1>9, <1>10, <1>11, <1>12 DEF Interleaved
<1>. QED
  BY <1>13 DEF questions

LEMMA PlanEmpty ==
  ASSUME NEW profile, IsProfile(profile), NEW count \in Nat,
         Len(Topics(profile)) = 1, Topics(profile)[1].names = TRUE,
         NEW plan, plan = GeneratePrompts(profile, count)
  PROVE  DOMAIN plan = {} /\ Len(plan) = 0
<1>. DEFINE budget == Min({profile.products, count \div 4})
            P == BrandPositions(budget, count)
            N == (0 .. count - 1) \ P
            questions == QuestionSpecs(profile, count)
            Before(pos) == Cardinality({p \in P : p < pos})
            Turn(pos) == pos - Before(pos) + 1
            missing == {pos \in N : Turn(pos) \notin DOMAIN questions}
            length == IF missing = {} THEN count ELSE Min(missing)
            probe(n) == [text |-> <<BRAND_PROBE, Before(n - 1) + 1, 0>>, category |-> BRAND_PROBE]
<1>1. plan = [n \in 1 .. length |-> IF n - 1 \in P THEN probe(n) ELSE questions[Turn(n - 1)]]
  BY DEF GeneratePrompts
<1>2. budget \in Nat /\ 4 * budget <= count
  BY BudgetFits
<1>3. \A p \in P : p # 0
  <2>. HIDE DEF budget
  <2>. QED
    BY <1>2, ProbesSpread
<1>4. DOMAIN questions = {}
  <2>1. DOMAIN Texts(profile, count) = {}
    BY NoTexts
  <2>. QED
    BY <2>1, SpecsOfTexts
<1>5. missing = N
  <2>. HIDE DEF N, questions, Turn
  <2>. QED
    BY <1>4
<1>6. length = 0
  <2>1. CASE count = 0
    <3>1. N = {}
      BY <2>1
    <3>. QED
      BY <1>5, <2>1, <3>1
  <2>2. CASE count # 0
    <3>1. 0 \in N /\ N \subseteq Nat
      <4>. HIDE DEF P
      <4>. QED
        BY <1>3, <2>2
    <3>. HIDE DEF N
    <3>2. Min(N) \in N /\ Min(N) <= 0
      BY <3>1, LeastPlaced
    <3>3. Min(N) = 0
      <4>. DEFINE m == Min(N)
      <4>1. m \in N /\ m <= 0
        BY <3>2
      <4>. HIDE DEF m
      <4>2. m = 0
        BY <3>1, <4>1
      <4>. QED
        BY <4>2 DEF m
    <3>. QED
      BY <1>5, <3>1, <3>3
  <2>. QED
    BY <2>1, <2>2
<1>. HIDE DEF probe, Turn, P, questions, length
<1>7. 1 .. length = {}
  BY <1>6
<1>. QED
  BY <1>1, <1>6, <1>7

\* No wording is the probe's.
LEMMA TextIsNoProbe ==
  ASSUME NEW profile, IsProfile(profile), NEW count \in Nat,
         NEW texts, texts = Texts(profile, count), NEW k \in DOMAIN texts
  PROVE  texts[k][1] # BRAND_PROBE
<1>. DEFINE tried == Tried(profile, count)
            S == Fresh(profile, tried)
            topics == Topics(profile)
            n == Nth(S, k)
<1>1. n \in S /\ texts[k] = tried[n]
  BY TextsPlaced
<1>2. PICK e, p \in Nat : TriedInParts(tried, topics, count, e, p)
  BY TriedParts
<1>3. PICK z \in Nat : DOMAIN tried = 1 .. z /\ S \subseteq 1 .. z
  BY FreshPlaces
<1>. HIDE DEF tried, S, topics, n
<1>4. /\ e <= p /\ DOMAIN tried = 1 .. p + 4 * count
      /\ \A m \in 1 .. e : tried[m] = TextAt(topics, m)
  BY <1>2 DEF TriedInParts
<1>5. n \in 1 .. p + 4 * count
  BY <1>1, <1>3, <1>4
<1>6. CASE n <= e
  <2>1. tried[n] = StepText(topics, n - 1)
    BY <1>4, <1>5, <1>6 DEF TextAt
  <2>2. tried[n][1] = CATEGORIES[((n - 1) % Lap) + 1]
    BY <2>1 DEF StepText
  <2>3. ((n - 1) % 6) + 1 \in 1 .. 6
    BY <1>5
  <2>. QED
    BY <1>1, <2>2, <2>3, CategoryTurns, CategoriesApart
<1>7. CASE n > e /\ n <= p
  <2>1. n \in e + 1 .. p
    BY <1>5, <1>7
  <2>2. PICK i \in DOMAIN topics, l \in Nat : tried[n] = <<"padder", topics[i].topic, l>>
    BY <1>2, <2>1 DEF TriedInParts
  <2>. QED
    BY <1>1, <2>2 DEF BRAND_PROBE
<1>8. CASE n > p
  <2>. DEFINE l == n - p
  <2>1. l \in 1 .. 4 * count /\ n = p + l
    BY <1>5, <1>8
  <2>. HIDE DEF l
  <2>2. tried[n] = <<"numbered", topics[1].topic, l>>
    BY <1>2, <2>1 DEF TriedInParts
  <2>. QED
    BY <1>1, <2>2 DEF BRAND_PROBE
<1>. QED
  BY <1>5, <1>6, <1>7, <1>8

LEMMA CategoryIsNoProbe == \A c \in Range(CATEGORIES) : c # BRAND_PROBE
  BY CategoriesApart DEF Range

\* Where a question of the plan comes from
LEMMA QuestionOfPlan ==
  ASSUME NEW profile, IsProfile(profile), NEW count \in Nat,
         NEW plan, NEW P, NEW N, NEW specs, specs = QuestionSpecs(profile, count),
         Interleaved(plan, count, P, N, specs), NEW texts, texts = Texts(profile, count),
         NEW n \in DOMAIN plan, n - 1 \notin P, NEW k, k = Standing(N, n - 1)
  PROVE  /\ n - 1 \in N /\ k \in DOMAIN texts /\ k \in DOMAIN specs /\ plan[n] = specs[k]
         /\ plan[n].text = texts[k]
         /\ plan[n].text[1] # BRAND_PROBE /\ plan[n].category # BRAND_PROBE
<1>1. n - 1 \in N /\ k \in DOMAIN specs /\ plan[n] = specs[k]
  BY Zenon DEF Interleaved
<1>2. k \in DOMAIN texts /\ plan[n].text = texts[k]
  BY <1>1, SpecsOfTexts
<1>3. k \in Int
  BY <1>1, SpecsNumbered
<1>4. plan[n].category \in Range(CATEGORIES)
  BY <1>1, <1>3, SpecsCategorized
<1>5. texts[k][1] # BRAND_PROBE
  BY <1>2, TextIsNoProbe
<1>. QED
  BY <1>1, <1>2, <1>4, <1>5, CategoryIsNoProbe

LEMMA OthersPlaced ==
  ASSUME NEW count \in Nat, NEW P, NEW N, NEW plan, NEW specs, Interleaved(plan, count, P, N, specs)
  PROVE  /\ N \subseteq Int /\ IsFiniteSet(N) /\ Cardinality(N) \in Nat /\ N \subseteq 0 .. count
         /\ P \subseteq Int /\ IsFiniteSet(P)
         /\ \A n \in 1 .. count : n - 1 \in P \/ n - 1 \in N
         /\ \A n \in N : n + 1 \in 1 .. count /\ (n + 1) - 1 = n /\ n \notin P
<1>1. N = (0 .. count - 1) \ P /\ P \subseteq 0 .. count - 1 /\ IsFiniteSet(P)
  BY DEF Interleaved
<1>2. N \in SUBSET (0 .. count - 1) /\ N \subseteq Int /\ N \subseteq 0 .. count /\ P \subseteq Int
  BY <1>1
<1>3. IsFiniteSet(0 .. count - 1)
  BY FirstNumbers
<1>4. IsFiniteSet(N)
  BY <1>2, <1>3, FS_Subset
<1>5. Cardinality(N) \in Nat
  BY <1>4, FS_CardinalityType
<1>6. \A n \in 1 .. count : n - 1 \in P \/ n - 1 \in N
  BY <1>1
<1>7. \A n \in N : n + 1 \in 1 .. count /\ (n + 1) - 1 = n /\ n \notin P
  BY <1>1
<1>. QED
  BY <1>1, <1>2, <1>4, <1>5, <1>6, <1>7

LEMMA PlanDistinct ==
  ASSUME NEW profile, IsProfile(profile), NEW count \in Nat,
         NEW plan, NEW P, NEW N, NEW specs, specs = QuestionSpecs(profile, count),
         Interleaved(plan, count, P, N, specs),
         NEW m \in DOMAIN plan, NEW n \in DOMAIN plan, plan[m].text = plan[n].text
  PROVE  m = n
<1>. DEFINE texts == Texts(profile, count)
<1>1. /\ N \subseteq Int /\ IsFiniteSet(N) /\ P \subseteq Int /\ IsFiniteSet(P)
  BY OthersPlaced
<1>0. DOMAIN plan \subseteq Int
  <2>1. DOMAIN plan = 1 .. Len(plan) /\ Len(plan) \in 0 .. count
    BY Zenon DEF Interleaved
  <2>. QED
    BY <2>1
<1>2. \A i \in DOMAIN plan : i - 1 \in P => plan[i].text = <<BRAND_PROBE, Standing(P, i - 2) + 1, 0>>
  BY Zenon DEF Interleaved
<1>3. ASSUME NEW i \in DOMAIN plan, i - 1 \notin P
      PROVE  /\ i - 1 \in N /\ Standing(N, i - 1) \in DOMAIN texts
             /\ plan[i].text = texts[Standing(N, i - 1)] /\ plan[i].text[1] # BRAND_PROBE
  BY <1>3, QuestionOfPlan
<1>4. CASE m - 1 \in P /\ n - 1 \in P
  <2>1. Standing(P, m - 2) + 1 = Standing(P, n - 2) + 1
    BY <1>2, <1>4
  <2>2. ASSUME NEW i \in DOMAIN plan, i - 1 \in P PROVE Standing(P, i - 1) = Standing(P, i - 2) + 1
    <3>. DEFINE j == i - 1
    <3>1. j \in P /\ j \in Int /\ j - 1 = i - 2
      BY <1>0, <2>2
    <3>. HIDE DEF j
    <3>2. Standing(P, j) = Standing(P, j - 1) + (IF j \in P THEN 1 ELSE 0)
      BY <1>1, <3>1, StandingNext
    <3>3. Standing(P, j) = Standing(P, j - 1) + 1
      BY <3>1, <3>2
    <3>. QED
      BY <3>1, <3>3 DEF j
  <2>3. Standing(P, m - 1) = Standing(P, n - 1)
    BY <1>0, <1>4, <2>1, <2>2
  <2>. DEFINE i == m - 1
              j == n - 1
  <2>4. i \in P /\ j \in P /\ Standing(P, i) = Standing(P, j)
    BY <1>4, <2>3
  <2>. HIDE DEF i, j
  <2>5. i = j
    BY <1>1, <2>4, StandingApart
  <2>. QED
    BY <1>0, <2>5 DEF i, j
<1>5. CASE m - 1 \notin P /\ n - 1 \notin P
  <2>. DEFINE i == m - 1
              j == n - 1
              k == Standing(N, i)
              l == Standing(N, j)
  <2>1. i \in N /\ j \in N /\ k \in DOMAIN texts /\ l \in DOMAIN texts /\ texts[k] = texts[l]
    BY <1>3, <1>5
  <2>2. k = l
    <3>. HIDE DEF k, l
    <3>. QED
      BY <2>1, TextsPlaced
  <2>. HIDE DEF i, j
  <2>3. i = j
    BY <1>1, <2>1, <2>2, StandingApart
  <2>. QED
    BY <1>0, <2>3 DEF i, j
<1>6. CASE m - 1 \in P /\ n - 1 \notin P
  <2>1. plan[m].text[1] = BRAND_PROBE
    BY <1>2, <1>6
  <2>. QED
    BY <1>3, <1>6, <2>1
<1>7. CASE m - 1 \notin P /\ n - 1 \in P
  <2>1. plan[n].text[1] = BRAND_PROBE
    BY <1>2, <1>7
  <2>. QED
    BY <1>3, <1>7, <2>1
<1>. QED
  BY <1>4, <1>5, <1>6, <1>7

\* Probes are neither first nor next to each other.
Scattered(probes) == \A n \in probes : n > 1 /\ n - 1 \notin probes

LEMMA ProbesOfPlan ==
  ASSUME NEW profile, IsProfile(profile), NEW count \in Nat,
         NEW plan, NEW P, NEW N, NEW specs, specs = QuestionSpecs(profile, count),
         Interleaved(plan, count, P, N, specs),
         NEW probes, probes = {n \in DOMAIN plan : plan[n].category = BRAND_PROBE}
  PROVE  4 * Cardinality(probes) <= count /\ Scattered(probes)
<1>. DEFINE z == Len(plan)
            Q == {p \in P : p < z}
<1>1. /\ DOMAIN plan = 1 .. z /\ z \in 0 .. count
      /\ \A p \in P : p # 0 /\ p - 1 \notin P
      /\ P \subseteq 0 .. count - 1 /\ IsFiniteSet(P)
      /\ Cardinality(P) \in Nat /\ 4 * Cardinality(P) <= count
  BY DEF Interleaved
<1>2. \A n \in DOMAIN plan : n - 1 \in P => plan[n].category = BRAND_PROBE
  BY Zenon DEF Interleaved
<1>3. ASSUME NEW n \in DOMAIN plan, n - 1 \notin P PROVE plan[n].category # BRAND_PROBE
  BY <1>3, QuestionOfPlan
<1>. HIDE DEF z
<1>4. \A n : n \in probes <=> (n \in 1 .. z /\ n - 1 \in P)
  BY <1>1, <1>2, <1>3
<1>5. probes \in SUBSET (1 .. z)
  BY <1>4
<1>6. IsFiniteSet(probes)
  <2>1. IsFiniteSet(1 .. z)
    BY <1>1, FS_Interval
  <2>. QED
    BY <1>5, <2>1, FS_Subset
<1>7. Cardinality(Q) = Cardinality(probes)
  <2>. DEFINE f == [n \in probes |-> n - 1]
  <2>1. \A n \in probes : f[n] \in Q
    BY <1>1, <1>4
  <2>2. \A m, n \in probes : f[m] = f[n] => m = n
    BY <1>5
  <2>3. \A p \in Q : \E n \in probes : p = f[n]
    <3>. SUFFICES ASSUME NEW p \in Q PROVE \E n \in probes : p = f[n]
      OBVIOUS
    <3>1. p + 1 \in probes /\ p = (p + 1) - 1
      BY <1>1, <1>4
    <3>. QED
      BY <3>1
  <2>. HIDE DEF f, Q
  <2>. QED
    BY <1>6, <2>1, <2>2, <2>3, SameCount
<1>8. Cardinality(Q) <= Cardinality(P) /\ Cardinality(Q) \in Nat
  <2>1. Q \subseteq P
    OBVIOUS
  <2>. HIDE DEF Q
  <2>. QED
    BY <1>1, <2>1, Sizes
<1>9. ASSUME NEW n \in probes PROVE n > 1 /\ n - 1 \notin probes
  <2>1. n \in 1 .. z /\ n - 1 \in P
    BY <1>4
  <2>2. n - 1 # 0 /\ n - 1 - 1 \notin P
    BY <1>1, <2>1
  <2>. QED
    BY <1>4, <2>1, <2>2
<1>10. 4 * Cardinality(probes) <= count
  <2>. HIDE DEF Q
  <2>. QED
    BY <1>1, <1>7, <1>8
<1>. QED
  BY <1>9, <1>10 DEF Scattered

ShareOf(plan, c) == Cardinality({n \in DOMAIN plan : plan[n].category = c})

LEMMA SharesFair ==
  ASSUME NEW profile, IsProfile(profile), NEW count \in Nat, Nameless(profile),
         \A i \in DOMAIN Topics(profile) : Topics(profile)[i].names = FALSE,
         NEW plan, NEW P, NEW N, NEW specs, specs = QuestionSpecs(profile, count),
         Interleaved(plan, count, P, N, specs),
         DOMAIN specs = 1 .. count,
         NEW c \in Range(CATEGORIES), NEW d \in Range(CATEGORIES)
  PROVE  ShareOf(plan, c) <= ShareOf(plan, d) + 1
<1>. DEFINE q == Cardinality(N)
            Places(i) == {k \in 1 .. q : (k - 1) % 6 = i}
            Of(x) == {n \in DOMAIN plan : plan[n].category = x}
<1>1. /\ N \subseteq Int /\ IsFiniteSet(N) /\ q \in Nat /\ N \subseteq 0 .. count
      /\ \A n \in 1 .. count : n - 1 \in P \/ n - 1 \in N
      /\ \A n \in N : n + 1 \in 1 .. count /\ (n + 1) - 1 = n /\ n \notin P
  BY OthersPlaced
<1>2. DOMAIN plan = 1 .. count
  BY DEF Interleaved
<1>3. ASSUME NEW n \in 1 .. count, n - 1 \notin P
      PROVE  /\ n - 1 \in N /\ Standing(N, n - 1) \in 1 .. q
             /\ plan[n].category = CATEGORIES[((Standing(N, n - 1) - 1) % 6) + 1]
  <2>. DEFINE k == Standing(N, n - 1)
  <2>0. n \in DOMAIN plan
    BY <1>2
  <2>1. n - 1 \in N /\ k \in DOMAIN specs /\ plan[n] = specs[k]
    BY <1>3, <2>0, QuestionOfPlan
  <2>2. k \in 1 .. q
    <3>. DEFINE j == n - 1
    <3>1. j \in N
      BY <2>1
    <3>. HIDE DEF j
    <3>2. Standing(N, j) \in 1 .. Cardinality(N)
      BY <1>1, <3>1, StandingOfMember
    <3>. QED
      BY <3>2 DEF j
  <2>. HIDE DEF k, q
  <2>3. specs[k].category = CATEGORIES[((k - 1) % 6) + 1]
    <3>1. specs[k].category = CategoryAt(k)
      BY <2>1, SpecTurns
    <3>. QED
      BY <3>1 DEF CategoryAt
  <2>. QED
    BY <2>1, <2>2, <2>3 DEF k
<1>4. ASSUME NEW n \in 1 .. count, n - 1 \in P PROVE plan[n].category = BRAND_PROBE
  BY <1>2, <1>4, Zenon DEF Interleaved
<1>5. ASSUME NEW i \in 0 .. 5
      PROVE  Cardinality(Of(CATEGORIES[i + 1])) = Cardinality(Places(i))
  <2>. DEFINE x == CATEGORIES[i + 1]
              S == Of(x)
              T == Places(i)
              f == [n \in S |-> Standing(N, n - 1)]
  <2>1. i + 1 \in 1 .. 6
    OBVIOUS
  <2>2. x # BRAND_PROBE
    BY <2>1, CategoriesApart
  <2>3. ASSUME NEW n \in S
        PROVE  /\ n \in 1 .. count /\ n - 1 \in N /\ f[n] = Standing(N, n - 1)
               /\ Standing(N, n - 1) \in T
    <3>1. n \in 1 .. count /\ plan[n].category = x /\ f[n] = Standing(N, n - 1)
      BY <1>2
    <3>2. n - 1 \notin P
      BY <1>4, <2>2, <3>1
    <3>. DEFINE k == Standing(N, n - 1)
    <3>3. n - 1 \in N /\ k \in 1 .. q /\ x = CATEGORIES[((k - 1) % 6) + 1]
      BY <1>3, <3>1, <3>2
    <3>. HIDE DEF k, q
    <3>4. (k - 1) % 6 \in 0 .. 5
      BY <3>3
    <3>5. (k - 1) % 6 = i
      <4>. DEFINE r == (k - 1) % 6
      <4>1. r + 1 \in 1 .. 6 /\ CATEGORIES[i + 1] = CATEGORIES[r + 1]
        BY <3>3, <3>4
      <4>. HIDE DEF r
      <4>2. i + 1 = r + 1
        BY <2>1, <4>1, CategoriesApart
      <4>3. i = r
        BY <3>4, <4>2 DEF r
      <4>. QED
        BY <4>3 DEF r
    <3>6. k \in T
      BY <3>3, <3>5
    <3>. HIDE DEF T, f, S
    <3>. QED
      BY <3>1, <3>3, <3>6 DEF k
  <2>4. \A n \in S : f[n] \in T
    <3>. HIDE DEF S, T, f
    <3>. QED
      BY <2>3
  <2>5. ASSUME NEW m \in S, NEW n \in S, f[m] = f[n] PROVE m = n
    <3>. DEFINE a == m - 1
                b == n - 1
    <3>1. a \in N /\ b \in N /\ Standing(N, a) = Standing(N, b) /\ m \in 1 .. count /\ n \in 1 .. count
      <4>. HIDE DEF S, T, f
      <4>. QED
        BY <2>3, <2>5
    <3>. HIDE DEF a, b, S, T, f
    <3>2. a = b
      BY <1>1, <3>1, StandingApart
    <3>. QED
      BY <3>1, <3>2 DEF a, b
  <2>6. ASSUME NEW k \in T PROVE \E n \in S : k = f[n]
    <3>1. k \in 1 .. q /\ (k - 1) % 6 = i
      OBVIOUS
    <3>2. PICK m \in N : Standing(N, m) = k
      <4>1. k \in 1 .. Cardinality(N)
        BY <3>1
      <4>2. N \subseteq 0 .. count
        BY <1>1
      <4>4. count \in Nat
        OBVIOUS
      <4>. HIDE DEF S, T, f, q
      <4>3. \E m \in N : Standing(N, m) = k
        BY ONLY <4>1, <4>2, <4>4, StandingTaken
      <4>. QED
        BY <4>3
    <3>. DEFINE n == m + 1
    <3>3. n \in 1 .. count /\ n - 1 = m /\ n - 1 \notin P
      BY <1>1
    <3>. HIDE DEF n
    <3>4. plan[n].category = x
      <4>. HIDE DEF S, T, f, q
      <4>1. plan[n].category = CATEGORIES[((Standing(N, n - 1) - 1) % 6) + 1]
        BY <1>3, <3>3
      <4>. QED
        BY <3>1, <3>2, <3>3, <4>1
    <3>5. n \in S
      BY <1>2, <3>3, <3>4
    <3>6. f[n] = k
      <4>1. f[n] = Standing(N, n - 1)
        BY <3>5
      <4>. QED
        BY <3>2, <3>3, <4>1
    <3>. QED
      BY <3>5, <3>6
  <2>7. IsFiniteSet(S)
    <3>1. IsFiniteSet(1 .. count)
      BY FS_Interval
    <3>2. S \in SUBSET (1 .. count)
      BY <1>2
    <3>. HIDE DEF S
    <3>. QED
      BY <3>1, <3>2, FS_Subset
  <2>. HIDE DEF S, T, f
  <2>8. Cardinality(T) = Cardinality(S)
    BY <2>4, <2>5, <2>6, <2>7, SameCount
  <2>. QED
    BY <2>8 DEF S, T, x
<1>6. PICK i \in 0 .. 5 : c = CATEGORIES[i + 1]
  <2>1. PICK j \in 1 .. 6 : c = CATEGORIES[j]
    BY CategoriesApart DEF Range
  <2>2. j - 1 \in 0 .. 5 /\ (j - 1) + 1 = j
    OBVIOUS
  <2>. QED
    BY <2>1, <2>2
<1>7. PICK l \in 0 .. 5 : d = CATEGORIES[l + 1]
  <2>1. PICK j \in 1 .. 6 : d = CATEGORIES[j]
    BY CategoriesApart DEF Range
  <2>2. j - 1 \in 0 .. 5 /\ (j - 1) + 1 = j
    OBVIOUS
  <2>. QED
    BY <2>1, <2>2
<1>8. Cardinality(Places(i)) <= Cardinality(Places(l)) + 1
  <2>. HIDE DEF q
  <2>. QED
    BY <1>1, FairTurns
<1>9. Cardinality(Of(c)) <= Cardinality(Of(d)) + 1
  <2>. HIDE DEF Of, Places
  <2>. QED
    BY <1>5, <1>6, <1>7, <1>8
<1>. QED
  BY <1>9 DEF ShareOf

LEMMA TopicsCounted ==
  ASSUME NEW topics, IsPool(topics), NEW T, T = {topics[i].topic : i \in DOMAIN topics}
  PROVE  Cardinality(T) = Len(topics)
<1>. DEFINE t == Len(topics)
            f == [i \in 1 .. t |-> topics[i].topic]
<1>1. /\ t \in Nat /\ DOMAIN topics = 1 .. t
      /\ \A i, j \in DOMAIN topics : topics[i].topic = topics[j].topic => i = j
  BY DEF IsPool
<1>2. IsFiniteSet(1 .. t) /\ Cardinality(1 .. t) = t
  <2>. HIDE DEF t
  <2>. QED
    BY <1>1, FS_Interval
<1>3. \A i \in 1 .. t : f[i] \in T
  BY <1>1
<1>4. \A i, j \in 1 .. t : f[i] = f[j] => i = j
  BY <1>1
<1>5. \A x \in T : \E i \in 1 .. t : x = f[i]
  BY <1>1
<1>. HIDE DEF f, t
<1>6. Cardinality(T) = Cardinality(1 .. t)
  BY <1>2, <1>3, <1>4, <1>5, SameCount
<1>. QED
  BY <1>2, <1>6 DEF t

\* In its first laps a stride reaches every topic with every category.
LEMMA CanonicalReached ==
  ASSUME NEW topics, IsPool(topics), Len(topics) % 7 # 0, NEW b \in 0 .. 5, NEW i \in DOMAIN topics
  PROVE  \E m \in 1 .. 6 * Len(topics) :
            TextAt(topics, m) = <<CATEGORIES[b + 1], topics[i].topic, 0>>
<1>. DEFINE t == Len(topics)
            j == i - 1
<1>1. t \in Nat \ {0} /\ j \in 0 .. t - 1 /\ i = j + 1
  BY DEF IsPool
<1>2. PICK a \in 0 .. t - 1 : (7 * a + b) % t = j
  <2>1. t % 7 # 0 /\ b \in Nat
    OBVIOUS
  <2>. HIDE DEF t, j
  <2>. QED
    BY ONLY <1>1, <2>1, SevenReaches
<1>3. a \in Nat
  OBVIOUS
<1>4. StepText(topics, 6 * a + b) =
        <<CATEGORIES[b + 1], topics[((7 * a + b) % t) + 1].topic, (a \div t) % Wordings>>
  BY <1>3, StepOfLap
<1>5. (a \div t) % Wordings = 0
  <2>1. a \div t = 0
    <3>. HIDE DEF t
    <3>. QED
      BY <1>1, <1>3
  <2>. QED
    BY <2>1 DEF Wordings
<1>. DEFINE m == 6 * a + b + 1
<1>6. m \in 1 .. 6 * t /\ m - 1 = 6 * a + b
  <2>. HIDE DEF t
  <2>. QED
    BY <1>1
<1>7. TextAt(topics, m) = <<CATEGORIES[b + 1], topics[i].topic, 0>>
  <2>. HIDE DEF m, t, j
  <2>. QED
    BY <1>1, <1>2, <1>4, <1>5, <1>6 DEF TextAt
<1>. HIDE DEF m
<1>. QED
  BY <1>6, <1>7

\* A text is fresh where it comes first.
LEMMA FirstIsFresh ==
  ASSUME NEW profile, NEW z \in Nat, NEW tried, DOMAIN tried = 1 .. z,
         NEW S, S = Fresh(profile, tried), NEW m \in 1 .. z, ~Leaks(profile, tried[m])
  PROVE  \E l \in S : l <= m /\ tried[l] = tried[m]
<1>. DEFINE M == {l \in 1 .. z : tried[l] = tried[m]}
<1>1. M \subseteq Nat /\ m \in M
  OBVIOUS
<1>2. PICK l \in M : \A n \in M : l <= n
  <2>. HIDE DEF M
  <2>. QED
    BY <1>1, SmallestNumber
<1>3. l \in 1 .. z /\ tried[l] = tried[m] /\ l <= m
  BY <1>1, <1>2
<1>4. \A n \in 1 .. l - 1 : tried[n] # tried[l]
  <2>. SUFFICES ASSUME NEW n \in 1 .. l - 1, tried[n] = tried[l] PROVE FALSE
    OBVIOUS
  <2>1. n \in M /\ ~(l <= n)
    BY <1>3
  <2>. HIDE DEF M
  <2>. QED
    BY <1>2, <2>1
<1>5. l \in S
  <2>. HIDE DEF M
  <2>. QED
    BY <1>3, <1>4, Zenon DEF Fresh
<1>. QED
  BY <1>3, <1>5

\* Another wording than the canonical one comes after the first laps.
LEMMA CanonicalEarly ==
  ASSUME NEW topics, IsPool(topics), NEW m \in 1 .. 6 * Len(topics)
  PROVE  TextAt(topics, m)[3] = 0
<1>. DEFINE t == Len(topics)
            u == 6 * t
            s == m - 1
<1>1. t \in Nat \ {0} /\ u \in Nat \ {0} /\ s \in Nat /\ s < u
  BY DEF IsPool
<1>2. TextAt(topics, m)[3] = (s \div u) % Wordings
  BY CategoryTurns DEF TextAt, StepText
<1>3. s \div u = 0
  <2>. HIDE DEF s, u
  <2>1. s = u * 0 + s /\ s \in 0 .. u - 1
    BY <1>1
  <2>. QED
    BY <1>1, <2>1, Quotient
<1>. HIDE DEF s, u
<1>. QED
  BY <1>2, <1>3 DEF Wordings

LEMMA CanonicalInPlan ==
  ASSUME NEW profile, IsProfile(profile), NEW count \in Nat, Nameless(profile),
         \A i \in DOMAIN Topics(profile) : Topics(profile)[i].names = FALSE,
         NEW plan, NEW P, NEW N, NEW specs, specs = QuestionSpecs(profile, count),
         Interleaved(plan, count, P, N, specs), DOMAIN specs = 1 .. count
  PROVE  CanonicalFirst(profile, plan)
<1>. DEFINE topics == Topics(profile)
            t == Len(topics)
            T == {topics[i].topic : i \in DOMAIN topics}
            M == {m \in DOMAIN plan : plan[m].category # BRAND_PROBE}
            asked1 == {plan[n].text : n \in M}
            tried == Tried(profile, count)
            S == Fresh(profile, tried)
            texts == Texts(profile, count)
<1>1. IsPool(topics)
  BY PoolOfProfile
<1>2. Cardinality(T) = t
  BY <1>1, TopicsCounted
<1>. SUFFICES ASSUME t % 7 # 0, NEW text \in asked1, text[3] > 0,
                     NEW c \in Range(CATEGORIES), NEW x \in T
              PROVE  <<c, x, 0>> \in asked1
  BY <1>2, Zenon DEF CanonicalFirst
<1>3. DOMAIN plan = 1 .. count
  BY DEF Interleaved
<1>4. /\ \A n \in 1 .. count : n - 1 \in P \/ n - 1 \in N
      /\ \A n \in N : n + 1 \in 1 .. count /\ (n + 1) - 1 = n /\ n \notin P
      /\ N \subseteq Int /\ N \subseteq 0 .. count /\ IsFiniteSet(N) /\ Cardinality(N) \in Nat
  BY OthersPlaced
<1>5. ASSUME NEW n \in 1 .. count, n - 1 \in P PROVE plan[n].category = BRAND_PROBE
  BY <1>3, <1>5, Zenon DEF Interleaved
<1>6. ASSUME NEW n \in 1 .. count, n - 1 \notin P
      PROVE  /\ n - 1 \in N /\ Standing(N, n - 1) \in DOMAIN texts
             /\ plan[n].text = texts[Standing(N, n - 1)] /\ plan[n].category # BRAND_PROBE
  BY <1>3, <1>6, QuestionOfPlan
<1>7. PICK n \in M : text = plan[n].text
  OBVIOUS
<1>8. n \in 1 .. count /\ n - 1 \notin P
  BY <1>3, <1>5
<1>. DEFINE k == Standing(N, n - 1)
            y == Nth(S, k)
<1>9. k \in DOMAIN texts /\ text = texts[k] /\ n - 1 \in N
  BY <1>6, <1>7, <1>8
<1>10. k \in 1 .. Cardinality(N)
  <2>. DEFINE j == n - 1
  <2>1. j \in N
    BY <1>9
  <2>. HIDE DEF j
  <2>2. Standing(N, j) \in 1 .. Cardinality(N)
    BY <1>4, <2>1, StandingOfMember
  <2>. QED
    BY <2>2 DEF j
<1>. HIDE DEF k
<1>11. /\ Cardinality(S) \in Nat
       /\ DOMAIN texts = 1 .. (IF count <= Cardinality(S) THEN count ELSE Cardinality(S))
       /\ \A i \in DOMAIN texts : /\ Nth(S, i) \in S /\ Standing(S, Nth(S, i)) = i
                                  /\ texts[i] = tried[Nth(S, i)]
  BY TextsPlaced
<1>12. y \in S /\ Standing(S, y) = k /\ text = tried[y]
  BY <1>9, <1>11
<1>13. PICK e, p \in Nat : TriedInParts(tried, topics, count, e, p)
  BY TriedParts
<1>14. /\ 6 * t + 1 <= e /\ e <= p /\ DOMAIN tried = 1 .. p + 4 * count
       /\ \A m \in 1 .. e : tried[m] = TextAt(topics, m)
  <2>1. count > 0
    BY <1>8
  <2>. HIDE DEF tried, topics
  <2>. QED
    BY <1>13, <2>1 DEF TriedInParts
<1>15. t \in Nat \ {0}
  BY <1>1 DEF IsPool
<1>16. S \subseteq 1 .. p + 4 * count /\ S \subseteq Int /\ IsFiniteSet(S)
  <2>1. S \subseteq DOMAIN tried
    BY Zenon DEF Fresh
  <2>. HIDE DEF S, tried
  <2>2. S \subseteq 1 .. p + 4 * count /\ p + 4 * count \in Nat
    BY <1>14, <2>1
  <2>. QED
    BY <2>2, PlacesOf
<1>17. y > 6 * t
  <2>. SUFFICES ASSUME y <= 6 * t PROVE FALSE
    <3>. HIDE DEF y, S, t
    <3>. QED
      BY <1>12, <1>15, <1>16
  <2>1. y \in 1 .. 6 * t /\ y \in 1 .. e
    <3>. HIDE DEF y, S, t
    <3>. QED
      BY <1>12, <1>14, <1>15, <1>16
  <2>2. TextAt(topics, y)[3] = 0
    <3>. HIDE DEF y, topics
    <3>. QED
      BY <1>1, <2>1, CanonicalEarly
  <2>3. text[3] = 0
    <3>. HIDE DEF y, topics, tried
    <3>. QED
      BY <1>12, <1>14, <2>1, <2>2
  <2>. QED
    BY <2>3
<1>18. PICK i \in DOMAIN topics : x = topics[i].topic
  OBVIOUS
<1>19. PICK b \in 0 .. 5 : c = CATEGORIES[b + 1]
  <2>1. PICK j \in 1 .. 6 : c = CATEGORIES[j]
    BY CategoriesApart DEF Range
  <2>2. j - 1 \in 0 .. 5 /\ (j - 1) + 1 = j
    OBVIOUS
  <2>. QED
    BY <2>1, <2>2
<1>20. PICK m \in 1 .. 6 * t : TextAt(topics, m) = <<c, x, 0>>
  <2>. HIDE DEF topics
  <2>. QED
    BY <1>1, <1>18, <1>19, CanonicalReached
<1>21. m \in 1 .. e /\ m \in 1 .. p + 4 * count /\ m <= 6 * t
  <2>. HIDE DEF t
  <2>. QED
    BY <1>14, <1>15
<1>22. tried[m] = <<c, x, 0>>
  <2>. HIDE DEF tried, topics
  <2>. QED
    BY <1>14, <1>20, <1>21
<1>23. PICK l \in S : l <= m /\ tried[l] = tried[m]
  <2>1. ~Leaks(profile, tried[m])
    <3>. HIDE DEF tried
    <3>. QED
      BY NamelessNeverLeaks
  <2>2. p + 4 * count \in Nat /\ S = Fresh(profile, tried)
    OBVIOUS
  <2>. HIDE DEF S, tried
  <2>. QED
    BY <1>14, <1>21, <2>1, <2>2, FirstIsFresh
<1>. DEFINE h == Standing(S, l)
<1>24. h \in 1 .. Cardinality(S) /\ h < k
  <2>. HIDE DEF S, y, t
  <2>1. l \in Int /\ y \in Int /\ l < y
    BY <1>12, <1>15, <1>16, <1>17, <1>21, <1>23
  <2>2. Standing(S, l) < Standing(S, y)
    <3>1. l <= y /\ y \in S
      BY <1>12, <2>1
    <3>. QED
      BY ONLY <1>16, <2>1, <3>1, StandingGrows
  <2>3. Standing(S, l) \in 1 .. Cardinality(S)
    BY <1>16, StandingOfMember
  <2>. QED
    BY <1>12, <2>2, <2>3
<1>25. h \in DOMAIN texts /\ h \in 1 .. Cardinality(N)
  <2>. HIDE DEF S, h, texts
  <2>. QED
    BY <1>4, <1>9, <1>10, <1>11, <1>24
<1>26. texts[h] = <<c, x, 0>>
  <2>. DEFINE w == Nth(S, h)
  <2>1. w \in S /\ Standing(S, w) = h /\ texts[h] = tried[w]
    <3>. HIDE DEF S, h, texts, tried
    <3>. QED
      BY <1>11, <1>25
  <2>. HIDE DEF w, S, texts, tried
  <2>2. w = l
    BY <1>16, <2>1, StandingApart
  <2>. QED
    BY <1>22, <1>23, <2>1, <2>2
<1>27. PICK r \in N : Standing(N, r) = h
  <2>1. N \subseteq 0 .. count /\ count \in Nat
    BY <1>4
  <2>. HIDE DEF h
  <2>. QED
    BY ONLY <1>25, <2>1, StandingTaken
<1>. DEFINE v == r + 1
<1>28. v \in 1 .. count /\ v - 1 = r /\ v - 1 \notin P
  BY <1>4
<1>. HIDE DEF v, h, texts
<1>29. plan[v].text = texts[h] /\ plan[v].category # BRAND_PROBE
  BY <1>6, <1>27, <1>28
<1>30. v \in M
  BY <1>3, <1>28, <1>29
<1>. HIDE DEF M
<1>. QED
  BY <1>26, <1>29, <1>30

LEMMA NoPlanBalanced ==
  ASSUME NEW profile, NEW count \in Nat, NEW plan, DOMAIN plan = {}
  PROVE  PlanBalanced(profile, count, plan) /\ CanonicalFirst(profile, plan)
<1>1. \A c : {n \in DOMAIN plan : plan[n].category = c} = {}
  OBVIOUS
<1>2. Cardinality({}) = 0
  BY FS_EmptySet
<1>3. \A c : Cardinality({n \in DOMAIN plan : plan[n].category = c}) = 0
  BY <1>1, <1>2
<1>4. \A c, d : Cardinality({n \in DOMAIN plan : plan[n].category = c})
                  <= Cardinality({n \in DOMAIN plan : plan[n].category = d}) + 1
  BY <1>3
<1>5. 4 * Cardinality({n \in DOMAIN plan : plan[n].category = BRAND_PROBE}) <= count
  BY <1>3
<1>6. \A n \in {n \in DOMAIN plan : plan[n].category = BRAND_PROBE} :
         n > 1 /\ n - 1 \notin {i \in DOMAIN plan : plan[i].category = BRAND_PROBE}
  BY <1>1
<1>7. \A m, n \in DOMAIN plan : plan[m].text = plan[n].text => m = n
  OBVIOUS
<1>8. PlanBalanced(profile, count, plan)
  BY <1>4, <1>5, <1>6, <1>7, Zenon DEF PlanBalanced
<1>9. CanonicalFirst(profile, plan)
  BY Zenon DEF CanonicalFirst
<1>. QED
  BY <1>8, <1>9

\* A plan of any length, and one that nothing but a topic could have shortened
LEMMA PlacedBalanced ==
  ASSUME NEW profile, IsProfile(profile), NEW count \in Nat,
         \A i \in DOMAIN Topics(profile) : Topics(profile)[i].names = FALSE,
         NEW plan, NEW P, NEW N, NEW specs, specs = QuestionSpecs(profile, count),
         Interleaved(plan, count, P, N, specs)
  PROVE  PlanBalanced(profile, count, plan) /\ CanonicalFirst(profile, plan)
<1>. DEFINE probes == {n \in DOMAIN plan : plan[n].category = BRAND_PROBE}
<1>1. ASSUME NEW m \in DOMAIN plan, NEW n \in DOMAIN plan, plan[m].text = plan[n].text PROVE m = n
  BY <1>1, PlanDistinct
<1>2. 4 * Cardinality(probes) <= count /\ Scattered(probes)
  <2>1. probes = {n \in DOMAIN plan : plan[n].category = BRAND_PROBE}
    OBVIOUS
  <2>. HIDE DEF probes
  <2>. QED
    BY <2>1, ProbesOfPlan
<1>3. ASSUME Nameless(profile) PROVE DOMAIN specs = 1 .. count
  <2>1. Unnamed(profile, count)
    BY <1>3, Zenon DEF Nameless, Unnamed
  <2>2. DOMAIN Texts(profile, count) = 1 .. count
    BY <2>1, EnoughTexts
  <2>. QED
    BY <2>2, SpecsOfTexts
<1>4. ASSUME Nameless(profile), NEW c \in Range(CATEGORIES), NEW d \in Range(CATEGORIES)
      PROVE  ShareOf(plan, c) <= ShareOf(plan, d) + 1
  BY <1>3, <1>4, SharesFair
<1>5. Nameless(profile) => CanonicalFirst(profile, plan)
  BY <1>3, CanonicalInPlan
<1>6. ~Nameless(profile) => CanonicalFirst(profile, plan)
  BY Zenon DEF CanonicalFirst
<1>7. PlanBalanced(profile, count, plan)
  BY <1>1, <1>2, <1>4, Zenon DEF PlanBalanced, ShareOf, Scattered
<1>. QED
  BY <1>5, <1>6, <1>7

LEMMA GeneratedSound ==
  ASSUME NEW profile, IsProfile(profile), NEW count \in Nat,
         NEW plan, plan = GeneratePrompts(profile, count)
  PROVE  PlanBalanced(profile, count, plan) /\ CanonicalFirst(profile, plan)
<1>. DEFINE topics == Topics(profile)
<1>1. \/ \A i \in DOMAIN topics : topics[i].names = FALSE
      \/ Len(topics) = 1 /\ topics[1].names = TRUE
  BY TopicsSound
<1>2. CASE \A i \in DOMAIN topics : topics[i].names = FALSE
  <2>1. PICK P, N : Interleaved(plan, count, P, N, QuestionSpecs(profile, count))
    BY PlanPlaced
  <2>. QED
    BY <1>2, <2>1, PlacedBalanced
<1>3. CASE Len(topics) = 1 /\ topics[1].names = TRUE
  <2>1. DOMAIN plan = {}
    BY <1>3, PlanEmpty
  <2>. QED
    BY <2>1, NoPlanBalanced
<1>. QED
  BY <1>1, <1>2, <1>3

LEMMA GeneratedFilled ==
  ASSUME NEW profile, IsProfile(profile), NEW count \in Nat,
         NEW plan, plan = GeneratePrompts(profile, count)
  PROVE  PlanFilled(profile, count, plan)
<1>. DEFINE topics == Topics(profile)
<1>1. PICK P, N : Interleaved(plan, count, P, N, QuestionSpecs(profile, count))
  BY PlanPlaced
<1>2. Len(plan) <= count
  <2>1. Len(plan) \in 0 .. count
    BY <1>1, Zenon DEF Interleaved
  <2>. QED
    BY <2>1
<1>3. ASSUME profile.solutions = FALSE, Unnamed(profile, count) PROVE Len(plan) = count
  <2>1. \A i \in DOMAIN topics : topics[i].names = FALSE
    BY <1>3, TopicsSound
  <2>2. DOMAIN Texts(profile, count) = 1 .. count
    BY <1>3, <2>1, EnoughTexts
  <2>3. DOMAIN QuestionSpecs(profile, count) = 1 .. count
    BY <2>2, SpecsOfTexts
  <2>. QED
    BY <1>1, <2>3 DEF Interleaved
<1>. QED
  BY <1>2, <1>3, Zenon DEF PlanFilled, Unnamed

LEMMA CheckerBalanced ==
  ASSUME NEW profile, NEW count \in Nat, NEW plan, plan = CheckerPrompts(profile)
  PROVE  PlanBalanced(profile, count, plan)
<1>. DEFINE Half(n) == (n - 1) \div 2
            Rest(n) == (n - 1) % 2
            topic == Topics(profile)[1].topic
<1>1. /\ DOMAIN plan = 1 .. 12 /\ Len(plan) = 12
      /\ \A n \in 1 .. 12 : /\ plan[n].category = CATEGORIES[Half(n) + 1]
                            /\ plan[n].text = <<CATEGORIES[Half(n) + 1], topic, Rest(n)>>
  BY CategoryTurns DEF CheckerPrompts
<1>2. \A n \in 1 .. 12 : Half(n) + 1 \in 1 .. 6 /\ Rest(n) \in 0 .. 1 /\ n = 2 * Half(n) + Rest(n) + 1
  OBVIOUS
<1>. HIDE DEF topic, Half, Rest
<1>3. ASSUME NEW m \in DOMAIN plan, NEW n \in DOMAIN plan, plan[m].text = plan[n].text PROVE m = n
  <2>1. CATEGORIES[Half(m) + 1] = CATEGORIES[Half(n) + 1] /\ Rest(m) = Rest(n)
    BY <1>1, <1>3
  <2>. DEFINE a == Half(m)
              b == Half(n)
  <2>2. /\ a + 1 \in 1 .. 6 /\ m = 2 * a + Rest(m) + 1
        /\ b + 1 \in 1 .. 6 /\ n = 2 * b + Rest(n) + 1
        /\ Rest(m) = Rest(n) /\ CATEGORIES[a + 1] = CATEGORIES[b + 1]
    BY <1>1, <1>2, <2>1
  <2>. HIDE DEF a, b
  <2>3. a + 1 = b + 1
    BY <2>2, CategoriesApart
  <2>4. 2 * a = 2 * b
    <3>1. a \in Int /\ b \in Int
      BY <1>1 DEF a, b, Half
    <3>. QED
      BY <2>3, <3>1
  <2>. QED
    BY <2>2, <2>4
<1>4. \A n \in DOMAIN plan : plan[n].category # BRAND_PROBE
  BY <1>1, <1>2, CategoriesApart
<1>5. {n \in DOMAIN plan : plan[n].category = BRAND_PROBE} = {}
  BY <1>4
<1>6. 4 * Cardinality({n \in DOMAIN plan : plan[n].category = BRAND_PROBE}) <= count
  <2>1. Cardinality({n \in DOMAIN plan : plan[n].category = BRAND_PROBE}) = 0
    BY <1>5, FS_EmptySet
  <2>. QED
    BY <1>1, <2>1
<1>7. \A n \in {n \in DOMAIN plan : plan[n].category = BRAND_PROBE} :
         n > 1 /\ n - 1 \notin {i \in DOMAIN plan : plan[i].category = BRAND_PROBE}
  BY <1>5
<1>8. ASSUME NEW c \in Range(CATEGORIES)
      PROVE  Cardinality({n \in DOMAIN plan : plan[n].category = c}) = 2
  <2>1. PICK i \in 1 .. 6 : c = CATEGORIES[i]
    BY CategoriesApart DEF Range
  <2>. DEFINE m == 2 * i - 1
              S == {n \in DOMAIN plan : plan[n].category = c}
  <2>2. m \in 1 .. 12 /\ m + 1 \in 1 .. 12 /\ m # m + 1
    OBVIOUS
  <2>3. ASSUME NEW n \in 1 .. 12 PROVE n \in S <=> Half(n) + 1 = i
    <3>1. CATEGORIES[Half(n) + 1] = CATEGORIES[i] <=> Half(n) + 1 = i
      BY <1>2, CategoriesApart
    <3>. QED
      BY <1>1, <2>1, <3>1
  <2>4. ASSUME NEW n \in 1 .. 12 PROVE Half(n) + 1 = i <=> (n = m \/ n = m + 1)
    BY DEF Half
  <2>5. S \subseteq 1 .. 12
    BY <1>1
  <2>. HIDE DEF S, m
  <2>6. S = {m, m + 1}
    BY <2>2, <2>3, <2>4, <2>5
  <2>7. IsFiniteSet({m}) /\ Cardinality({m}) = 1
    BY FS_Singleton
  <2>8. Cardinality({m} \cup {m + 1}) = 2
    <3>1. m + 1 \notin {m}
      BY <2>2
    <3>. DEFINE R == {m}
                x == m + 1
    <3>2. IsFiniteSet(R) /\ Cardinality(R) = 1 /\ x \notin R
      BY <2>7, <3>1
    <3>. HIDE DEF R, x
    <3>3. Cardinality(R \cup {x}) = IF x \in R THEN Cardinality(R) ELSE Cardinality(R) + 1
      BY <3>2, FS_AddElement
    <3>4. Cardinality(R \cup {x}) = 2
      BY <3>2, <3>3
    <3>. QED
      BY <3>4 DEF R, x
  <2>9. S = {m} \cup {m + 1}
    BY <2>6
  <2>10. Cardinality(S) = 2
    BY <2>8, <2>9
  <2>. QED
    BY <2>10 DEF S
<1>9. \A c, d \in Range(CATEGORIES) :
         Cardinality({n \in DOMAIN plan : plan[n].category = c})
           <= Cardinality({n \in DOMAIN plan : plan[n].category = d}) + 1
  BY <1>8
<1>. QED
  BY <1>3, <1>6, <1>7, <1>9, Zenon DEF PlanBalanced

LEMMA RowsJoined ==
  ASSUME NEW T, NEW x \in Seq(T), NEW y \in Seq(T)
  PROVE  /\ x \o y \in Seq(T) /\ Len(x \o y) = Len(x) + Len(y)
         /\ \A i \in 1 .. Len(x) + Len(y) : (x \o y)[i] = IF i <= Len(x) THEN x[i] ELSE y[i - Len(x)]
<1>1. x \o y \in Seq(T)
  OBVIOUS
<1>2. Len(x \o y) = Len(x) + Len(y)
  OBVIOUS
<1>3. \A i \in 1 .. Len(x) + Len(y) : (x \o y)[i] = IF i <= Len(x) THEN x[i] ELSE y[i - Len(x)]
  OBVIOUS
<1>. QED
  BY <1>1, <1>2, <1>3

LEMMA ShapesSound ==
  ASSUME NEW profile, NEW shapes, shapes = QueryShapes(profile)
  PROVE  /\ Len(shapes) \in {6, 7} /\ DOMAIN shapes = 1 .. Len(shapes)
         /\ \A i, j \in DOMAIN shapes : shapes[i] = shapes[j] => i = j
<1>1. shapes = QUERY_SHAPES
        \/ shapes = <<"best", "local", "top", "comparison", "reviews", "alternatives", "how-to-choose">>
  <2>1. Tail(QUERY_SHAPES) = <<"top", "comparison", "reviews", "alternatives", "how-to-choose">>
    BY DEF QUERY_SHAPES
  <2>2. <<"best", "local">> \o <<"top", "comparison", "reviews", "alternatives", "how-to-choose">>
          = <<"best", "local", "top", "comparison", "reviews", "alternatives", "how-to-choose">>
    <3>. DEFINE p == <<"best", "local">>
                q == <<"top", "comparison", "reviews", "alternatives", "how-to-choose">>
                T == {"best", "local", "top", "comparison", "reviews", "alternatives", "how-to-choose"}
                s == p \o q
    <3>1. p \in Seq(T) /\ Len(p) = 2 /\ p[1] = "best" /\ p[2] = "local"
      OBVIOUS
    <3>2. q \in Seq(T) /\ Len(q) = 5 /\ q[1] = "top" /\ q[2] = "comparison"
          /\ q[3] = "reviews" /\ q[4] = "alternatives" /\ q[5] = "how-to-choose"
      OBVIOUS
    <3>. HIDE DEF p, q, T
    <3>3. /\ s \in Seq(T) /\ Len(s) = Len(p) + Len(q)
          /\ \A i \in 1 .. Len(p) + Len(q) : s[i] = IF i <= Len(p) THEN p[i] ELSE q[i - Len(p)]
      BY <3>1, <3>2, RowsJoined
    <3>4. \A i \in 1 .. 7 : s[i] = IF i <= 2 THEN p[i] ELSE q[i - 2]
      <4>. HIDE DEF s
      <4>. QED
        BY <3>1, <3>2, <3>3
    <3>5. s[1] = p[1] /\ s[2] = p[2] /\ s[3] = q[1] /\ s[4] = q[2] /\ s[5] = q[3]
          /\ s[6] = q[4] /\ s[7] = q[5]
      <4>. HIDE DEF s
      <4>. QED
        BY <3>4
    <3>6. s \in Seq(T) /\ Len(s) = 7
      <4>. HIDE DEF s
      <4>. QED
        BY <3>1, <3>2, <3>3
    <3>. HIDE DEF s
    <3>7. s = <<"best", "local", "top", "comparison", "reviews", "alternatives", "how-to-choose">>
      BY <3>1, <3>2, <3>5, <3>6
    <3>. QED
      BY <3>7 DEF p, q, s
  <2>. QED
    BY <2>1, <2>2, Zenon DEF QueryShapes
<1>2. CASE shapes = QUERY_SHAPES
  BY <1>2 DEF QUERY_SHAPES
<1>3. CASE shapes = <<"best", "local", "top", "comparison", "reviews", "alternatives", "how-to-choose">>
  BY <1>3
<1>. QED
  BY <1>1, <1>2, <1>3

\* The place of shape b of lap a among the queries tried
QueryAt(l, a, b) == l * a + b + 1

LEMMA QueryPlaces ==
  ASSUME NEW l \in {6, 7}, NEW t \in Nat, NEW a \in Nat, NEW b \in 0 .. l - 1
  PROVE  QueryAt(l, a, b) \in Nat \ {0} /\ (QueryAt(l, a, b) <= l * t <=> a < t)
<1>1. CASE l = 6
  BY <1>1 DEF QueryAt
<1>2. CASE l = 7
  BY <1>2 DEF QueryAt
<1>. QED
  BY <1>1, <1>2

LEMMA QueryOrder ==
  ASSUME NEW l \in {6, 7}, NEW a \in Nat, NEW c \in Nat, NEW b \in 0 .. l - 1
  PROVE  c < a <=> QueryAt(l, c, b) < QueryAt(l, a, b)
<1>1. CASE l = 6
  BY <1>1 DEF QueryAt
<1>2. CASE l = 7
  BY <1>2 DEF QueryAt
<1>. QED
  BY <1>1, <1>2

LEMMA LapOfQuery ==
  ASSUME NEW l \in {6, 7}, NEW n \in Nat \ {0}
  PROVE  \E a \in Nat, b \in 0 .. l - 1 : n = QueryAt(l, a, b)
<1>1. CASE l = 6
  <2>. DEFINE a == (n - 1) \div 6
              b == (n - 1) % 6
  <2>1. a \in Nat /\ b \in 0 .. l - 1 /\ n = l * a + b + 1
    BY <1>1
  <2>. HIDE DEF a, b
  <2>. QED
    BY <2>1 DEF QueryAt
<1>2. CASE l = 7
  <2>. DEFINE a == (n - 1) \div 7
              b == (n - 1) % 7
  <2>1. a \in Nat /\ b \in 0 .. l - 1 /\ n = l * a + b + 1
    BY <1>2
  <2>. HIDE DEF a, b
  <2>. QED
    BY <2>1 DEF QueryAt
<1>. QED
  BY <1>1, <1>2

\* The topic of shape b of lap a
TopicAt(l, t, a, b) == (((l + 1) * a + b) % t) + 1

\* The shape and the topic at a place
ShapeTried(l, n) == ((n - 1) % l) + 1
TopicTried(l, t, n) == ((n - 1 + ((n - 1) \div l)) % t) + 1

LEMMA ShapeTurn ==
  ASSUME NEW l \in {6, 7}, NEW a \in Nat, NEW b \in 0 .. l - 1, NEW n, n = QueryAt(l, a, b)
  PROVE  ShapeTried(l, n) = b + 1
<1>. DEFINE s == l * a + b
<1>1. s % l = b
  BY LapOfStep
<1>2. n - 1 = s
  <2>1. s \in Int /\ n = s + 1
    BY DEF QueryAt
  <2>. HIDE DEF s
  <2>. QED
    BY <2>1
<1>. QED
  BY <1>1, <1>2 DEF ShapeTried

LEMMA TopicInPool ==
  ASSUME NEW l \in {6, 7}, NEW t \in Nat \ {0}, NEW a \in Nat, NEW b \in 0 .. l - 1
  PROVE  TopicAt(l, t, a, b) \in 1 .. t
<1>. DEFINE x == (l + 1) * a + b
<1>1. x \in Nat
  OBVIOUS
<1>. HIDE DEF x
<1>2. x % t \in 0 .. t - 1
  BY <1>1, Division
<1>3. (x % t) + 1 \in 1 .. t
  BY <1>2
<1>. QED
  BY <1>3 DEF TopicAt, x

LEMMA TopicTurn ==
  ASSUME NEW l \in {6, 7}, NEW t, NEW a \in Nat, NEW b \in 0 .. l - 1, NEW n, n = QueryAt(l, a, b)
  PROVE  TopicTried(l, t, n) = TopicAt(l, t, a, b)
<1>. DEFINE s == l * a + b
            x == (l + 1) * a + b
<1>1. s \in Nat /\ s \div l = a
  BY LapOfStep
<1>2. n - 1 = s
  <2>1. s \in Int /\ n = s + 1
    BY DEF QueryAt
  <2>. HIDE DEF s
  <2>. QED
    BY <2>1
<1>3. s + a = x
  <2>1. CASE l = 6
    BY <2>1
  <2>2. CASE l = 7
    BY <2>2
  <2>. QED
    BY <2>1, <2>2
<1>4. TopicAt(l, t, a, b) = (x % t) + 1
  BY DEF TopicAt
<1>. HIDE DEF s, x
<1>5. n - 1 + ((n - 1) \div l) = x
  BY <1>1, <1>2, <1>3
<1>. QED
  BY <1>4, <1>5 DEF TopicTried

\* Laps a and c ask the same.
LapsMeet(l, t, a, c) == IsMultiple(a - c, t \div Common(l + 1, t))

LEMMA SameTopic ==
  ASSUME NEW l \in {6, 7}, NEW t \in Nat \ {0}, NEW a \in Nat, NEW c \in Nat, NEW b \in 0 .. l - 1
  PROVE  TopicAt(l, t, a, b) = TopicAt(l, t, c, b) <=> LapsMeet(l, t, a, c)
<1>. DEFINE n == l + 1
            x == n * a + b
            y == n * c + b
            d == a - c
            e == n * d
<1>1. n \in {7, 8} /\ x \in Nat /\ y \in Nat /\ d \in Int
  OBVIOUS
<1>2. x - y = n * d
  <2>1. CASE l = 6
    BY <2>1
  <2>2. CASE l = 7
    BY <2>2
  <2>. QED
    BY <2>1, <2>2
<1>3. TopicAt(l, t, a, b) = (x % t) + 1 /\ TopicAt(l, t, c, b) = (y % t) + 1
  BY DEF TopicAt
<1>4. LapsMeet(l, t, a, c) <=> IsMultiple(d, t \div Common(n, t))
  BY DEF LapsMeet
<1>5. x % t = y % t <=> IsMultiple(e, t)
  <2>. HIDE DEF x, y
  <2>1. x % t = y % t <=> \E k \in Int : x - y = k * t
    BY <1>1, SameRemainder
  <2>. QED
    BY <1>2, <2>1 DEF IsMultiple
<1>. HIDE DEF n, x, y, d, e
<1>6. IsMultiple(e, t) <=> IsMultiple(d, t \div Common(n, t))
  BY <1>1, FirstMeeting DEF e
<1>7. x % t \in 0 .. t - 1 /\ y % t \in 0 .. t - 1
  BY <1>1, Division
<1>8. (x % t) + 1 = (y % t) + 1 <=> x % t = y % t
  BY <1>7
<1>. QED
  BY <1>3, <1>4, <1>5, <1>6, <1>8

\* The pool of a profile, with the shapes put to its topics
IsQueries(tried, shapes, topics) ==
  /\ Len(shapes) \in {6, 7} /\ DOMAIN shapes = 1 .. Len(shapes)
  /\ \A i, j \in DOMAIN shapes : shapes[i] = shapes[j] => i = j
  /\ Len(topics) \in Nat /\ DOMAIN topics = 1 .. Len(topics)
  /\ \A i, j \in DOMAIN topics : topics[i].topic = topics[j].topic => i = j
  /\ DOMAIN tried = 1 .. Len(shapes) * Len(topics)
  /\ \A a \in 0 .. Len(topics) - 1, b \in 0 .. Len(shapes) - 1 :
        tried[QueryAt(Len(shapes), a, b)]
          = <<shapes[b + 1], topics[TopicAt(Len(shapes), Len(topics), a, b)].topic>>

LEMMA QueriesOfProfile ==
  ASSUME NEW profile, IsProfile(profile), NEW tried, tried = QueriesTried(profile)
  PROVE  IsQueries(tried, QueryShapes(profile), TopicPool(profile))
<1>. DEFINE shapes == QueryShapes(profile)
            topics == TopicPool(profile)
            l == Len(shapes)
            t == Len(topics)
            At(n) == <<shapes[ShapeTried(l, n)], topics[TopicTried(l, t, n)].topic>>
<1>1. tried = [n \in 1 .. l * t |-> At(n)]
  BY DEF QueriesTried, ShapeTried, TopicTried
<1>2. /\ l \in {6, 7} /\ DOMAIN shapes = 1 .. l
      /\ \A i, j \in DOMAIN shapes : shapes[i] = shapes[j] => i = j
  BY ShapesSound
<1>3. /\ t \in Nat /\ DOMAIN topics = 1 .. t
      /\ \A i, j \in DOMAIN topics : topics[i].topic = topics[j].topic => i = j
  BY PoolSound
<1>4. ASSUME NEW a \in 0 .. t - 1, NEW b \in 0 .. l - 1
      PROVE  tried[QueryAt(l, a, b)] = <<shapes[b + 1], topics[TopicAt(l, t, a, b)].topic>>
  <2>. DEFINE n == QueryAt(l, a, b)
  <2>. HIDE DEF l, t
  <2>1. t \in Nat \ {0} /\ a \in Nat /\ a < t /\ l * t \in Nat
    BY <1>2, <1>3
  <2>2. n \in Nat \ {0} /\ (n <= l * t <=> a < t)
    BY <1>2, <2>1, QueryPlaces
  <2>3. ShapeTried(l, n) = b + 1 /\ TopicTried(l, t, n) = TopicAt(l, t, a, b)
    <3>1. b \in 0 .. l - 1 /\ n = QueryAt(l, a, b)
      OBVIOUS
    <3>2. l \in {6, 7} /\ t \in Nat \ {0} /\ a \in Nat
      BY <1>2, <2>1
    <3>. HIDE DEF n
    <3>3. ShapeTried(l, n) = b + 1
      BY ONLY <3>1, <3>2, ShapeTurn
    <3>4. TopicTried(l, t, n) = TopicAt(l, t, a, b)
      BY ONLY <3>1, <3>2, TopicTurn
    <3>. QED
      BY <3>3, <3>4
  <2>. HIDE DEF n
  <2>4. n \in 1 .. l * t
    BY <2>1, <2>2
  <2>5. tried[n] = At(n)
    BY <1>1, <2>4
  <2>. QED
    BY <2>3, <2>5 DEF n
<1>5. DOMAIN tried = 1 .. l * t
  BY <1>1
<1>. QED
  BY <1>2, <1>3, <1>4, <1>5 DEF IsQueries

LEMMA SameQuery ==
  ASSUME NEW tried, NEW shapes, NEW topics, IsQueries(tried, shapes, topics),
         NEW l, l = Len(shapes), NEW t, t = Len(topics),
         NEW a \in 0 .. t - 1, NEW b \in 0 .. l - 1, NEW c \in 0 .. t - 1, NEW d \in 0 .. l - 1
  PROVE  tried[QueryAt(l, a, b)] = tried[QueryAt(l, c, d)] <=> (b = d /\ LapsMeet(l, t, a, c))
<1>1. l \in {6, 7} /\ t \in Nat \ {0} /\ a \in Nat /\ c \in Nat /\ b \in 0 .. l - 1 /\ d \in 0 .. l - 1
  BY DEF IsQueries
<1>. DEFINE i == TopicAt(l, t, a, b)
            j == TopicAt(l, t, c, d)
<1>2. tried[QueryAt(l, a, b)] = <<shapes[b + 1], topics[i].topic>>
      /\ tried[QueryAt(l, c, d)] = <<shapes[d + 1], topics[j].topic>>
  BY DEF IsQueries
<1>3. i \in 1 .. t /\ j \in 1 .. t
  BY <1>1, TopicInPool
<1>4. b = d => (i = j <=> LapsMeet(l, t, a, c))
  <2>1. TopicAt(l, t, a, b) = TopicAt(l, t, c, b) <=> LapsMeet(l, t, a, c)
    BY ONLY <1>1, SameTopic
  <2>. QED
    BY <2>1
<1>. HIDE DEF i, j
<1>5. topics[i].topic = topics[j].topic <=> i = j
  BY <1>3 DEF IsQueries
<1>6. shapes[b + 1] = shapes[d + 1] <=> b = d
  <2>1. b + 1 \in 1 .. l /\ d + 1 \in 1 .. l /\ (b + 1 = d + 1 <=> b = d)
    BY <1>1
  <2>. QED
    BY <2>1 DEF IsQueries
<1>. QED
  BY <1>2, <1>4, <1>5, <1>6

\* Lap a asks something new until the laps meet.
LEMMA NewLap ==
  ASSUME NEW l \in {6, 7}, NEW t \in Nat \ {0}, NEW u, u = t \div Common(l + 1, t), NEW a \in Nat
  PROVE  u \in Nat \ {0} /\ ((\A c \in Nat : c < a => ~LapsMeet(l, t, a, c)) <=> a < u)
<1>1. u \in Nat \ {0}
  <2>1. l + 1 \in {7, 8} /\ 0 \in Int /\ 0 = (l + 1) * 0
    OBVIOUS
  <2>. QED
    BY <2>1, FirstMeeting
<1>2. \A c : LapsMeet(l, t, a, c) <=> \E j \in Int : a - c = j * u
  BY DEF LapsMeet, IsMultiple
<1>3. ASSUME a < u, NEW c \in Nat, c < a, NEW j \in Int, a - c = j * u PROVE FALSE
  <2>1. a - c > 0 /\ a - c < u
    BY <1>1, <1>3
  <2>2. j <= 0 => j * u <= 0
    BY <1>1
  <2>3. j >= 1 => j * u >= u
    BY <1>1
  <2>. QED
    BY <1>1, <1>3, <2>1, <2>2, <2>3
<1>4. ASSUME a >= u PROVE \E c \in Nat : c < a /\ LapsMeet(l, t, a, c)
  <2>. DEFINE c == a - u
  <2>1. c \in Nat /\ c < a /\ a - c = 1 * u
    BY <1>1, <1>4
  <2>. QED
    BY <1>2, <2>1
<1>. QED
  BY <1>1, <1>2, <1>3, <1>4

\* A query is new in the laps before the first that meets one.
LEMMA QueryNew ==
  ASSUME NEW profile, profile.leaky = {},
         NEW tried, NEW shapes, NEW topics, IsQueries(tried, shapes, topics),
         NEW l, l = Len(shapes), NEW t, t = Len(topics),
         NEW S, S = NewQueries(profile, tried), NEW a \in 0 .. t - 1, NEW b \in 0 .. l - 1
  PROVE  QueryAt(l, a, b) \in S <=> a < t \div Common(l + 1, t)
<1>. DEFINE n == QueryAt(l, a, b)
            u == t \div Common(l + 1, t)
<1>1. l \in {6, 7} /\ t \in Nat \ {0} /\ a \in Nat /\ a < t /\ DOMAIN tried = 1 .. l * t /\ l * t \in Nat
  BY DEF IsQueries
<1>2. n \in Nat \ {0} /\ (n <= l * t <=> a < t)
  BY <1>1, QueryPlaces
<1>3. (\A c \in Nat : c < a => ~LapsMeet(l, t, a, c)) <=> a < u
  BY <1>1, NewLap
<1>4. ASSUME NEW c \in 0 .. t - 1, NEW d \in 0 .. l - 1
      PROVE  tried[QueryAt(l, c, d)] = tried[n] <=> (b = d /\ LapsMeet(l, t, a, c))
  <2>1. tried[QueryAt(l, a, b)] = tried[QueryAt(l, c, d)] <=> (b = d /\ LapsMeet(l, t, a, c))
    BY SameQuery, SMTT(30)
  <2>. QED
    BY <2>1
<1>5. \A c \in Nat : c < a <=> QueryAt(l, c, b) < n
  BY <1>1, QueryOrder
<1>. HIDE DEF n, u
<1>6. n \in DOMAIN tried
  BY <1>1, <1>2
<1>7. ASSUME n \in S, NEW c \in Nat, c < a PROVE ~LapsMeet(l, t, a, c)
  <2>1. \A m \in 1 .. n - 1 : tried[m] # tried[n]
    BY <1>7, Zenon DEF NewQueries
  <2>2. c \in 0 .. t - 1 /\ QueryAt(l, c, b) < n
    BY <1>1, <1>5, <1>7
  <2>3. QueryAt(l, c, b) \in Nat \ {0}
    BY <1>1, QueryPlaces
  <2>4. QueryAt(l, c, b) \in 1 .. n - 1
    BY <1>2, <2>2, <2>3
  <2>5. tried[QueryAt(l, c, b)] # tried[n]
    BY <2>1, <2>4
  <2>. QED
    BY <1>4, <2>2, <2>5
<1>8. ASSUME \A c \in Nat : c < a => ~LapsMeet(l, t, a, c) PROVE n \in S
  <2>1. ASSUME NEW m \in 1 .. n - 1 PROVE tried[m] # tried[n]
    <3>0. m \in Nat \ {0} /\ m < n /\ m <= l * t
      BY <1>1, <1>2, <2>1
    <3>1. PICK c \in Nat, d \in 0 .. l - 1 : m = QueryAt(l, c, d)
      BY <1>1, <3>0, LapOfQuery
    <3>2. QueryAt(l, c, d) <= l * t <=> c < t
      BY <1>1, QueryPlaces
    <3>3. c \in 0 .. t - 1
      BY <1>1, <3>0, <3>1, <3>2
    <3>4. tried[m] = tried[n] <=> (b = d /\ LapsMeet(l, t, a, c))
      BY <1>4, <3>1, <3>3
    <3>5. b = d => c < a
      BY <1>5, <3>0, <3>1
    <3>. QED
      BY <1>8, <3>4, <3>5
  <2>2. Words(tried[n][1]) \cap profile.leaky = {}
    <3>1. \A X : X \cap {} = {}
      OBVIOUS
    <3>. QED
      BY <3>1
  <2>. QED
    BY <1>6, <2>1, <2>2, Zenon DEF NewQueries
<1>9. n \in S <=> a < u
  BY <1>3, <1>7, <1>8
<1>. QED
  BY <1>9 DEF n, u

\* Their number, when nothing names the brand
QueriesPossible(l, t) == (l * t) \div Common(l + 1, t)

LEMMA NewCounted ==
  ASSUME NEW profile, profile.leaky = {},
         NEW tried, NEW shapes, NEW topics, IsQueries(tried, shapes, topics),
         NEW l, l = Len(shapes), NEW t, t = Len(topics), NEW S, S = NewQueries(profile, tried)
  PROVE  Cardinality(S) = QueriesPossible(l, t)
<1>1. l \in {6, 7} /\ t \in Nat /\ DOMAIN tried = 1 .. l * t
  BY DEF IsQueries
<1>. DEFINE n == l + 1
            g == Common(n, t)
            u == t \div g
            z == l * u
<1>2. n \in {7, 8} /\ n \in Nat \ {0}
  <2>1. l \in {6, 7}
    BY <1>1
  <2>. QED
    BY ONLY <2>1
<1>3. g \in Nat \ {0} /\ u \in Nat /\ t = g * u /\ (t = 0 => u = 0)
  <2>1. CASE t = 0
    <3>. HIDE DEF n
    <3>1. Common(7, t) = 7
      <4>1. t % 7 = 0
        BY <2>1
      <4>. QED
        BY <1>1, <4>1, CommonOfSeven
    <3>2. Common(8, t) = 8
      <4>1. t % 8 = 0
        BY <2>1
      <4>. QED
        BY <1>1, <4>1, CommonOfEight
    <3>3. g \in {7, 8}
      BY <1>2, <3>1, <3>2
    <3>. HIDE DEF g
    <3>4. u = 0
      BY <2>1, <3>3
    <3>. QED
      BY <2>1, <3>3, <3>4
  <2>2. CASE t # 0
    <3>1. t \in Nat \ {0} /\ 0 \in Int /\ 0 = n * 0
      BY <1>1, <2>2
    <3>. HIDE DEF n
    <3>2. g \in 1 .. n /\ t \div g \in Nat \ {0} /\ t = g * (t \div g)
      BY <1>2, <3>1, FirstMeeting
    <3>. QED
      BY <1>2, <2>2, <3>2
  <2>. QED
    BY <2>1, <2>2
<1>. HIDE DEF g, u
<1>4. u <= t /\ z \in Nat /\ z <= l * t /\ l * t = g * z
  <2>1. u <= t
    BY <1>3
  <2>2. CASE l = 6
    BY <1>1, <1>3, <2>1, <2>2
  <2>3. CASE l = 7
    BY <1>1, <1>3, <2>1, <2>3
  <2>. QED
    BY <1>1, <2>1, <2>2, <2>3
<1>5. \A m \in 1 .. l * t : m \in S <=> m <= z
  <2>. SUFFICES ASSUME NEW m \in 1 .. l * t PROVE m \in S <=> m <= z
    OBVIOUS
  <2>. HIDE DEF z
  <2>0. m \in Nat \ {0} /\ m <= l * t
    BY <1>1
  <2>1. PICK a \in Nat, b \in 0 .. l - 1 : m = QueryAt(l, a, b)
    BY <1>1, <2>0, LapOfQuery
  <2>2. QueryAt(l, a, b) <= l * t <=> a < t
    BY <1>1, QueryPlaces
  <2>3. QueryAt(l, a, b) <= l * u <=> a < u
    BY <1>1, <1>3, QueryPlaces
  <2>4. a \in 0 .. t - 1
    BY <1>1, <2>0, <2>1, <2>2
  <2>5. QueryAt(l, a, b) \in S <=> a < t \div Common(l + 1, t)
    BY <2>4, QueryNew
  <2>6. m \in S <=> a < u
    BY <2>1, <2>5 DEF u, g
  <2>7. m <= z <=> a < u
    BY <2>1, <2>3 DEF z
  <2>. QED
    BY <2>6, <2>7
<1>. HIDE DEF z
<1>6. S = 1 .. z
  <2>1. S \subseteq 1 .. l * t
    BY <1>1, Zenon DEF NewQueries
  <2>2. l * t \in Nat
    BY <1>1
  <2>. DEFINE w == l * t
  <2>. HIDE DEF w
  <2>3. S \subseteq 1 .. w /\ w \in Nat /\ z <= w /\ \A m \in 1 .. w : m \in S <=> m <= z
    BY <1>4, <1>5, <2>1, <2>2 DEF w
  <2>4. \A m : m \in S <=> m \in 1 .. z
    <3>1. z \in Nat
      BY <1>4
    <3>. QED
      BY <2>3, <3>1
  <2>. QED
    BY <2>4
<1>7. Cardinality(S) = z
  <2>1. Cardinality(1 .. z) = IF 1 > z THEN 0 ELSE z - 1 + 1
    BY <1>4, FS_Interval
  <2>. QED
    BY <1>4, <1>6, <2>1
<1>8. (l * t) \div g = z
  <2>. DEFINE w == l * t
  <2>1. w \in Nat /\ w = g * z + 0 /\ 0 \in 0 .. g - 1 /\ z \in Int
    BY <1>1, <1>3, <1>4
  <2>. HIDE DEF w
  <2>2. w \div g = z
    BY <1>3, <2>1, Quotient
  <2>. QED
    BY <2>2 DEF w
<1>. QED
  BY <1>7, <1>8 DEF g, QueriesPossible

LEMMA QueriesBuilt ==
  ASSUME NEW profile, IsProfile(profile), NEW count \in Nat, NEW plan, plan = BuildQueries(profile, count)
  PROVE  QueriesSound(profile, plan, count)
<1>. DEFINE tried == QueriesTried(profile)
            shapes == QueryShapes(profile)
            topics == TopicPool(profile)
            l == Len(shapes)
            t == Len(topics)
            S == NewQueries(profile, tried)
            d == Min({count, Cardinality(S)})
<1>1. IsQueries(tried, shapes, topics)
  BY QueriesOfProfile
<1>2. l * t \in Nat /\ DOMAIN tried = 1 .. l * t
  BY <1>1 DEF IsQueries
<1>3. S \subseteq DOMAIN tried
  BY Zenon DEF NewQueries
<1>4. plan = [k \in 1 .. d |-> tried[Nth(S, k)]]
  BY DEF BuildQueries
<1>5. profile.leaky = {} => Cardinality(S) = (l * t) \div Common(l + 1, t)
  <2>. SUFFICES ASSUME profile.leaky = {} PROVE Cardinality(S) = (l * t) \div Common(l + 1, t)
    OBVIOUS
  <2>1. l = Len(shapes) /\ t = Len(topics) /\ S = NewQueries(profile, tried) /\ profile.leaky = {}
    OBVIOUS
  <2>. HIDE DEF shapes, topics, tried, S, l, t
  <2>2. Cardinality(S) = QueriesPossible(l, t)
    BY ONLY <1>1, <2>1, NewCounted
  <2>. QED
    BY <2>2 DEF QueriesPossible
<1>6. Common(l + 1, t) = Max({j \in 1 .. l + 1 : (l + 1) % j = 0 /\ t % j = 0})
  BY DEF Common
<1>. HIDE DEF tried, shapes, topics, l, t
<1>7. /\ Cardinality(S) \in Nat
      /\ \A k \in 1 .. Cardinality(S) : Nth(S, k) \in S /\ Standing(S, Nth(S, k)) = k
  <2>. DEFINE w == l * t
  <2>1. w \in Nat /\ S \subseteq 1 .. w
    BY <1>2, <1>3
  <2>. HIDE DEF w, S
  <2>. QED
    BY <2>1, PlacesOf
<1>8. d = IF count <= Cardinality(S) THEN count ELSE Cardinality(S)
  BY <1>7, Smaller
<1>9. d \in Nat /\ 1 .. d \subseteq 1 .. Cardinality(S)
  <2>. HIDE DEF d
  <2>. QED
    BY <1>7, <1>8
<1>10. DOMAIN plan = 1 .. d /\ Len(plan) = d
  BY <1>4, <1>9
<1>11. \A k \in DOMAIN plan : plan[k] = tried[Nth(S, k)] /\ Nth(S, k) \in S /\ Standing(S, Nth(S, k)) = k
  BY <1>4, <1>7, <1>9, <1>10
<1>12. ASSUME NEW i \in DOMAIN plan, NEW j \in DOMAIN plan, plan[i] = plan[j] PROVE i = j
  <2>. DEFINE m == Nth(S, i)
              n == Nth(S, j)
  <2>1. m \in S /\ n \in S /\ Standing(S, m) = i /\ Standing(S, n) = j /\ tried[m] = tried[n]
    BY <1>11, <1>12
  <2>. HIDE DEF m, n
  <2>2. (\A k \in 1 .. m - 1 : tried[k] # tried[m]) /\ (\A k \in 1 .. n - 1 : tried[k] # tried[n])
    BY <2>1, Zenon DEF NewQueries
  <2>3. m \in Nat \ {0} /\ n \in Nat \ {0}
    BY <1>2, <1>3, <2>1
  <2>4. ~(m < n) /\ ~(n < m)
    BY <2>1, <2>2, <2>3
  <2>5. m = n
    BY <2>3, <2>4
  <2>. QED
    BY <2>1, <2>5
<1>13. ASSUME NEW n \in DOMAIN plan PROVE Words(plan[n][1]) \cap profile.leaky = {}
  <2>1. plan[n] = tried[Nth(S, n)] /\ Nth(S, n) \in S
    BY <1>11
  <2>2. Words(tried[Nth(S, n)][1]) \cap profile.leaky = {}
    BY <2>1, Zenon DEF NewQueries
  <2>. QED
    BY <2>1, <2>2
<1>14. profile.leaky = {} =>
         Len(plan) = Min({count, (l * t) \div Max({j \in 1 .. l + 1 : (l + 1) % j = 0 /\ t % j = 0})})
  <2>. HIDE DEF S
  <2>. QED
    BY <1>5, <1>6, <1>10
<1>. QED
  BY <1>12, <1>13, <1>14, Zenon DEF QueriesSound, l, t, shapes, topics

LEMMA RunsArePlanned ==
  ASSUME NEW r \in Runs
  PROVE  r.count \in Nat /\ r.queries \in Nat /\ IsProfile(r.profile)
  BY RunsAssumption, Zenon DEF IsProfile

\* What PlanSound says of the questions and of the queries of a run
QuestionsSound(r, plan) ==
  /\ PlanBalanced(r.profile, r.count, plan)
  /\ r.kind # "checker" =>
        /\ CanonicalFirst(r.profile, plan)
        /\ PlanFilled(r.profile, r.count, plan)

LEMMA PlannedSound ==
  ASSUME NEW r \in Runs
  PROVE  QuestionsSound(r, Planned(r))
<1>1. r.count \in Nat /\ IsProfile(r.profile)
  BY RunsArePlanned
<1>2. CASE r.kind = "checker"
  <2>1. Planned(r) = CheckerPrompts(r.profile)
    BY <1>2 DEF Planned
  <2>2. PlanBalanced(r.profile, r.count, Planned(r))
    BY <1>1, <2>1, CheckerBalanced
  <2>. QED
    BY <1>2, <2>2 DEF QuestionsSound
<1>3. CASE r.kind # "checker"
  <2>1. Planned(r) = GeneratePrompts(r.profile, r.count)
    BY <1>3 DEF Planned
  <2>2. PlanBalanced(r.profile, r.count, Planned(r)) /\ CanonicalFirst(r.profile, Planned(r))
    BY <1>1, <2>1, GeneratedSound
  <2>3. PlanFilled(r.profile, r.count, Planned(r))
    BY <1>1, <2>1, GeneratedFilled
  <2>. QED
    BY <2>2, <2>3 DEF QuestionsSound
<1>. QED
  BY <1>2, <1>3

\* The questions of every run are planned as PlanSound says when the run asks them,
\* and the queries of its search are: generate_prompts, generate_checker_prompts and
\* build_queries, whatever the filters of a profile leave.
THEOREM PlansAreSound == ScoreSpec => []PlanSound
<1>. DEFINE Asks == run \in Runs /\ (stage = "prompts" => QuestionsSound(run, prompts))
            Searches == (stage = "footprint" /\ run.searches)
                          => QueriesSound(run.profile, queries, run.queries)
<1>1. ScoreInit => Asks /\ Searches
  BY DEF ScoreInit
<1>2. Asks /\ Searches /\ [ScoreNext]_scoreVars => (Asks /\ Searches)'
  <2>. SUFFICES ASSUME Asks, Searches, [ScoreNext]_scoreVars PROVE (Asks /\ Searches)'
    OBVIOUS
  <2>0. run \in Runs
    OBVIOUS
  <2>1. CASE UNCHANGED <<stage, run, prompts, queries>>
    BY <2>1
  <2>2. CASE ReadSite
    BY <2>2 DEF ReadSite
  <2>3. CASE Plan
    <3>1. run' = run /\ prompts' = Planned(run) /\ stage' = "prompts"
      BY <2>3 DEF Plan
    <3>2. QuestionsSound(run, Planned(run))
      BY <2>0, PlannedSound
    <3>. QED
      BY <2>0, <3>1, <3>2
  <2>4. CASE Review
    BY <2>4 DEF Review
  <2>5. CASE Footprint
    <3>1. run' = run /\ stage' = "footprint"
          /\ (run.searches => queries' = BuildQueries(run.profile, run.queries))
      BY <2>5 DEF Footprint
    <3>2. QueriesSound(run.profile, BuildQueries(run.profile, run.queries), run.queries)
      <4>1. run.queries \in Nat /\ IsProfile(run.profile)
        BY <2>0, RunsArePlanned
      <4>. QED
        BY <4>1, QueriesBuilt
    <3>. QED
      BY <2>0, <3>1, <3>2
  <2>6. CASE Score
    BY <2>6 DEF Score
  <2>7. Respond => UNCHANGED <<stage, run, prompts, queries>>
    BY DEF Respond, searching
  <2>8. SearchOne => UNCHANGED <<stage, run, prompts, queries>>
    BY DEF SearchOne
  <2>9. UNCHANGED scoreVars => UNCHANGED <<stage, run, prompts, queries>>
    BY DEF scoreVars, searching
  <2>. HIDE DEF Asks, Searches
  <2>. QED
    BY <2>1, <2>2, <2>3, <2>4, <2>5, <2>6, <2>7, <2>8, <2>9 DEF ScoreNext
<1>3. Asks /\ Searches => PlanSound
  BY DEF QuestionsSound, PlanSound
<1>. QED
  BY <1>1, <1>2, <1>3, PTL DEF ScoreSpec
=============================================================================
