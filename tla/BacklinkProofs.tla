--------------------------- MODULE BacklinkProofs ---------------------------
(***************************************************************************)
(* Theorems about Backlinks, for every set of subjects, links and request  *)
(* threads and for every page a vendor may send: what is believed of a     *)
(* link, the history that is told of it, and the credit refreshes spend.   *)
(***************************************************************************)
EXTENDS Backlinks, NumberLemmas, SequenceTheorems

-----------------------------------------------------------------------------
\* Numbers.

\* The last of the first n + 1 imports is the newest of any it is one of.
LEMMA LastIsNewest ==
    ASSUME NEW n \in Nat, NEW T \in SUBSET (1 .. n + 1), n + 1 \in T
    PROVE  Max(T) = n + 1
<1>1. n + 1 \in Nat /\ T # {}
    OBVIOUS
<1>2. Max(T) \in T /\ n + 1 <= Max(T)
    BY <1>1, Largest
<1>3. Max(T) \in 1 .. n + 1
    BY <1>2
<1> HIDE DEF Max
<1> QED BY <1>2, <1>3

-----------------------------------------------------------------------------
\* Pages and rows.

LEMMA Constants ==
    /\ MISSES_BEFORE_LOST \in Nat \ {0} /\ Estimate \in Nat \ {0} /\ MaxRows \in Nat \ {0}
    /\ VelocityLimit \in Nat \ {0}
    /\ IsFiniteSet(Keys) /\ IsFiniteSet(Requests) /\ Requests # {}
    /\ Requests \cap Analyses = {}
    /\ Cost \in 0 .. Estimate /\ Grants \subseteq Nat /\ Charges \subseteq Nat
    /\ None \notin Subjects /\ None \notin Beliefs /\ None \notin Events
    /\ None \notin Rollups /\ None \notin 0 .. 100
<1>1. IsFiniteSet(Keys)
    BY ScoreAssumption
<1>2. /\ MISSES_BEFORE_LOST \in Nat \ {0} /\ Estimate \in Nat \ {0} /\ MaxRows \in Nat \ {0}
      /\ VelocityLimit \in Nat \ {0}
      /\ IsFiniteSet(Requests) /\ Requests # {} /\ Requests \cap Analyses = {}
      /\ Cost \in 0 .. Estimate /\ Grants \subseteq Nat /\ Charges \subseteq Nat
    BY BacklinkAssumption
<1>3. None \notin Subjects /\ None \notin Beliefs \cup Events \cup Rollups \cup (0 .. 100)
    BY BacklinkAssumption
<1> QED BY <1>1, <1>2, <1>3

\* How many rows a page has.
LEMMA RowsCounted == \A f : RowsOf(f) \in Nat
<1> TAKE f
<1> DEFINE Rows == {row \in Keys \X (1 .. 2) : row[2] <= f[row[1]]}
<1>1. IsFiniteSet(1 .. 2)
    <2>1. 1 \in Int /\ 2 \in Int
        OBVIOUS
    <2> QED BY <2>1, FS_Interval
<1>2. IsFiniteSet(Keys \X (1 .. 2))
    BY <1>1, Constants, FS_Product
<1>3. Rows \in SUBSET (Keys \X (1 .. 2))
    OBVIOUS
<1>4. IsFiniteSet(Rows)
    BY <1>2, <1>3, FS_Subset
<1>5. Cardinality(Rows) \in Nat
    BY <1>4, FS_CardinalityType
<1> QED BY <1>5 DEF RowsOf

\* A page without a row lists nothing twice.
LEMMA EmptyPage == NoRows \in Listings
<1> DEFINE Rows == {row \in Keys \X (1 .. 2) : row[2] <= NoRows[row[1]]}
<1>1. Rows = {}
    BY DEF NoRows
<1>2. Cardinality(Rows) = 0
    BY <1>1, FS_EmptySet
<1>3. RowsOf(NoRows) <= MaxRows
    BY <1>2, Constants DEF RowsOf
<1> QED BY <1>3 DEF Listings, NoRows

\* What may be imported: what a vendor answers, or nothing.
Imports == Pages \cup {Failed}

LEMMA ImportsTyped ==
    \A page \in Imports :
        /\ page.coverage \in {"complete", "partial", "failed"}
        /\ page.rows \in Listings
        /\ \A k \in Keys : page.rows[k] \in 0 .. 2
        /\ page.coverage = "failed" => \A k \in Keys : page.rows[k] = 0
<1> TAKE page \in Imports
<1>1. CASE page \in Pages
    BY <1>1 DEF Pages, Listings
<1>2. CASE page = Failed
    BY <1>2, EmptyPage DEF Failed, NoRows
<1> QED BY <1>1, <1>2 DEF Imports

-----------------------------------------------------------------------------
\* The newest of some imports.

LEMMA NewestIsOne ==
    ASSUME NEW n \in Nat, NEW these \in SUBSET (1 .. n), these # {}, NEW rows,
           \A m \in these : rows[m].created \in Nat
    PROVE  /\ Max(Latest(rows, these)) \in these
           /\ \A m \in these : rows[m].created <= rows[Max(Latest(rows, these))].created
<1> DEFINE latest == Latest(rows, these)
<1> DEFINE stamps == {rows[m].created : m \in these}
<1>1. latest \subseteq these /\ latest \in SUBSET (1 .. n)
    BY DEF Latest
<1>2. PICK top \in these : \A m \in these : rows[m].created <= rows[top].created
    <2>1. IsFiniteSet(these)
        <3>1. 1 \in Int /\ n \in Int
            OBVIOUS
        <3>2. IsFiniteSet(1 .. n)
            BY <3>1, FS_Interval
        <3> QED BY <3>2, FS_Subset
    <2> DEFINE stamp == [m \in these |-> rows[m].created]
    <2> DEFINE bound == SumFunctionOnSet(stamp, these)
    <2>2. \A m \in these : stamp[m] = rows[m].created /\ stamp[m] \in Nat /\ stamp[m] \in Int
        OBVIOUS
    <2> HIDE DEF stamp
    <2>3. bound \in Nat
        BY <2>1, <2>2, SumZero
    <2>4. stamps # {} /\ stamps \subseteq Nat
        OBVIOUS
    <2>5. \A x \in stamps : x <= bound
        BY <2>1, <2>2, SumZero
    <2> HIDE DEF stamps, bound
    <2> DEFINE gaps == {bound - x : x \in stamps}
    <2>6. gaps \subseteq Nat /\ gaps # {}
        <3>1. \A x \in stamps : bound - x \in Nat
            BY <2>3, <2>4, <2>5
        <3> HIDE DEF gaps
        <3>2. \A gap \in gaps : gap \in Nat
            BY <3>1 DEF gaps
        <3> QED BY <2>4, <3>2 DEF gaps
    <2>7. PICK gap \in gaps : \A other \in gaps : gap <= other
        BY <2>6, SmallestNumber
    <2>8. PICK x \in stamps : gap = bound - x
        BY <2>7
    <2>9. \A y \in stamps : y <= x
        <3>1. \A y \in stamps : bound - x <= bound - y
            BY <2>7, <2>8
        <3> QED BY <2>3, <2>4, <2>8, <3>1
    <2> QED BY <2>8, <2>9 DEF stamps
<1>3. top \in latest
    BY <1>2 DEF Latest
<1> HIDE DEF latest
<1>4. Max(latest) \in latest
    BY <1>1, <1>3, Largest
<1> QED BY <1>4 DEF latest, Latest

\* Imports that stay as they are stay the newest.
LEMMA LatestAlike ==
    ASSUME NEW these, NEW p, NEW q, \A m \in these : p[m] = q[m]
    PROVE  Latest(p, these) = Latest(q, these)
BY DEF Latest

-----------------------------------------------------------------------------
\* What an import leaves on its subject.

\* The links whose history it adds to.
Becoming(s, page, kind) ==
    {k \in Keys : page.coverage # "failed" /\ EventNow(links[s][k], Diffed(s, page)[k]) = kind}

\* The row it is filed as, after the others of the subject.
Filed(s, page, row) ==
    /\ row.coverage = page.coverage /\ row.rows = page.rows /\ row \in ImportRows
    /\ row.new = Cardinality(Becoming(s, page, "new"))
    /\ row.lost = Cardinality(Becoming(s, page, "lost"))
    /\ row.authority = IF page.coverage = "failed" THEN None ELSE Authority(Live(Diffed(s, page)))
    /\ imports' = [imports EXCEPT ![s] = Append(@, row)]

LEMMA ImportFiles ==
    ASSUME NEW s \in Subjects, NEW page \in Imports, NEW created \in Nat, Import(s, page, created)
    PROVE  \E row : Filed(s, page, row)
<1> DEFINE now == Diffed(s, page)
<1> DEFINE heard == page.coverage # "failed"
<1> DEFINE row == [created |-> created, coverage |-> page.coverage, rows |-> page.rows,
                   measurable |-> heard /\ Measurable(s, page),
                   new |-> Cardinality(Becoming(s, page, "new")),
                   lost |-> Cardinality(Becoming(s, page, "lost")),
                   authority |-> IF heard THEN Authority(Live(now)) ELSE None]
<1>1. imports' = [imports EXCEPT ![s] = Append(@, row)]
    BY DEF Import, Becoming
<1>2. Cardinality(Becoming(s, page, "new")) \in Nat /\ Cardinality(Becoming(s, page, "lost")) \in Nat
    <2>1. Becoming(s, page, "new") \in SUBSET Keys /\ Becoming(s, page, "lost") \in SUBSET Keys
        BY DEF Becoming
    <2>2. IsFiniteSet(Becoming(s, page, "new")) /\ IsFiniteSet(Becoming(s, page, "lost"))
        BY <2>1, Constants, FS_Subset
    <2> QED BY <2>2, FS_CardinalityType
<1>3. Live(now) \in SUBSET Keys
    BY DEF Live
<1> HIDE DEF now
<1>4. (IF heard THEN Authority(Live(now)) ELSE None) \in {Authority(live) : live \in SUBSET Keys} \cup {None}
    BY <1>3
<1>5. (heard /\ Measurable(s, page)) \in BOOLEAN
    OBVIOUS
<1>6. row \in ImportRows
    BY <1>2, <1>4, <1>5, ImportsTyped DEF ImportRows
<1>7. /\ row.coverage = page.coverage /\ row.rows = page.rows
      /\ row.new = Cardinality(Becoming(s, page, "new")) /\ row.lost = Cardinality(Becoming(s, page, "lost"))
      /\ row.authority = IF page.coverage = "failed" THEN None ELSE Authority(Live(now))
    OBVIOUS
<1> HIDE DEF row
<1> QED BY <1>1, <1>6, <1>7 DEF Filed, now

\* The imports of the subject afterwards.
LEMMA FiledLast ==
    ASSUME BeliefInv, NEW s \in Subjects, NEW page, NEW row, Filed(s, page, row)
    PROVE  /\ imports' \in [Subjects -> Seq(ImportRows)]
           /\ Len(imports[s]) \in Nat
           /\ DOMAIN imports[s] = 1 .. Len(imports[s])
           /\ DOMAIN imports'[s] = 1 .. Len(imports[s]) + 1
           /\ \A n \in 1 .. Len(imports[s]) : imports'[s][n] = imports[s][n]
           /\ imports'[s][Len(imports[s]) + 1] = row
           /\ \A t \in Subjects \ {s} : imports'[t] = imports[t]
<1>1. imports \in [Subjects -> Seq(ImportRows)] /\ row \in ImportRows
      /\ imports' = [imports EXCEPT ![s] = Append(@, row)]
    BY DEF BeliefInv, Filed
<1> DEFINE q == imports[s]
<1>2. q \in Seq(ImportRows)
    BY <1>1
<1>3. imports'[s] = Append(q, row) /\ \A t \in Subjects \ {s} : imports'[t] = imports[t]
    BY <1>1
<1> HIDE DEF q
<1>4. /\ Append(q, row) \in Seq(ImportRows)
      /\ Len(Append(q, row)) = Len(q) + 1
      /\ \A i \in 1 .. Len(q) : Append(q, row)[i] = q[i]
      /\ Append(q, row)[Len(q) + 1] = row
    BY <1>1, <1>2, AppendProperties
<1>5. Len(q) \in Nat /\ DOMAIN q = 1 .. Len(q) /\ DOMAIN Append(q, row) = 1 .. Len(Append(q, row))
    BY <1>2, <1>4, LenProperties
<1>6. imports' \in [Subjects -> Seq(ImportRows)]
    BY <1>1, <1>2, <1>4 DEF q
<1> QED BY <1>3, <1>4, <1>5, <1>6 DEF q

\* Which imports measure: the new one when the engine says so, the others as ever.
LEMMA FiledMeasured ==
    ASSUME BeliefInv, NEW s \in Subjects, NEW page \in Imports, NEW row, Filed(s, page, row),
           NEW N \in Nat, N = Len(imports[s])
    PROVE  /\ \A n \in 1 .. N : Measured(s, n)' <=> Measured(s, n)
           /\ Measured(s, N + 1)' <=> Measurable(s, page)
<1> DEFINE q == imports[s]
<1> DEFINE p == imports'[s]
<1>1. /\ N \in Nat /\ DOMAIN q = 1 .. N
      /\ \A n \in 1 .. N : p[n] = q[n]
      /\ p[N + 1] = row
    BY FiledLast
<1>2. row.coverage = page.coverage /\ row.rows = page.rows
    BY DEF Filed
<1>2a. \A n \in 1 .. N : q[n].created \in Nat
    <2>1. q \in Seq(ImportRows)
        BY DEF BeliefInv
    <2>2. \A n \in 1 .. N : q[n] \in ImportRows
        BY <1>1, <2>1
    <2> QED BY <2>2 DEF ImportRows
<1> HIDE DEF p, q
<1> DEFINE newest(rows, these) == Max(Latest(rows, these))
<1>2b. ASSUME NEW these \in SUBSET (1 .. N), these # {}
       PROVE  newest(p, these) = newest(q, these) /\ p[newest(q, these)] = q[newest(q, these)]
    <2>1. \A m \in these : p[m] = q[m] /\ q[m].created \in Nat
        BY <1>1, <1>2a
    <2>2. Latest(p, these) = Latest(q, these)
        BY <2>1, LatestAlike
    <2>3. newest(q, these) \in these
        BY <1>1, <1>2b, <2>1, NewestIsOne
    <2> QED BY <2>1, <2>2, <2>3
<1>3. ASSUME NEW n \in 1 .. N PROVE Measured(s, n)' <=> Measured(s, n)
    <2> DEFINE before == {m \in 1 .. n - 1 : q[m].coverage = "complete"}
    <2>1. \A m \in 1 .. n : m \in 1 .. N /\ p[m] = q[m]
        BY <1>1
    <2>2. {m \in 1 .. n - 1 : p[m].coverage = "complete"} = before
        BY <1>1, <2>1
    <2>3. p[n] = q[n]
        BY <1>1
    <2>4. before \in SUBSET (1 .. N)
        BY <1>1, <2>1
    <2>5. before # {} => newest(p, before) = newest(q, before) /\ p[newest(q, before)] = q[newest(q, before)]
        <3> HIDE DEF before, newest
        <3> QED BY <1>2b, <2>4
    <2>6. Measured(s, n) <=>
             /\ q[n].coverage = "complete"
             /\ before # {} => 2 * RowsOf(q[n].rows) >= RowsOf(q[newest(q, before)].rows)
        BY DEF Measured, Newest, q
    <2>7. Measured(s, n)' <=>
             /\ p[n].coverage = "complete"
             /\ before # {} => 2 * RowsOf(p[n].rows) >= RowsOf(p[newest(p, before)].rows)
        <3>1. Measured(s, n)' <=>
                 LET done == {m \in 1 .. n - 1 : p[m].coverage = "complete"}
                 IN /\ p[n].coverage = "complete"
                    /\ done # {} => 2 * RowsOf(p[n].rows) >= RowsOf(p[newest(p, done)].rows)
            BY DEF Measured, Newest, Latest, p, RowsOf
        <3> QED BY <2>2, <3>1
    <2> HIDE DEF before, newest
    <2> QED BY <2>3, <2>5, <2>6, <2>7
<1>4. Measured(s, N + 1)' <=> Measurable(s, page)
    <2> DEFINE done == {m \in 1 .. N : q[m].coverage = "complete"}
    <2>1. Done(s) = done
        BY <1>1 DEF Done, q
    <2>2. {m \in 1 .. (N + 1) - 1 : p[m].coverage = "complete"} = done
        <3>1. (N + 1) - 1 = N
            BY <1>1
        <3> QED BY <1>1, <3>1
    <2>3. done \in SUBSET (1 .. N)
        OBVIOUS
    <2>4. done # {} => newest(p, done) = newest(q, done) /\ p[newest(q, done)] = q[newest(q, done)]
        <3> HIDE DEF done, newest
        <3> QED BY <1>2b, <2>3
    <2>5. Measured(s, N + 1)' <=>
             /\ page.coverage = "complete"
             /\ done # {} => 2 * RowsOf(page.rows) >= RowsOf(p[newest(p, done)].rows)
        <3>1. Measured(s, N + 1)' <=>
                 LET complete == {m \in 1 .. (N + 1) - 1 : p[m].coverage = "complete"}
                 IN /\ p[N + 1].coverage = "complete"
                    /\ complete # {} => 2 * RowsOf(p[N + 1].rows) >= RowsOf(p[newest(p, complete)].rows)
            BY DEF Measured, Newest, Latest, p, RowsOf
        <3> QED BY <1>1, <1>2, <2>2, <3>1
    <2>6. Measurable(s, page) <=>
             /\ page.coverage = "complete"
             /\ \/ done = {} \/ RowsOf(q[newest(q, done)].rows) = 0
                \/ 2 * RowsOf(page.rows) >= RowsOf(q[newest(q, done)].rows)
        BY <2>1 DEF Measurable, PreviousRows, Newest, q
    <2>7. RowsOf(page.rows) \in Nat /\ RowsOf(q[newest(q, done)].rows) \in Nat
        BY RowsCounted
    <2> HIDE DEF done, newest
    <2> QED BY <2>4, <2>5, <2>6, <2>7
<1> QED BY <1>3, <1>4

\* The pages that list a link, and those that measurably missed it since.
LEMMA FiledSightings ==
    ASSUME BeliefInv, NEW s \in Subjects, NEW page \in Imports, NEW row, Filed(s, page, row),
           NEW N \in Nat, N = Len(imports[s]), NEW k \in Keys
    PROVE  /\ Sightings(s, k) \in SUBSET (1 .. N)
           /\ MeasuredMisses(s, k) \in SUBSET (1 .. N)
           /\ page.rows[k] > 0 => /\ Sightings(s, k)' = Sightings(s, k) \cup {N + 1}
                                  /\ Sightings(s, k)' # {} /\ MeasuredMisses(s, k)' = {}
           /\ ~(page.rows[k] > 0) => Sightings(s, k)' = Sightings(s, k)
           /\ ~(page.rows[k] > 0) /\ Sightings(s, k) # {}
                => MeasuredMisses(s, k)' = MeasuredMisses(s, k) \cup
                                              (IF Measurable(s, page) THEN {N + 1} ELSE {})
<1> DEFINE q == imports[s]
<1> DEFINE p == imports'[s]
<1> DEFINE seen == Sightings(s, k)
<1> DEFINE seenNow == {n \in 1 .. N + 1 : p[n].rows[k] > 0}
<1>1. /\ DOMAIN q = 1 .. N /\ DOMAIN p = 1 .. N + 1
      /\ \A n \in 1 .. N : p[n] = q[n]
      /\ p[N + 1] = row
    BY FiledLast
<1>01. row.rows = page.rows
    BY DEF Filed
<1>2. /\ \A n \in 1 .. N : Measured(s, n)' <=> Measured(s, n)
      /\ Measured(s, N + 1)' <=> Measurable(s, page)
    BY FiledMeasured
<1> HIDE DEF p, q
<1>3. seen = {n \in 1 .. N : q[n].rows[k] > 0}
    BY <1>1 DEF Sightings, q
<1>4. Sightings(s, k)' = seenNow
    <2>1. Sightings(s, k)' = {n \in DOMAIN p : p[n].rows[k] > 0}
        BY DEF Sightings, p
    <2> QED BY <1>1, <2>1
<1>5. \A n \in 1 .. N + 1 : n \in 1 .. N \/ n = N + 1
    OBVIOUS
<1>6. \A n \in 1 .. N : n \in 1 .. N + 1
    OBVIOUS
<1>7. N + 1 \in 1 .. N + 1 /\ N + 1 \notin 1 .. N
    OBVIOUS
<1>8. seenNow = seen \cup (IF page.rows[k] > 0 THEN {N + 1} ELSE {})
    BY <1>01, <1>1, <1>3, <1>5, <1>6, <1>7
<1>9. MeasuredMisses(s, k) = {n \in 1 .. N : n > Max(seen) /\ Measured(s, n)}
    BY <1>1 DEF MeasuredMisses, q
<1>10. MeasuredMisses(s, k)' = {n \in 1 .. N + 1 : n > Max(seenNow) /\ Measured(s, n)'}
    <2>1. MeasuredMisses(s, k)' = {n \in DOMAIN p : n > Max(Sightings(s, k)') /\ Measured(s, n)'}
        BY DEF MeasuredMisses, p
    <2> QED BY <1>1, <1>4, <2>1
<1>11. seen \in SUBSET (1 .. N) /\ MeasuredMisses(s, k) \in SUBSET (1 .. N)
    BY <1>3, <1>9
<1>12. CASE page.rows[k] > 0
    <2>1. N + 1 \in seenNow /\ seenNow \in SUBSET (1 .. N + 1)
        BY <1>7, <1>8, <1>12
    <2>2. Max(seenNow) = N + 1
        <3> HIDE DEF seenNow
        <3> QED BY <2>1, LastIsNewest
    <2>3. \A n \in 1 .. N + 1 : ~(n > N + 1)
        OBVIOUS
    <2>4. MeasuredMisses(s, k)' = {}
        BY <1>10, <2>2, <2>3
    <2>5. seenNow = seen \cup {N + 1}
        BY <1>8, <1>12
    <2> QED BY <1>4, <1>11, <1>12, <2>1, <2>4, <2>5
<1>13. CASE ~(page.rows[k] > 0)
    <2>1. seenNow = seen
        BY <1>8, <1>13
    <2>2. ASSUME seen # {}
          PROVE  MeasuredMisses(s, k)' = MeasuredMisses(s, k) \cup
                                            (IF Measurable(s, page) THEN {N + 1} ELSE {})
        <3>1. Max(seen) \in 1 .. N
            <4> HIDE DEF seen
            <4> QED BY <1>11, <2>2, Largest
        <3>2. N + 1 > Max(seen)
            BY <3>1
        <3> DEFINE top == Max(seen)
        <3>3. MeasuredMisses(s, k)' = {n \in 1 .. N + 1 : n > top /\ Measured(s, n)'}
            BY <1>10, <2>1
        <3>4. MeasuredMisses(s, k) = {n \in 1 .. N : n > top /\ Measured(s, n)}
            BY <1>9
        <3> HIDE DEF top, seen, seenNow
        <3> QED BY <1>2, <1>5, <1>6, <1>7, <3>2, <3>3, <3>4 DEF top
    <2> QED BY <1>4, <1>11, <1>13, <2>1, <2>2
<1> QED BY <1>12, <1>13

\* What is listed after the others is not the first of them.
LEMMA FirstStays ==
    ASSUME NEW n \in Nat, NEW T \in SUBSET (1 .. n)
    PROVE  /\ T # {} => Min(T \cup {n + 1}) = Min(T) /\ Min(T) \in 1 .. n
           /\ Min({n + 1}) = n + 1
<1>1. ASSUME NEW x \in T, \A y \in T : x <= y
      PROVE  Min(T \cup {n + 1}) = x /\ Min(T) = x
    <2>1. /\ x \in T \cup {n + 1} /\ x \in 1 .. n
          /\ \A y \in T \cup {n + 1} : x <= y /\ y \in Nat
        BY <1>1
    <2> DEFINE more == T \cup {n + 1}
    <2> HIDE DEF more
    <2>2. \E m \in more : \A y \in more : m <= y
        BY <2>1 DEF more
    <2>3. Min(more) \in more /\ \A y \in more : Min(more) <= y
        BY <2>2 DEF Min
    <2>3a. \E m \in T : \A y \in T : m <= y
        BY <1>1
    <2>3b. Min(T) \in T /\ \A y \in T : Min(T) <= y
        BY <2>3a DEF Min
    <2>4. x \in Nat /\ x \in more /\ \A m \in more : m \in Nat /\ x <= m
        BY <2>1 DEF more
    <2> DEFINE ofMore == Min(more)
    <2> DEFINE ofT == Min(T)
    <2>4a. ofMore \in Nat /\ x <= ofMore /\ ofMore <= x
        BY <2>3, <2>4
    <2>4b. ofT \in Nat /\ x <= ofT /\ ofT <= x
        <3>1. ofT \in more
            BY <2>3b DEF more
        <3> QED BY <2>3b, <2>4, <3>1
    <2> HIDE DEF ofMore, ofT
    <2>5. ofMore = x
        BY <2>4, <2>4a
    <2>6. ofT = x
        BY <2>4, <2>4b
    <2> QED BY <2>5, <2>6 DEF more, ofMore, ofT
<1>2. T # {} => \E x \in T : \A y \in T : x <= y
    <2>1. T \subseteq Nat
        OBVIOUS
    <2> QED BY <2>1, SmallestNumber
<1>3. Min({n + 1}) = n + 1
    BY DEF Min
<1> QED BY <1>1, <1>2, <1>3

\* The links an import is the first to list: those of the others as ever, and of
\* this one whoever is listed and never was.
LEMMA FiledBorn ==
    ASSUME BeliefInv, NEW s \in Subjects, NEW page \in Imports, NEW row, Filed(s, page, row),
           NEW N \in Nat, N = Len(imports[s])
    PROVE  /\ \A n \in 1 .. N : Born(s, n)' = Born(s, n)
           /\ Born(s, N + 1)' = {k \in Keys : page.rows[k] > 0 /\ Sightings(s, k) = {}}
<1>1. ASSUME NEW k \in Keys
      PROVE  /\ \A n \in 1 .. N : k \in Born(s, n)' <=> k \in Born(s, n)
             /\ k \in Born(s, N + 1)' <=> (page.rows[k] > 0 /\ Sightings(s, k) = {})
    <2> DEFINE seen == Sightings(s, k)
    <2> DEFINE seen2 == Sightings(s, k)'
    <2>1. /\ seen \in SUBSET (1 .. N)
          /\ page.rows[k] > 0 => seen2 = seen \cup {N + 1}
          /\ ~(page.rows[k] > 0) => seen2 = seen
        BY FiledSightings
    <2>2. \A n : /\ k \in Born(s, n)' <=> (seen2 # {} /\ Min(seen2) = n)
                 /\ k \in Born(s, n) <=> (seen # {} /\ Min(seen) = n)
        BY DEF Born
    <2> HIDE DEF seen, seen2
    <2>3. /\ seen # {} => Min(seen \cup {N + 1}) = Min(seen) /\ Min(seen) \in 1 .. N
          /\ Min({N + 1}) = N + 1
        BY <2>1, FirstStays
    <2>4. N + 1 \notin 1 .. N
        OBVIOUS
    <2>5. CASE seen = {} /\ page.rows[k] > 0
        <3>1. seen2 = {N + 1}
            BY <2>1, <2>5
        <3> QED BY <2>2, <2>3, <2>4, <2>5, <3>1 DEF seen
    <2>6. CASE seen # {} /\ page.rows[k] > 0
        <3>1. seen2 = seen \cup {N + 1} /\ seen2 # {}
            BY <2>1, <2>6
        <3> QED BY <2>2, <2>3, <2>4, <2>6, <3>1 DEF seen
    <2>7. CASE ~(page.rows[k] > 0)
        <3>1. seen2 = seen
            BY <2>1, <2>7
        <3>2. seen # {} => Min(seen) # N + 1
            BY <2>3, <2>4
        <3>3. \A n : k \in Born(s, n)' <=> k \in Born(s, n)
            BY <2>2, <3>1
        <3>4. ~(k \in Born(s, N + 1)')
            BY <2>2, <3>1, <3>2
        <3> QED BY <2>7, <3>3, <3>4
    <2>8. seen = {} \/ seen # {}
        OBVIOUS
    <2> QED BY <2>5, <2>6, <2>7, <2>8
<1>2. \A n : Born(s, n) \subseteq Keys /\ Born(s, n)' \subseteq Keys
    BY DEF Born
<1>3. ASSUME NEW n \in 1 .. N PROVE Born(s, n)' = Born(s, n)
    <2> DEFINE before == Born(s, n)
    <2> DEFINE after == Born(s, n)'
    <2>1. before \subseteq Keys /\ after \subseteq Keys /\ \A k \in Keys : k \in after <=> k \in before
        BY <1>1, <1>2
    <2> HIDE DEF before, after
    <2>2. after = before
        BY <2>1
    <2> QED BY <2>2 DEF before, after
<1>4. Born(s, N + 1)' = {k \in Keys : page.rows[k] > 0 /\ Sightings(s, k) = {}}
    <2> DEFINE after == Born(s, N + 1)'
    <2>1. after \subseteq Keys
          /\ \A k \in Keys : k \in after <=> (page.rows[k] > 0 /\ Sightings(s, k) = {})
        BY <1>1, <1>2
    <2> HIDE DEF after
    <2>2. after = {k \in Keys : page.rows[k] > 0 /\ Sightings(s, k) = {}}
        BY <2>1
    <2> QED BY <2>2 DEF after
<1> QED BY <1>3, <1>4

\* What a measured miss makes of a link that is not lost yet.
LEMMA MissCounts ==
    ASSUME NEW n \in 0 .. MISSES_BEFORE_LOST - 1, NEW link,
           link \in Beliefs, link.status # "lost", link.misses = n,
           NEW next, next = Miss(link, TRUE)
    PROVE  /\ next \in Beliefs
           /\ next.misses = n + 1
           /\ n + 1 < MISSES_BEFORE_LOST => next.status = "missing_pending"
           /\ n + 1 >= MISSES_BEFORE_LOST => next.status = "lost"
<1> DEFINE now == IF n + 1 >= MISSES_BEFORE_LOST THEN "lost" ELSE "missing_pending"
<1>1. next = [status |-> now, misses |-> n + 1]
    BY DEF Miss
<1>2. n + 1 \in 0 .. MISSES_BEFORE_LOST
    BY Constants
<1>3. now \in {"active"} \cup Absent
    BY DEF Absent
<1>4. /\ n + 1 < MISSES_BEFORE_LOST => now = "missing_pending"
      /\ n + 1 >= MISSES_BEFORE_LOST => now = "lost"
    BY Constants
<1> HIDE DEF now
<1>5. next.status = now /\ next.misses = n + 1
    BY ONLY <1>1
<1>6. next \in Beliefs
    BY ONLY <1>1, <1>2, <1>3 DEF Beliefs
<1> QED BY ONLY <1>4, <1>5, <1>6

\* A page that is filed leaves every link of its subject believed as its pages
\* tell: listed, missed once more, or untouched by what is not measurable.
LEMMA DiffBelieved ==
    ASSUME BeliefInv, NEW s \in Subjects, NEW page \in Imports, NEW row, Filed(s, page, row),
           NEW k \in Keys, links'[s][k] = Diffed(s, page)[k]
    PROVE  links'[s][k] \in Beliefs \cup {None} /\ Believed(s, k)'
<1> DEFINE N == Len(imports[s])
<1> DEFINE before == links[s][k]
<1> DEFINE after == links'[s][k]
<1> DEFINE missed == MeasuredMisses(s, k)
<1> DEFINE n == Cardinality(missed)
<1> DEFINE n2 == Cardinality(MeasuredMisses(s, k)')
<1> DEFINE seen == Sightings(s, k)
<1> DEFINE seen2 == Sightings(s, k)'
<1>1. N \in Nat
    BY FiledLast
<1>2. /\ seen \in SUBSET (1 .. N) /\ missed \in SUBSET (1 .. N)
      /\ page.rows[k] > 0 => seen2 # {} /\ MeasuredMisses(s, k)' = {}
      /\ ~(page.rows[k] > 0) => seen2 = seen
      /\ ~(page.rows[k] > 0) /\ seen # {}
           => MeasuredMisses(s, k)' = missed \cup (IF Measurable(s, page) THEN {N + 1} ELSE {})
    BY <1>1, FiledSightings
<1>3. /\ before \in Beliefs \cup {None}
      /\ seen = {} => before = None
      /\ seen # {} =>
           /\ before # None
           /\ n = 0 => before = Sighted
           /\ n \in 1 .. MISSES_BEFORE_LOST - 1 => before.status = "missing_pending" /\ before.misses = n
           /\ n >= MISSES_BEFORE_LOST => before.status = "lost"
    BY DEF BeliefInv, Believed
<1>4. Believed(s, k)' <=>
        IF seen2 = {} THEN after = None
        ELSE /\ after # None
             /\ n2 = 0 => after = Sighted
             /\ n2 \in 1 .. MISSES_BEFORE_LOST - 1 => after.status = "missing_pending" /\ after.misses = n2
             /\ n2 >= MISSES_BEFORE_LOST => after.status = "lost"
    BY DEF Believed
<1>5. /\ page.rows[k] > 0 => after = Sighted
      /\ ~(page.rows[k] > 0) /\ before = None => after = None
      /\ ~(page.rows[k] > 0) /\ before # None => after = Miss(before, Measurable(s, page))
    BY DEF Diffed
<1>6. Sighted \in Beliefs /\ Sighted # None /\ Sighted.status = "active" /\ Sighted.misses = 0
    BY Constants DEF Sighted, Beliefs
<1>7. IsFiniteSet(missed) /\ n \in Nat
    <2>1. 1 \in Int /\ N \in Int
        BY <1>1
    <2>2. IsFiniteSet(1 .. N)
        BY <2>1, FS_Interval
    <2>3. IsFiniteSet(missed)
        BY <1>2, <2>2, FS_Subset
    <2> QED BY <2>3, FS_CardinalityType
<1> HIDE DEF N, before, after, missed, n, n2, seen, seen2
<1>8. CASE page.rows[k] > 0
    <2>1. n2 = 0
        BY <1>2, <1>8, FS_EmptySet DEF n2
    <2> QED BY <1>2, <1>4, <1>5, <1>6, <1>8, <2>1, Constants DEF after
<1>9. CASE ~(page.rows[k] > 0) /\ seen = {}
    <2>1. after = None /\ seen2 = {}
        BY <1>2, <1>3, <1>5, <1>9
    <2> QED BY <1>4, <2>1 DEF after
<1>10. CASE ~(page.rows[k] > 0) /\ seen # {} /\ ~Measurable(s, page)
    <2>1. n2 = n /\ seen2 # {}
        <3>1. MeasuredMisses(s, k)' = missed
            BY <1>2, <1>10
        <3> QED BY <1>2, <1>10, <3>1 DEF n, n2
    <2>2. after = before
        BY <1>3, <1>5, <1>10 DEF Miss
    <2> QED BY <1>3, <1>4, <1>10, <2>1, <2>2 DEF after
<1>11. CASE ~(page.rows[k] > 0) /\ seen # {} /\ Measurable(s, page)
    <2>1. seen2 # {} /\ MeasuredMisses(s, k)' = missed \cup {N + 1} /\ N + 1 \notin missed
        BY <1>1, <1>2, <1>11
    <2>2. n2 = n + 1
        BY <1>7, <2>1, FS_AddElement DEF n, n2
    <2>3. after = Miss(before, TRUE) /\ before \in Beliefs
        <3>1. after = Miss(before, Measurable(s, page)) /\ before \in Beliefs
            BY <1>3, <1>5, <1>11
        <3> QED BY <1>11, <3>1 DEF Miss
    <2>4. CASE n < MISSES_BEFORE_LOST
        <3>1. before.status # "lost" /\ before.misses = n
            <4>1. n = 0 \/ n \in 1 .. MISSES_BEFORE_LOST - 1
                BY <1>7, <2>4, Constants
            <4> QED BY <1>3, <1>6, <1>11, <4>1
        <3>2. n \in 0 .. MISSES_BEFORE_LOST - 1
            BY <1>7, <2>4, Constants
        <3>3. /\ after \in Beliefs /\ after.misses = n + 1
              /\ n + 1 < MISSES_BEFORE_LOST => after.status = "missing_pending"
              /\ n + 1 >= MISSES_BEFORE_LOST => after.status = "lost"
            BY <2>3, <3>1, <3>2, MissCounts
        <3>4. after # None
            BY <3>3, Constants
        <3>5. n2 # 0 /\ (n2 \in 1 .. MISSES_BEFORE_LOST - 1 => n + 1 < MISSES_BEFORE_LOST)
            BY <1>7, <2>2, Constants
        <3> QED BY <1>4, <2>1, <2>2, <3>3, <3>4, <3>5 DEF after
    <2>5. CASE n >= MISSES_BEFORE_LOST
        <3>1. before.status = "lost"
            BY <1>3, <1>11, <2>5
        <3>2. after = before
            BY <2>3, <3>1 DEF Miss
        <3>3. n2 # 0 /\ ~(n2 \in 1 .. MISSES_BEFORE_LOST - 1)
            BY <1>7, <2>2, <2>5, Constants
        <3> QED BY <1>3, <1>4, <1>11, <2>1, <3>1, <3>2, <3>3 DEF after
    <2> QED BY <1>7, <2>4, <2>5, Constants
<1> QED BY <1>8, <1>9, <1>10, <1>11

\* The history's last word on a link follows the belief.
LEMMA EventTold ==
    ASSUME NEW before \in Beliefs \cup {None}, NEW kind \in Events \cup {None}, NEW after \in Beliefs \cup {None},
           (before = None) <=> (kind = None),
           before # None => ((before.status = "lost") <=> (kind = "lost")),
           before # None => after # None,
           before # None /\ before.status = "lost" => after.status \in {"lost", "active"},
           before = None /\ after # None => after.status = "active"
    PROVE  /\ Event(before, after, kind) \in Events \cup {None}
           /\ (after = None) <=> (Event(before, after, kind) = None)
           /\ after # None => ((after.status = "lost") <=> (Event(before, after, kind) = "lost"))
<1>1. "new" # None /\ "regained" # None /\ "lost" # None
    BY Constants DEF Events
<1>2. CASE before = None
    <2>1. EventNow(before, after) = IF after = None THEN None ELSE "new"
        BY <1>2 DEF EventNow
    <2> QED BY <1>1, <1>2, <2>1 DEF Event, Events
<1>3. CASE before # None
    <2>1. EventNow(before, after) = IF before.status \in Absent /\ after.status = "active" THEN "regained"
                                    ELSE IF before.status # "lost" /\ after.status = "lost" THEN "lost"
                                    ELSE None
        BY <1>3 DEF EventNow
    <2> QED BY <1>1, <1>3, <2>1 DEF Event, Events, Absent
<1> QED BY <1>2, <1>3

\* Beliefs are about a subject's own pages.
LEMMA OtherSubjects ==
    ASSUME NEW t \in Subjects, NEW k \in Keys, imports'[t] = imports[t], links'[t] = links[t],
           Believed(t, k)
    PROVE  Believed(t, k)'
<1>1. Sightings(t, k)' = Sightings(t, k)
    BY DEF Sightings
<1>2. MeasuredMisses(t, k)' = MeasuredMisses(t, k)
    BY DEF MeasuredMisses, Measured, Newest, Latest, Sightings
<1> QED BY <1>1, <1>2 DEF Believed

LEMMA ImportKeeps ==
    ASSUME BeliefInv, NEW s \in Subjects, NEW page \in Imports,
           NEW created \in Nat, Import(s, page, created)
    PROVE  BeliefInv'
<1> DEFINE now == Diffed(s, page)
<1>1. PICK row : Filed(s, page, row)
    BY ImportFiles
<1>2. /\ imports' \in [Subjects -> Seq(ImportRows)]
      /\ \A t \in Subjects \ {s} : imports'[t] = imports[t]
    BY <1>1, FiledLast
<1>3. /\ links \in [Subjects -> [Keys -> Beliefs \cup {None}]]
      /\ last \in [Subjects -> [Keys -> Events \cup {None}]]
      /\ EventsAgree
    BY DEF BeliefInv
<1>4. now = [k \in Keys |-> now[k]]
    BY DEF Diffed
<1>5. /\ page.coverage # "failed" =>
            /\ links' = [links EXCEPT ![s] = now]
            /\ last' = [last EXCEPT ![s] = [k \in Keys |-> Event(links[s][k], now[k], last[s][k])]]
      /\ page.coverage = "failed" => links' = links /\ last' = last
    BY DEF Import
<1>6. page.coverage = "failed" => \A k \in Keys : now[k] = links[s][k]
    <2> SUFFICES ASSUME page.coverage = "failed", NEW k \in Keys PROVE now[k] = links[s][k]
        OBVIOUS
    <2>1. ~(page.rows[k] > 0)
        BY ImportsTyped
    <2>2. ~Measurable(s, page)
        BY DEF Measurable
    <2> QED BY <2>1, <2>2 DEF Diffed, Miss
<1> HIDE DEF now
<1>7. \A k \in Keys : links'[s][k] = now[k]
    BY <1>3, <1>5, <1>6
<1>8. \A t \in Subjects \ {s} : links'[t] = links[t] /\ last'[t] = last[t]
    BY <1>3, <1>5
<1>9. \A k \in Keys : links'[s][k] \in Beliefs \cup {None} /\ Believed(s, k)'
    BY <1>1, <1>7, DiffBelieved DEF now
<1>10. links' \in [Subjects -> [Keys -> Beliefs \cup {None}]]
    <2>1. \A k \in Keys : now[k] \in Beliefs \cup {None}
        BY <1>7, <1>9
    <2>2. now \in [Keys -> Beliefs \cup {None}]
        BY <1>4, <2>1
    <2> QED BY <1>3, <1>5, <2>2
<1>11. ASSUME NEW k \in Keys
       PROVE  /\ last'[s][k] \in Events \cup {None}
              /\ (links'[s][k] = None) <=> (last'[s][k] = None)
              /\ links'[s][k] # None => ((links'[s][k].status = "lost") <=> (last'[s][k] = "lost"))
    <2> DEFINE before == links[s][k]
    <2> DEFINE after == now[k]
    <2>1. /\ before \in Beliefs \cup {None} /\ after \in Beliefs \cup {None}
          /\ last[s][k] \in Events \cup {None}
          /\ (before = None) <=> (last[s][k] = None)
          /\ before # None => ((before.status = "lost") <=> (last[s][k] = "lost"))
        BY <1>3, <1>7, <1>9 DEF EventsAgree
    <2>2. CASE page.coverage = "failed"
        BY <1>5, <1>7, <2>1, <2>2
    <2>3. CASE page.coverage # "failed"
        <3>1. last'[s][k] = Event(before, after, last[s][k])
            BY <1>3, <1>5, <2>3
        <3>2. after = IF page.rows[k] > 0 THEN Sighted
                      ELSE IF before = None THEN None ELSE Miss(before, Measurable(s, page))
            BY DEF now, Diffed
        <3>3. Sighted # None /\ Sighted.status = "active"
            BY Constants DEF Sighted, Beliefs
        <3>4. before # None /\ before.status = "lost" => after.status \in {"lost", "active"}
            BY <3>2, <3>3 DEF Miss
        <3>5. before = None /\ after # None => after.status = "active"
            BY <3>2, <3>3
        <3>6. before # None => after # None
            <4>1. CASE page.rows[k] > 0
                BY <3>2, <3>3, <4>1
            <4>2. CASE before # None /\ ~(page.rows[k] > 0)
                <5>1. Sightings(s, k) # {}
                    BY <4>2 DEF BeliefInv, Believed
                <5>2. Sightings(s, k)' = Sightings(s, k)
                    BY <1>1, <4>2, FiledLast, FiledSightings
                <5> QED BY <1>7, <1>9, <5>1, <5>2 DEF Believed
            <4> QED BY <4>1, <4>2
        <3> HIDE DEF before, after
        <3>7. /\ Event(before, after, last[s][k]) \in Events \cup {None}
              /\ (after = None) <=> (Event(before, after, last[s][k]) = None)
              /\ after # None => ((after.status = "lost") <=> (Event(before, after, last[s][k]) = "lost"))
            BY <2>1, <3>4, <3>5, <3>6, EventTold
        <3>8. links'[s][k] = after
            BY <1>7 DEF after
        <3> QED BY <3>1, <3>7, <3>8
    <2> QED BY <2>2, <2>3
<1>12. last' \in [Subjects -> [Keys -> Events \cup {None}]]
    <2>1. CASE page.coverage = "failed"
        BY <1>3, <1>5, <2>1
    <2>2. CASE page.coverage # "failed"
        <3> DEFINE told == [k \in Keys |-> Event(links[s][k], now[k], last[s][k])]
        <3>1. last' = [last EXCEPT ![s] = told]
            BY <1>5, <2>2
        <3>2. last'[s] = told
            BY <1>3, <3>1
        <3>3. \A k \in Keys : told[k] \in Events \cup {None}
            BY <1>11, <3>2
        <3>4. told \in [Keys -> Events \cup {None}]
            BY <3>3
        <3> HIDE DEF told
        <3> QED BY <1>3, <3>1, <3>4
    <2> QED BY <2>1, <2>2
<1>13. \A t \in Subjects, k \in Keys : Believed(t, k)'
    <2>1. \A t \in Subjects \ {s} : \A k \in Keys : Believed(t, k)'
        BY <1>2, <1>8, OtherSubjects DEF BeliefInv
    <2> QED BY <1>9, <2>1
<1>14. EventsAgree'
    <2>1. \A t \in Subjects \ {s} : \A k \in Keys :
              /\ (links'[t][k] = None) <=> (last'[t][k] = None)
              /\ links'[t][k] # None => ((links'[t][k].status = "lost") <=> (last'[t][k] = "lost"))
        BY <1>3, <1>8 DEF EventsAgree
    <2> QED BY <1>11, <2>1 DEF EventsAgree
<1> QED BY <1>2, <1>10, <1>12, <1>13, <1>14 DEF BeliefInv

-----------------------------------------------------------------------------
\* Scores and bands.

LEMMA LeastOfTwo ==
    ASSUME NEW a \in Int, NEW b \in Int
    PROVE  Min({a, b}) = IF a < b THEN a ELSE b
<1>1. \E x \in {a, b} : \A y \in {a, b} : x <= y
    OBVIOUS
<1>2. Min({a, b}) \in {a, b} /\ \A y \in {a, b} : Min({a, b}) <= y
    BY <1>1 DEF Min
<1> QED BY <1>2

\* What is clamped lies between 0 and the limit, and stays as it is there.
LEMMA Clamped ==
    ASSUME NEW n \in Nat, NEW x \in Int
    PROVE  Max({0, Min({n, x})}) = IF x < 0 THEN 0 ELSE IF x > n THEN n ELSE x
<1> DEFINE least == Min({n, x})
<1>1. least \in Int /\ least = IF n < x THEN n ELSE x
    BY LeastOfTwo
<1> HIDE DEF least
<1>2. \E y \in {0, least} : \A z \in {0, least} : y >= z
    BY <1>1
<1>3. Max({0, least}) \in {0, least} /\ \A z \in {0, least} : Max({0, least}) >= z
    BY <1>2 DEF Max
<1>4. Max({0, least}) = IF least < 0 THEN 0 ELSE least
    BY <1>1, <1>3
<1> QED BY <1>1, <1>4 DEF least

LEMMA SharesFit ==
    \A x : x \in Int => Share(x) \in 0 .. 10000 /\ (x >= 1003 => Share(x) >= 1003)
<1> TAKE x
<1> HAVE x \in Int
<1>1. Share(x) = IF x < 0 THEN 0 ELSE IF x > 10000 THEN 10000 ELSE x
    BY Clamped DEF Share
<1> QED BY <1>1

\* The active links, the domains they come from, and those of one domain.
LEMMA LiveCounted ==
    ASSUME NEW live \in SUBSET Keys
    PROVE  /\ IsFiniteSet(live) /\ IsFiniteSet(Followed(live)) /\ IsFiniteSet(Linking(live))
           /\ Cardinality(live) \in 0 .. Cardinality(Keys) /\ Cardinality(Keys) \in Nat
           /\ Cardinality(Followed(live)) \in 0 .. Cardinality(live)
           /\ Cardinality(Linking(live)) \in 0 .. Cardinality(Keys)
           /\ (live = {}) <=> (Cardinality(live) = 0)
           /\ (live = {}) <=> (Cardinality(Linking(live)) = 0)
           /\ Linking(live) \subseteq RefDomains
<1>1. IsFiniteSet(live) /\ Cardinality(live) <= Cardinality(Keys)
    BY Constants, FS_Subset
<1>2. Followed(live) \in SUBSET live
    BY DEF Followed
<1>3. IsFiniteSet(Followed(live)) /\ Cardinality(Followed(live)) <= Cardinality(live)
    BY <1>1, <1>2, FS_Subset
<1>4. IsFiniteSet(Linking(live)) /\ Cardinality(Linking(live)) <= Cardinality(live)
    <2> DEFINE referrer == [k \in live |-> DomainOf[k]]
    <2>1. referrer \in Surjection(live, Linking(live))
        BY DEF Surjection, Linking
    <2> HIDE DEF referrer
    <2> QED BY <1>1, <2>1, FS_Surjection
<1>5. /\ Cardinality(live) \in Nat /\ Cardinality(Keys) \in Nat
      /\ Cardinality(Followed(live)) \in Nat /\ Cardinality(Linking(live)) \in Nat
    BY <1>1, <1>3, <1>4, Constants, FS_CardinalityType
<1>6. (live = {}) <=> (Linking(live) = {})
    BY DEF Linking
<1>7. (live = {}) <=> (Cardinality(live) = 0)
    BY <1>1, FS_EmptySet
<1>8. (Linking(live) = {}) <=> (Cardinality(Linking(live)) = 0)
    BY <1>4, FS_EmptySet
<1>9. Linking(live) \subseteq RefDomains
    BY DEF Linking, RefDomains
<1> QED BY <1>1, <1>3, <1>4, <1>5, <1>6, <1>7, <1>8, <1>9

LEMMA FromCounted ==
    ASSUME NEW live \in SUBSET Keys, NEW d
    PROVE  /\ LinksFrom(d, live) \in SUBSET Keys
           /\ (d \in Linking(live)) <=> (Cardinality(LinksFrom(d, live)) # 0)
<1>1. LinksFrom(d, live) \in SUBSET Keys
    BY DEF LinksFrom
<1>2. (d \in Linking(live)) <=> (LinksFrom(d, live) # {})
    BY DEF LinksFrom, Linking
<1> QED BY <1>1, <1>2, LiveCounted

\* What a sum of natural numbers is.
LEMMA SumOver ==
    ASSUME NEW S, IsFiniteSet(S), NEW f \in [S -> Nat]
    PROVE  SumFunction(f) \in Nat /\ SumFunction(f) = SumFunctionOnSet(f, S)
<1>1. SumFunction(f) = SumFunctionOnSet(f, S)
    BY DEF SumFunction
<1>2. \A x \in S : f[x] \in Nat
    OBVIOUS
<1>3. SumFunctionOnSet(f, S) \in Nat
    BY <1>2, SumZero
<1> QED BY <1>1, <1>3

LEMMA QualityFits == ASSUME NEW live \in SUBSET Keys PROVE Quality(live) \in 0 .. 10000
<1> DEFINE authority(d) == DomainTrait[d].authority
<1> DEFINE squares == [d \in Linking(live) |-> authority(d) * authority(d)]
<1> DEFINE cubes == [d \in Linking(live) |-> authority(d) * authority(d) * authority(d)]
<1> DEFINE weights == SumFunction(squares)
<1> DEFINE weighted == SumFunction(cubes)
<1>1. \A n \in Nat : n * n \in Nat /\ n * n * n \in Nat
    OBVIOUS
<1>2. \A d \in Linking(live) : authority(d) \in Nat
    BY LiveCounted, ScoreAssumption
<1> HIDE DEF authority
<1>3. squares \in [Linking(live) -> Nat] /\ cubes \in [Linking(live) -> Nat]
    BY <1>1, <1>2
<1>4. weights \in Nat /\ weighted \in Nat
    <2> HIDE DEF squares, cubes
    <2> QED BY <1>3, LiveCounted, SumOver
<1> DEFINE ratio == (100 * weighted) \div weights
<1>5. Quality(live) = IF weights = 0 THEN 0 ELSE Share(ratio)
    BY DEF Quality, authority
<1> HIDE DEF weights, weighted
<1>6. weights # 0 => ratio \in Int
    BY <1>4
<1> HIDE DEF ratio
<1> QED BY <1>5, <1>6, SharesFit

LEMMA TrustFits == ASSUME NEW live \in SUBSET Keys PROVE Trust(live) \in 0 .. 10000
<1> DEFINE n == Cardinality(live)
<1> DEFINE follow == Cardinality(Followed(live))
<1>1. n \in Nat /\ follow \in Nat /\ (live # {} => n # 0)
    BY LiveCounted
<1> DEFINE ratio == (10000 * follow) \div n
<1>2. Trust(live) = IF live = {} THEN 0 ELSE Share(ratio)
    BY DEF Trust
<1> HIDE DEF n, follow
<1>3. live # {} => ratio \in Int
    BY <1>1
<1> HIDE DEF ratio
<1> QED BY <1>2, <1>3, SharesFit

LEMMA DiversityFits == ASSUME NEW live \in SUBSET Keys PROVE Diversity(live) \in 0 .. 10000
<1> DEFINE n == Cardinality(Linking(live))
<1> DEFINE c == Cardinality(live)
<1> DEFINE of(d) == Cardinality(LinksFrom(d, live))
<1> DEFINE each == [d \in Linking(live) |-> of(d) * of(d)]
<1> DEFINE squares == SumFunction(each)
<1>1. \A m \in Nat : m * m \in Nat /\ (m # 0 => m * m # 0)
    OBVIOUS
<1>2. n \in Nat /\ c \in Nat /\ (n > 1 => c # 0)
    BY LiveCounted
<1>3. \A d \in Linking(live) : of(d) \in Nat
    <2> SUFFICES ASSUME NEW d \in Linking(live) PROVE of(d) \in Nat
        OBVIOUS
    <2>1. LinksFrom(d, live) \in SUBSET Keys
        BY FromCounted
    <2> QED BY <2>1, LiveCounted
<1> HIDE DEF of
<1>4. each \in [Linking(live) -> Nat]
    BY <1>1, <1>3
<1>5. squares \in Nat
    <2> HIDE DEF each
    <2> QED BY <1>4, LiveCounted, SumOver
<1> DEFINE ratio == (10000 * (c * c - squares) * n) \div ((c * c) * (n - 1))
<1>6. Diversity(live) = IF n <= 1 THEN 0 ELSE Share(ratio)
    BY DEF Diversity, of
<1> HIDE DEF n, c, squares
<1> DEFINE total == c * c
<1>7. total \in Nat /\ (n > 1 => total # 0)
    BY <1>1, <1>2
<1> HIDE DEF total
<1>8. n > 1 => total * (n - 1) \in Nat /\ total * (n - 1) # 0
    <2> DEFINE m == n - 1
    <2> SUFFICES ASSUME n > 1 PROVE total * m \in Nat /\ total * m # 0
        OBVIOUS
    <2>1. m \in Nat /\ m # 0 /\ total \in Nat /\ total # 0
        BY <1>2, <1>7
    <2> HIDE DEF m
    <2> QED BY <2>1
<1>9. 10000 * (total - squares) * n \in Int
    <2> DEFINE left == total - squares
    <2>1. left \in Int
        BY <1>5, <1>7
    <2> HIDE DEF left
    <2>2. 10000 * left \in Int
        BY <2>1
    <2> DEFINE most == 10000 * left
    <2> HIDE DEF most
    <2>3. most * n \in Int
        BY <1>2, <2>2 DEF most
    <2> QED BY <2>3 DEF most, left
<1>10. \A a \in Int, b \in Nat : b # 0 => a \div b \in Int
    OBVIOUS
<1>11. n > 1 => ratio \in Int
    <2> DEFINE a == 10000 * (total - squares) * n
    <2> DEFINE b == total * (n - 1)
    <2>1. a \in Int /\ (n > 1 => b \in Nat /\ b # 0)
        BY <1>8, <1>9
    <2>2. ratio = a \div b
        BY DEF total
    <2> HIDE DEF a, b, ratio
    <2> QED BY <1>10, <2>1, <2>2
<1> HIDE DEF ratio
<1>12. ~(n <= 1) => n > 1
    BY <1>2
<1> QED BY <1>6, <1>11, <1>12, SharesFit

LEMMA ReachFits ==
    ASSUME NEW n \in 0 .. Cardinality(Keys)
    PROVE  Reach(n) \in 0 .. 10000 /\ (n # 0 => Reach(n) >= 1003) /\ Reach(0) = 0
<1>1. Reach(0) = 0
    BY DEF Reach
<1>2. CASE n # 0
    <2>1. n \in 1 .. Cardinality(Keys)
        BY <1>2, LiveCounted, Constants, FS_CardinalityType
    <2>2. Log(n) \in Nat /\ Log(n) >= 1003
        BY <2>1, ScoreAssumption
    <2> DEFINE log == Log(n)
    <2>3. Reach(n) = Share(log)
        BY <1>2 DEF Reach
    <2>4. Share(log) \in 0 .. 10000 /\ Share(log) >= 1003
        <3>1. log \in Int /\ log >= 1003
            BY <2>2
        <3> HIDE DEF log
        <3> QED BY <3>1, SharesFit
    <2> HIDE DEF log
    <2>5. Reach(n) \in 0 .. 10000 /\ Reach(n) >= 1003
        BY <2>3, <2>4
    <2> QED BY <1>1, <2>5
<1> QED BY <1>1, <1>2

\* An authority is a score, and nil for a profile without a link only.
LEMMA AuthorityFits ==
    ASSUME NEW live \in SUBSET Keys
    PROVE  Authority(live) \in 0 .. 100 /\ ((Authority(live) = 0) <=> (live = {}))
<1> DEFINE n == Cardinality(Linking(live))
<1> DEFINE r == Reach(n)
<1> DEFINE q == Quality(live)
<1> DEFINE t == Trust(live)
<1> DEFINE v == Diversity(live)
<1>1. n \in 0 .. Cardinality(Keys) /\ ((live = {}) <=> (n = 0))
    BY LiveCounted
<1>2. r \in 0 .. 10000 /\ (n # 0 => r >= 1003) /\ (n = 0 => r = 0)
    <2>1. r \in 0 .. 10000 /\ (n # 0 => r >= 1003) /\ Reach(0) = 0
        <3> HIDE DEF n
        <3> QED BY <1>1, ReachFits
    <2>2. n = 0 => r = 0
        BY <2>1
    <2> HIDE DEF n, r
    <2> QED BY <2>1, <2>2
<1>2a. q \in 0 .. 10000
    BY QualityFits
<1>2b. t \in 0 .. 10000
    BY TrustFits
<1>2c. v \in 0 .. 10000
    BY DiversityFits
<1>3. live = {} => q = 0 /\ t = 0 /\ v = 0
    <2> SUFFICES ASSUME live = {} PROVE q = 0 /\ t = 0 /\ v = 0
        OBVIOUS
    <2>1. Linking(live) = {}
        BY DEF Linking
    <2>2. \A f : SumFunction([d \in {} |-> f[d]]) = 0
        BY SumEmpty DEF SumFunction
    <2>3. q = 0
        <3> DEFINE authority(d) == DomainTrait[d].authority
        <3> DEFINE squares == [d \in Linking(live) |-> authority(d) * authority(d)]
        <3>1. DOMAIN squares = {}
            BY <2>1
        <3>2. SumFunction(squares) = SumFunctionOnSet(squares, {})
            BY <3>1 DEF SumFunction
        <3>3. SumFunction(squares) = 0
            BY <3>2, SumEmpty
        <3> QED BY <3>3 DEF Quality
    <2>4. t = 0
        BY DEF Trust
    <2>5. v = 0
        BY <1>1 DEF Diversity
    <2> QED BY <2>3, <2>4, <2>5
<1> DEFINE points == 40 * r + 30 * q + 20 * t + 10 * v
<1> DEFINE score == (points + 5000) \div 10000
<1>4. Authority(live) = Max({0, Min({100, score})})
    BY DEF Authority
<1> HIDE DEF n, r, q, t, v
<1>5. points \in Nat /\ (n # 0 => points >= 40120) /\ (live = {} => points = 0)
    BY <1>1, <1>2, <1>2a, <1>2b, <1>2c, <1>3
<1> HIDE DEF points
<1>6. score \in Int /\ (n # 0 => score >= 1) /\ (live = {} => score = 0)
    BY <1>1, <1>5
<1> HIDE DEF score
<1>7. Authority(live) = IF score < 0 THEN 0 ELSE IF score > 100 THEN 100 ELSE score
    BY <1>4, <1>6, Clamped
<1> QED BY <1>1, <1>6, <1>7

\* The reasons given for a domain, and what they add up to.
LEMMA ToxicityFits ==
    ASSUME NEW d, NEW live
    PROVE  /\ Cardinality(Reasons(d, live)) \in Nat
           /\ ToxicityOf(d, live) \in 0 .. 100
           /\ ToxicityOf(d, live) <= 30 * Cardinality(Reasons(d, live))
<1> DEFINE given == Reasons(d, live)
<1> DEFINE n == Cardinality(given)
<1> DEFINE sum == SumFunctionOnSet(Weight, given)
<1>1. \A reason \in DOMAIN Weight : Weight[reason] \in 0 .. 30
    BY DEF Weight
<1>2. IsFiniteSet(DOMAIN Weight)
    <2>1. DOMAIN Weight = {"vendor_spam_score"} \cup {"subnet_cluster"} \cup {"near_zero_authority"}
                            \cup {"money_anchor_density"} \cup {"suspicious_tld"}
        BY DEF Weight
    <2>2. IsFiniteSet({"vendor_spam_score"})
        BY FS_Singleton
    <2>3. IsFiniteSet({"vendor_spam_score"} \cup {"subnet_cluster"})
        BY <2>2, FS_AddElement
    <2>4. IsFiniteSet({"vendor_spam_score"} \cup {"subnet_cluster"} \cup {"near_zero_authority"})
        BY <2>3, FS_AddElement
    <2>5. IsFiniteSet({"vendor_spam_score"} \cup {"subnet_cluster"} \cup {"near_zero_authority"}
                        \cup {"money_anchor_density"})
        BY <2>4, FS_AddElement
    <2> QED BY <2>1, <2>5, FS_AddElement
<1>3. given \subseteq DOMAIN Weight
    BY DEF Reasons
<1> HIDE DEF given
<1>4. IsFiniteSet(given) /\ n \in Nat
    BY <1>2, <1>3, FS_Subset, FS_CardinalityType
<1>5. \A reason \in given : Weight[reason] \in Nat /\ Weight[reason] <= 30
    BY <1>1, <1>3
<1>6. sum \in Nat
    BY <1>4, <1>5, SumZero
<1>7. sum <= 30 * n
    <2> DEFINE most == [reason \in given |-> 30]
    <2>1. \A reason \in given : most[reason] = 30 /\ Weight[reason] \in Int /\ most[reason] \in Int
                               /\ Weight[reason] <= most[reason]
        BY <1>5
    <2> HIDE DEF most
    <2>2. sum <= SumFunctionOnSet(most, given)
        BY <1>4, <2>1, SumAtMost
    <2>3. SumFunctionOnSet(most, given) = 30 * n
        BY <1>4, <2>1, SumOfEqual
    <2> QED BY <2>2, <2>3
<1>8. ToxicityOf(d, live) = Min({100, sum})
    BY DEF ToxicityOf, given
<1> HIDE DEF sum, n
<1>9. Min({100, sum}) = IF 100 < sum THEN 100 ELSE sum
    BY <1>6, LeastOfTwo
<1> QED BY <1>4, <1>6, <1>7, <1>8, <1>9 DEF n, given

LEMMA AssessedAs ==
    ASSUME NEW d, NEW live, NEW row, row = Assessed(d, live)
    PROVE  /\ row.links = Cardinality(LinksFrom(d, live))
           /\ row.follow = Cardinality(Followed(LinksFrom(d, live)))
           /\ row.band = BandOf(ToxicityOf(d, live))
BY DEF Assessed

\* What a domain with links is given is a row of the rollups, with links.
LEMMA AssessedFits ==
    ASSUME NEW live \in SUBSET Keys, NEW d \in Linking(live)
    PROVE  /\ Assessed(d, live) \in Rollups /\ Assessed(d, live) # None
           /\ Assessed(d, live).links > 0
<1> DEFINE from == LinksFrom(d, live)
<1> DEFINE toxicity == ToxicityOf(d, live)
<1>1. from \in SUBSET Keys /\ Cardinality(from) # 0
    BY FromCounted
<1>2. /\ Cardinality(from) \in 0 .. Cardinality(Keys) /\ Cardinality(Keys) \in Nat
      /\ Cardinality(Followed(from)) \in 0 .. Cardinality(from)
    BY <1>1, LiveCounted
<1>3. toxicity \in 0 .. 100
    BY ToxicityFits
<1>4. BandOf(toxicity) \in {"low", "medium", "high"}
    BY DEF BandOf
<1>5. Assessed(d, live) = [links |-> Cardinality(from), follow |-> Cardinality(Followed(from)),
                           score |-> toxicity, band |-> BandOf(toxicity)]
    BY DEF Assessed
<1> HIDE DEF from, toxicity
<1>6. Cardinality(Followed(from)) \in 0 .. Cardinality(Keys)
    BY <1>2
<1>7. Assessed(d, live) \in Rollups
    BY <1>2, <1>3, <1>4, <1>5, <1>6 DEF Rollups
<1>8. Assessed(d, live).links > 0
    BY <1>1, <1>2, <1>5
<1> QED BY <1>7, <1>8, Constants

LEMMA UnlinkedFits == Unlinked \in Rollups /\ Unlinked # None
<1>1. 0 \in 0 .. Cardinality(Keys)
    BY Constants, FS_CardinalityType
<1>2. Unlinked \in Rollups
    BY <1>1 DEF Unlinked, Rollups
<1> QED BY <1>2, Constants

-----------------------------------------------------------------------------
\* The pages of a profile whose rollups were taken from what is believed.

LEMMA ReferrersLink ==
    ASSUME NEW s \in Subjects, Profiled(s)
    PROVE  ReferringDomains(s) = Linking(Inventory(s, "active"))
<1> DEFINE live == Inventory(s, "active")
<1>1. live \in SUBSET Keys
    BY DEF Inventory
<1>2. \A d \in RefDomains : IF d \in Linking(live) THEN rollups[s][d] = Assessed(d, live)
                             ELSE rollups[s][d] \in {None, Unlinked}
    BY DEF Profiled
<1> HIDE DEF live
<1>3. \A d \in Linking(live) : d \in RefDomains /\ Assessed(d, live) # None /\ Assessed(d, live).links > 0
    BY <1>1, AssessedFits, LiveCounted
<1>4. Unlinked.links = 0
    BY DEF Unlinked
<1>5. \A d \in RefDomains : (rollups[s][d] # None /\ rollups[s][d].links > 0) <=> d \in Linking(live)
    BY <1>2, <1>3, <1>4
<1> QED BY <1>3, <1>5 DEF ReferringDomains, live

\* The rollups add up to the links they were taken from.
LEMMA RollupsAddUp ==
    ASSUME NEW s \in Subjects, Profiled(s), NEW live, live = Inventory(s, "active")
    PROVE  /\ Cardinality(live) = SumFunction([d \in ReferringDomains(s) |-> rollups[s][d].links])
           /\ Cardinality(Followed(live)) = SumFunction([d \in ReferringDomains(s) |-> rollups[s][d].follow])
<1> DEFINE linking == Linking(live)
<1> DEFINE counts == [d \in linking |-> rollups[s][d].links]
<1> DEFINE follows == [d \in linking |-> rollups[s][d].follow]
<1> DEFINE from == [d \in linking |-> LinksFrom(d, live)]
<1> DEFINE followed == [d \in linking |-> Followed(LinksFrom(d, live))]
<1>1. live \in SUBSET Keys
    BY DEF Inventory
<1>2. ReferringDomains(s) = linking
    BY ReferrersLink
<1>3. /\ IsFiniteSet(live) /\ IsFiniteSet(Followed(live)) /\ IsFiniteSet(linking)
      /\ linking \subseteq RefDomains
    BY <1>1, LiveCounted
<1>4. \A d \in linking : rollups[s][d] = Assessed(d, live)
    BY <1>3 DEF Profiled
<1>5. \A d \in linking : counts[d] = Cardinality(from[d]) /\ follows[d] = Cardinality(followed[d])
    BY <1>4, AssessedAs
<1>6. /\ \A d \in linking : \A k : k \in from[d] <=> (k \in live /\ DomainOf[k] = d)
      /\ \A k \in live : DomainOf[k] \in linking
    BY DEF LinksFrom, Linking
<1>7. /\ \A d \in linking : \A k : k \in followed[d] <=> (k \in Followed(live) /\ DomainOf[k] = d)
      /\ \A k \in Followed(live) : DomainOf[k] \in linking
    BY DEF LinksFrom, Linking, Followed
<1>8. SumFunction(counts) = SumFunctionOnSet(counts, linking)
      /\ SumFunction(follows) = SumFunctionOnSet(follows, linking)
    BY DEF SumFunction
<1>9. /\ SumFunction([d \in ReferringDomains(s) |-> rollups[s][d].links]) = SumFunction(counts)
      /\ SumFunction([d \in ReferringDomains(s) |-> rollups[s][d].follow]) = SumFunction(follows)
    BY <1>2
<1> HIDE DEF linking, counts, follows, from, followed
<1>10. SumFunctionOnSet(counts, linking) = Cardinality(live)
    BY <1>3, <1>5, <1>6, CountByPart
<1>11. SumFunctionOnSet(follows, linking) = Cardinality(Followed(live))
    BY <1>3, <1>5, <1>7, CountByPart
<1> QED BY <1>8, <1>9, <1>10, <1>11

\* Each of the domains that link has one band.
LEMMA BandsAddUp ==
    ASSUME NEW s \in Subjects, Profiled(s)
    PROVE  LET bands == ToxicityBands(s) IN
           Cardinality(ReferringDomains(s)) = bands["low"] + bands["medium"] + bands["high"]
<1> DEFINE live == Inventory(s, "active")
<1> DEFINE all == ReferringDomains(s)
<1> DEFINE low == {d \in all : rollups[s][d].band = "low"}
<1> DEFINE medium == {d \in all : rollups[s][d].band = "medium"}
<1> DEFINE high == {d \in all : rollups[s][d].band = "high"}
<1>1. live \in SUBSET Keys
    BY DEF Inventory
<1>2. all = Linking(live)
    BY ReferrersLink
<1>3. IsFiniteSet(all) /\ all \subseteq RefDomains
    BY <1>1, <1>2, LiveCounted
<1>4. \A d \in all : rollups[s][d] = Assessed(d, live)
    BY <1>2, <1>3 DEF Profiled
<1>5. \A d \in all : rollups[s][d].band \in {"low", "medium", "high"}
    <2>1. \A score : BandOf(score) \in {"low", "medium", "high"}
        BY DEF BandOf
    <2> QED BY <1>4, <2>1, AssessedAs
<1>6. LET bands == ToxicityBands(s) IN
      /\ bands["low"] = Cardinality(low) /\ bands["medium"] = Cardinality(medium)
      /\ bands["high"] = Cardinality(high)
    BY DEF ToxicityBands
<1> HIDE DEF all
<1>7. /\ all = (low \cup medium) \cup high
      /\ low \cap medium = {} /\ (low \cup medium) \cap high = {}
    BY <1>5
<1>8. low \in SUBSET all /\ medium \in SUBSET all /\ high \in SUBSET all
    OBVIOUS
<1> HIDE DEF low, medium, high
<1>9. IsFiniteSet(low) /\ IsFiniteSet(medium) /\ IsFiniteSet(high)
    BY <1>3, <1>8, FS_Subset
<1>10. IsFiniteSet(low \cup medium) /\ Cardinality(low \cup medium) = Cardinality(low) + Cardinality(medium)
    BY <1>7, <1>9, CountApart
<1>11. Cardinality((low \cup medium) \cup high) = Cardinality(low \cup medium) + Cardinality(high)
    BY <1>7, <1>9, <1>10, CountApart
<1> QED BY <1>6, <1>7, <1>10, <1>11 DEF all

\* The imports a profile has heard of.
LEMMA HeardTyped ==
    ASSUME BeliefInv, NEW s \in Subjects
    PROVE  /\ IsFiniteSet(Heard(s)) /\ IsFiniteSet(Velocity(s)) /\ Velocity(s) \subseteq Heard(s)
           /\ \A n \in Heard(s) : /\ imports[s][n].created \in Nat
                                 /\ imports[s][n].new \in Nat /\ imports[s][n].lost \in Nat
<1>1. imports[s] \in Seq(ImportRows)
    BY DEF BeliefInv
<1>2. Len(imports[s]) \in Nat /\ DOMAIN imports[s] = 1 .. Len(imports[s])
    BY <1>1, LenProperties
<1>3. \A n \in 1 .. Len(imports[s]) : imports[s][n] \in ImportRows
    BY <1>1
<1>4. Heard(s) \in SUBSET (1 .. Len(imports[s])) /\ Velocity(s) \in SUBSET Heard(s)
    BY <1>2 DEF Heard, Velocity
<1>5. IsFiniteSet(1 .. Len(imports[s]))
    <2>1. 1 \in Int /\ Len(imports[s]) \in Int
        BY <1>2
    <2> QED BY <2>1, FS_Interval
<1>6. IsFiniteSet(Heard(s)) /\ IsFiniteSet(Velocity(s))
    BY <1>4, <1>5, FS_Subset
<1> QED BY <1>3, <1>4, <1>6 DEF ImportRows

\* Velocity adds up to the links its imports were the first to list.
LEMMA GainedBorn ==
    ASSUME BeliefInv, NEW s \in Subjects, Profiled(s)
    PROVE  Gained(s) = Cardinality(FirstListed(s))
<1> DEFINE shown == Velocity(s)
<1> DEFINE listed == FirstListed(s)
<1> DEFINE counts == [n \in shown |-> imports[s][n].new]
<1> DEFINE part == [n \in shown |-> Born(s, n)]
<1> DEFINE first == [k \in listed |-> Min(Sightings(s, k))]
<1>1. IsFiniteSet(shown) /\ shown \subseteq Heard(s)
    BY HeardTyped
<1>2. listed \in SUBSET Keys
    BY DEF FirstListed, Born
<1>3. IsFiniteSet(listed)
    BY <1>2, Constants, FS_Subset
<1>4. \A k : k \in listed <=> \E n \in shown : k \in Born(s, n)
    BY DEF FirstListed
<1>5. \A n : \A k : k \in Born(s, n) <=> (k \in Keys /\ Sightings(s, k) # {} /\ Min(Sightings(s, k)) = n)
    BY DEF Born
<1>6. \A n \in shown : counts[n] = Cardinality(part[n])
    BY <1>1 DEF Profiled
<1>7. Gained(s) = SumFunctionOnSet(counts, shown)
    BY DEF Gained, SumFunction
<1> HIDE DEF shown, listed
<1>8. \A k \in listed : first[k] \in shown
    BY <1>4, <1>5
<1>9. \A n \in shown : \A k : k \in part[n] <=> (k \in listed /\ first[k] = n)
    <2> SUFFICES ASSUME NEW n \in shown, NEW k
                 PROVE  k \in Born(s, n) <=> (k \in listed /\ first[k] = n)
        OBVIOUS
    <2>1. k \in listed => first[k] = Min(Sightings(s, k))
        OBVIOUS
    <2> HIDE DEF first
    <2> QED BY <1>4, <1>5, <2>1
<1> HIDE DEF counts, part, first
<1>10. SumFunctionOnSet(counts, shown) = Cardinality(listed)
    BY <1>1, <1>3, <1>6, <1>8, <1>9, CountByPart
<1> QED BY <1>7, <1>10 DEF listed

\* While velocity shows every import it tells of all they lost.
LEMMA ShedShown ==
    ASSUME BeliefInv, NEW s \in Subjects, Cardinality(Heard(s)) <= VelocityLimit
    PROVE  Shed(s) = ShedEver(s)
<1>1. ASSUME NEW n \in Heard(s) PROVE n \in Velocity(s)
    <2> DEFINE later == {m \in Heard(s) : imports[s][m].created > imports[s][n].created}
    <2>1. n \notin later /\ later \in SUBSET Heard(s)
        BY HeardTyped
    <2>2. IsFiniteSet(Heard(s)) /\ Cardinality(Heard(s)) \in Nat
        BY HeardTyped, FS_CardinalityType
    <2> HIDE DEF later
    <2>3. later \subseteq Heard(s) \ {n}
        BY <2>1
    <2>4. /\ IsFiniteSet(Heard(s) \ {n})
          /\ Cardinality(Heard(s) \ {n}) = Cardinality(Heard(s)) - 1
        BY <1>1, <2>2, FS_RemoveElement
    <2>5. Cardinality(later) <= Cardinality(Heard(s) \ {n}) /\ Cardinality(later) \in Nat
        BY <2>3, <2>4, FS_Subset, FS_CardinalityType
    <2>6. Cardinality(later) < VelocityLimit
        BY <2>2, <2>4, <2>5, Constants
    <2> QED BY <1>1, <2>6 DEF Velocity, later
<1>2. Velocity(s) = Heard(s)
    BY <1>1, HeardTyped
<1> QED BY <1>2 DEF Shed, ShedEver

\* A profile that is taken from what is believed is told the same on every page.
LEMMA ProfileTold ==
    ASSUME ProfileInv, BeliefInv
    PROVE  HeaderAgrees
<1> SUFFICES ASSUME NEW s \in Subjects
             PROVE  LET header == Summary(s)
                        live == Inventory(s, "active")
                        bands == ToxicityBands(s)
                    IN
                    /\ header.backlinks = SumFunction([d \in ReferringDomains(s) |-> rollups[s][d].links])
                    /\ header.follow = SumFunction([d \in ReferringDomains(s) |-> rollups[s][d].follow])
                    /\ header.domains = bands["low"] + bands["medium"] + bands["high"]
                    /\ InOrder(s) =>
                          /\ header.authority # None => header.authority = Authority(live)
                          /\ (header.authority \in {None, 0}) <=> (live = {})
                    /\ Gained(s) = Cardinality(FirstListed(s))
                    /\ Cardinality(Heard(s)) <= VelocityLimit => Shed(s) >= header.lost
                    /\ \A d \in RefDomains : rollups[s][d] # None /\ d \notin ReferringDomains(s)
                          => rollups[s][d].band = None
    BY DEF HeaderAgrees
<1> DEFINE live == Inventory(s, "active")
<1> DEFINE header == Summary(s)
<1>1. Profiled(s)
    BY DEF ProfileInv
<1>2. live \in SUBSET Keys
    BY DEF Inventory
<1>3. /\ header.backlinks = Cardinality(live)
      /\ header.follow = Cardinality(Followed(live))
      /\ header.domains = Cardinality(ReferringDomains(s))
      /\ header.lost = Cardinality(Inventory(s, "lost"))
      /\ header.authority = IF Heard(s) = {} THEN None ELSE imports[s][Newest(s, Heard(s))].authority
    BY DEF Summary
<1>4. Authority(live) \in 0 .. 100 /\ ((Authority(live) = 0) <=> (live = {}))
    BY <1>2, AuthorityFits
<1>5. InOrder(s) => header.authority = IF Heard(s) = {} THEN None ELSE Authority(live)
    BY <1>1, <1>3 DEF Profiled, InOrder
<1>6. Heard(s) = {} => live = {}
    BY <1>1 DEF Profiled, Inventory
<1>7. \A d \in RefDomains : rollups[s][d] # None /\ d \notin ReferringDomains(s)
          => rollups[s][d].band = None
    <2>1. ReferringDomains(s) = Linking(live)
        BY <1>1, ReferrersLink
    <2>2. Unlinked.band = None
        BY DEF Unlinked
    <2> QED BY <1>1, <2>1, <2>2 DEF Profiled
<1>8. /\ Gained(s) = Cardinality(FirstListed(s))
      /\ Cardinality(Heard(s)) <= VelocityLimit => Shed(s) >= Cardinality(Inventory(s, "lost"))
    BY <1>1, GainedBorn, ShedShown DEF Profiled
<1>9. /\ Cardinality(live) = SumFunction([d \in ReferringDomains(s) |-> rollups[s][d].links])
      /\ Cardinality(Followed(live)) = SumFunction([d \in ReferringDomains(s) |-> rollups[s][d].follow])
    BY <1>1, RollupsAddUp
<1>10. LET bands == ToxicityBands(s) IN
       Cardinality(ReferringDomains(s)) = bands["low"] + bands["medium"] + bands["high"]
    BY <1>1, BandsAddUp
<1>11. InOrder(s) => (header.authority # None => header.authority = Authority(live))
    BY <1>5
<1>12. InOrder(s) => ((header.authority \in {None, 0}) <=> (live = {}))
    BY <1>4, <1>5, <1>6, Constants
<1> HIDE DEF live, header
<1> QED BY <1>3, <1>7, <1>8, <1>9, <1>10, <1>11, <1>12 DEF live, header

\* The advice that is taken from such a profile.
LEMMA AdviceGiven ==
    ASSUME ProfileInv
    PROVE  AdviceCautious
<1> SUFFICES ASSUME NEW s \in Subjects
             PROVE  LET live == Inventory(s, "active") IN
                    /\ \A d \in Disavowed(s, "medium") : Cardinality(Reasons(d, live)) > 1
                    /\ \A d \in Disavowed(s, "high") : Cardinality(Reasons(d, live)) > 2
                    /\ Linking(live) \cap UnlinkedMentions(s) = {}
    BY DEF AdviceCautious
<1> DEFINE live == Inventory(s, "active")
<1>1. Profiled(s)
    BY DEF ProfileInv
<1>2. live \in SUBSET Keys
    BY DEF Inventory
<1>3. ReferringDomains(s) = Linking(live) /\ Linking(live) \subseteq RefDomains
    BY <1>1, <1>2, ReferrersLink, LiveCounted
<1>4. \A d \in ReferringDomains(s) : rollups[s][d].band = BandOf(ToxicityOf(d, live))
    <2>1. \A d \in ReferringDomains(s) : rollups[s][d] = Assessed(d, live)
        BY <1>1, <1>3 DEF Profiled
    <2> QED BY <2>1, AssessedAs
<1> HIDE DEF live
<1>5. ASSUME NEW d \in ReferringDomains(s)
      PROVE  /\ rollups[s][d].band \in {"high", "medium"} => Cardinality(Reasons(d, live)) > 1
             /\ rollups[s][d].band = "high" => Cardinality(Reasons(d, live)) > 2
    <2> DEFINE n == Cardinality(Reasons(d, live))
    <2> DEFINE score == ToxicityOf(d, live)
    <2>1. n \in Nat /\ score \in 0 .. 100 /\ score <= 30 * n
        BY ToxicityFits
    <2>2. rollups[s][d].band = BandOf(score)
        BY <1>4
    <2> HIDE DEF n, score
    <2>3. /\ BandOf(score) \in {"high", "medium"} => score >= 40
          /\ BandOf(score) = "high" => score >= 70
        BY <2>1 DEF BandOf
    <2>4. (score >= 40 => n > 1) /\ (score >= 70 => n > 2)
        BY <2>1
    <2> QED BY <2>2, <2>3, <2>4 DEF n
<1>6. \A d \in Disavowed(s, "medium") : d \in ReferringDomains(s) /\ rollups[s][d].band \in {"high", "medium"}
    BY DEF Disavowed
<1>7. \A d \in Disavowed(s, "high") : d \in ReferringDomains(s) /\ rollups[s][d].band = "high"
    BY DEF Disavowed
<1>8. Linking(live) \cap UnlinkedMentions(s) = {}
    BY <1>3 DEF UnlinkedMentions
<1> QED BY <1>5, <1>6, <1>7, <1>8 DEF live

-----------------------------------------------------------------------------
\* What an import leaves of a profile.

\* The imports that were heard, and what they lost, with the one that is filed.
LEMMA FiledHeard ==
    ASSUME BeliefInv, NEW s \in Subjects, NEW page \in Imports, NEW row, Filed(s, page, row),
           NEW N, N = Len(imports[s])
    PROVE  /\ N \in Nat /\ Heard(s) \in SUBSET (1 .. N)
           /\ Heard(s)' = IF page.coverage = "failed" THEN Heard(s) ELSE Heard(s) \cup {N + 1}
           /\ ShedEver(s) \in Int
           /\ ShedEver(s)' = IF page.coverage = "failed" THEN ShedEver(s) ELSE row.lost + ShedEver(s)
<1> DEFINE q == imports[s]
<1> DEFINE p == imports'[s]
<1> DEFINE h == Heard(s)
<1> DEFINE h2 == Heard(s)'
<1>1. /\ N \in Nat /\ DOMAIN q = 1 .. N /\ DOMAIN p = 1 .. N + 1
      /\ \A n \in 1 .. N : p[n] = q[n]
      /\ p[N + 1] = row
    BY FiledLast
<1>2. row.coverage = page.coverage /\ row.lost \in Nat
    BY DEF Filed, ImportRows
<1>3. IsFiniteSet(h) /\ \A n \in h : q[n].lost \in Nat
    BY HeardTyped
<1>4. h = {n \in DOMAIN q : q[n].coverage # "failed"}
      /\ h2 = {n \in DOMAIN p : p[n].coverage # "failed"}
    BY DEF Heard
<1> DEFINE lost == [n \in h |-> q[n].lost]
<1> DEFINE lost2 == [n \in h2 |-> p[n].lost]
<1>5. ShedEver(s) = SumFunctionOnSet(lost, h) /\ ShedEver(s)' = SumFunctionOnSet(lost2, h2)
    BY DEF ShedEver, SumFunction
<1> HIDE DEF p, q, h, h2
<1>6. h \in SUBSET (1 .. N)
    BY <1>1, <1>4
<1>7. h2 = IF page.coverage = "failed" THEN h ELSE h \cup {N + 1}
    <2>1. \A n \in 1 .. N + 1 : n \in 1 .. N \/ n = N + 1
        BY <1>1
    <2>2. \A n \in 1 .. N : n \in 1 .. N + 1
        BY <1>1
    <2>3. N + 1 \in 1 .. N + 1
        BY <1>1
    <2> QED BY <1>1, <1>2, <1>4, <2>1, <2>2, <2>3
<1>8. N + 1 \notin h /\ h \subseteq h2
    BY <1>1, <1>6, <1>7
<1>9. \A n \in h : lost[n] \in Int /\ lost2[n] = lost[n]
    BY <1>1, <1>3, <1>6, <1>8
<1>10. page.coverage # "failed" => lost2[N + 1] = row.lost
    BY <1>1, <1>7
<1> DEFINE shed == SumFunctionOnSet(lost, h)
<1> HIDE DEF lost, lost2
<1>11. shed \in Int
    BY <1>3, <1>9, SumType
<1>12. SumFunctionOnSet(lost2, h) = shed
    BY <1>3, <1>9, SumSame
<1>13. page.coverage # "failed" => SumFunctionOnSet(lost2, h2) = row.lost + shed
    <2> SUFFICES ASSUME page.coverage # "failed" PROVE SumFunctionOnSet(lost2, h2) = row.lost + shed
        OBVIOUS
    <2>1. /\ \A n \in h : lost2[n] \in Int
          /\ lost2[N + 1] = row.lost /\ lost2[N + 1] \in Int
        BY <1>2, <1>9, <1>10
    <2>2. SumFunctionOnSet(lost2, h \cup {N + 1}) = lost2[N + 1] + SumFunctionOnSet(lost2, h)
        BY <1>3, <1>8, <2>1, SumInsert
    <2> QED BY <1>7, <1>12, <2>1, <2>2
<1> QED BY <1>1, <1>5, <1>6, <1>7, <1>11, <1>12, <1>13 DEF h, h2

\* A profile is about a subject's own imports, links and rollups.
LEMMA OtherProfiles ==
    ASSUME NEW t \in Subjects, imports'[t] = imports[t], links'[t] = links[t],
           rollups'[t] = rollups[t], Profiled(t)
    PROVE  Profiled(t)'
<1>1. \A status : Inventory(t, status)' = Inventory(t, status)
    BY DEF Inventory
<1>2. Heard(t)' = Heard(t) /\ ShedEver(t)' = ShedEver(t)
    BY DEF Heard, ShedEver
<1>3. \A n : Born(t, n)' = Born(t, n)
    BY DEF Born, Sightings
<1> QED BY <1>1, <1>2, <1>3 DEF Profiled

\* The links whose history grows: who appears was never listed, and whoever is lost
\* now was lost before or is lost with this import.
LEMMA ChangesCounted ==
    ASSUME BeliefInv, NEW s \in Subjects, NEW page \in Imports, page.coverage # "failed",
           \A k \in Keys : links'[s][k] = Diffed(s, page)[k]
    PROVE  /\ Becoming(s, page, "new") = {k \in Keys : page.rows[k] > 0 /\ Sightings(s, k) = {}}
           /\ Cardinality(Inventory(s, "lost")')
                <= Cardinality(Becoming(s, page, "lost")) + Cardinality(Inventory(s, "lost"))
<1> DEFINE lost == Inventory(s, "lost")
<1> DEFINE lost2 == Inventory(s, "lost")'
<1> DEFINE leaving == Becoming(s, page, "lost")
<1>1. "new" # None /\ "regained" # None /\ "lost" # None /\ Sighted # None
    BY Constants DEF Events, Sighted, Beliefs
<1>2. \A before, after : (EventNow(before, after) = "new") <=> (before = None /\ after # None)
    BY <1>1 DEF EventNow
<1>3. \A k \in Keys : links[s][k] = None => ((Diffed(s, page)[k] # None) <=> (page.rows[k] > 0))
    BY <1>1 DEF Diffed
<1>4. \A k \in Keys : (links[s][k] = None) <=> (Sightings(s, k) = {})
    BY DEF BeliefInv, Believed
<1>5. Becoming(s, page, "new") = {k \in Keys : page.rows[k] > 0 /\ Sightings(s, k) = {}}
    <2>1. Becoming(s, page, "new") = {k \in Keys : EventNow(links[s][k], Diffed(s, page)[k]) = "new"}
        BY DEF Becoming
    <2> QED BY <1>2, <1>3, <1>4, <2>1
<1>6. leaving = {k \in Keys : EventNow(links[s][k], links'[s][k]) = "lost"}
    BY DEF Becoming
<1>7. \A k \in Keys : links[s][k] = None /\ links'[s][k] # None => links'[s][k].status = "active"
    BY DEF Diffed, Sighted
<1>8. \A k \in Keys : links[s][k] # None /\ links[s][k].status # "lost" /\ links'[s][k].status = "lost"
          => links'[s][k] = None \/ EventNow(links[s][k], links'[s][k]) = "lost"
    BY DEF EventNow
<1>9. lost2 \subseteq leaving \cup lost
    <2>1. lost2 = {k \in Keys : links'[s][k] # None /\ links'[s][k].status = "lost"}
        BY DEF Inventory
    <2>2. lost = {k \in Keys : links[s][k] # None /\ links[s][k].status = "lost"}
        BY DEF Inventory
    <2> QED BY <1>6, <1>7, <1>8, <2>1, <2>2
<1>10. leaving \in SUBSET Keys /\ lost \in SUBSET Keys
    BY <1>6 DEF Inventory
<1> HIDE DEF lost, lost2, leaving
<1>11. IsFiniteSet(leaving) /\ IsFiniteSet(lost)
    BY <1>10, Constants, FS_Subset
<1>12. Cardinality(lost2) <= Cardinality(leaving) + Cardinality(lost)
    <2> DEFINE a == Cardinality(lost2)
    <2> DEFINE b == Cardinality(leaving \cup lost)
    <2> DEFINE m == Cardinality(leaving)
    <2> DEFINE n == Cardinality(lost)
    <2> DEFINE both == Cardinality(leaving \cap lost)
    <2>1. IsFiniteSet(leaving \cup lost) /\ b = m + n - both
        BY <1>11, FS_Union
    <2>2. IsFiniteSet(leaving \cap lost)
        BY <1>11, FS_Intersection
    <2>3. IsFiniteSet(lost2) /\ a <= b
        BY <1>9, <2>1, FS_Subset
    <2>4. a \in Nat /\ b \in Nat /\ m \in Nat /\ n \in Nat /\ both \in Nat
        BY <1>11, <2>1, <2>2, <2>3, FS_CardinalityType
    <2> HIDE DEF a, b, m, n, both
    <2>5. a <= m + n
        BY <2>1, <2>3, <2>4
    <2> QED BY <2>5 DEF a, m, n
<1> QED BY <1>5, <1>12 DEF lost, lost2, leaving

LEMMA ImportProfiles ==
    ASSUME BeliefInv, ProfileInv, NEW s \in Subjects, NEW page \in Imports,
           NEW created \in Nat, Import(s, page, created)
    PROVE  ProfileInv'
<1> DEFINE now == Diffed(s, page)
<1> DEFINE live == Live(now)
<1>1. PICK row : Filed(s, page, row)
    BY ImportFiles
<1>1a. PICK N : N = Len(imports[s])
    OBVIOUS
<1>2. /\ N \in Nat /\ imports'[s][N + 1] = row
      /\ \A n \in 1 .. N : imports'[s][n] = imports[s][n]
      /\ \A t \in Subjects \ {s} : imports'[t] = imports[t]
    BY <1>1, <1>1a, FiledLast
<1>3. BeliefInv'
    BY ImportKeeps
<1>4. /\ links \in [Subjects -> [Keys -> Beliefs \cup {None}]]
      /\ rollups \in [Subjects -> [RefDomains -> Rollups \cup {None}]]
      /\ \A t \in Subjects : Profiled(t)
    BY DEF BeliefInv, ProfileInv
<1>5. /\ page.coverage # "failed" =>
            links' = [links EXCEPT ![s] = now] /\ rollups' = [rollups EXCEPT ![s] = Rolled(s, now)]
      /\ page.coverage = "failed" => links' = links /\ rollups' = rollups
    BY DEF Import
<1>6. \A t \in Subjects \ {s} : links'[t] = links[t] /\ rollups'[t] = rollups[t]
    <2> HIDE DEF now
    <2> QED BY <1>4, <1>5
<1>7. \A t \in Subjects \ {s} : Profiled(t)'
    BY <1>2, <1>4, <1>6, OtherProfiles
<1>8. /\ Heard(s) \in SUBSET (1 .. N)
      /\ Heard(s)' = IF page.coverage = "failed" THEN Heard(s) ELSE Heard(s) \cup {N + 1}
      /\ ShedEver(s) \in Int
      /\ ShedEver(s)' = IF page.coverage = "failed" THEN ShedEver(s) ELSE row.lost + ShedEver(s)
    BY <1>1, <1>1a, FiledHeard
<1>8a. /\ \A n \in 1 .. N : Born(s, n)' = Born(s, n)
       /\ Born(s, N + 1)' = {k \in Keys : page.rows[k] > 0 /\ Sightings(s, k) = {}}
    BY <1>1, <1>1a, <1>2, FiledBorn
<1>8b. \A n \in Heard(s) : imports'[s][n].new = Cardinality(Born(s, n)')
    <2>1. \A n \in Heard(s) : imports[s][n].new = Cardinality(Born(s, n))
        BY <1>4 DEF Profiled
    <2>2. \A n \in Heard(s) : n \in 1 .. N
        BY <1>8
    <2>3. ASSUME NEW n \in Heard(s) PROVE imports'[s][n].new = Cardinality(Born(s, n)')
        <3>1. imports'[s][n] = imports[s][n] /\ Born(s, n)' = Born(s, n)
            BY <1>2, <1>8a, <2>2
        <3> QED BY <2>1, <3>1
    <2> QED BY <2>3
<1>9. CASE page.coverage = "failed"
    <2>1. \A status : Inventory(s, status)' = Inventory(s, status)
        BY <1>5, <1>9 DEF Inventory
    <2>2. Heard(s) # {} => imports'[s][Max(Heard(s))] = imports[s][Max(Heard(s))]
        <3> DEFINE h == Heard(s)
        <3>1. N \in Nat /\ h \in SUBSET (1 .. N)
            BY <1>2, <1>8
        <3> HIDE DEF h
        <3>2. h # {} => Max(h) \in h
            BY <3>1, Largest
        <3> QED BY <1>2, <3>1, <3>2 DEF h
    <2>3. links' = links /\ rollups' = rollups /\ Heard(s)' = Heard(s) /\ ShedEver(s)' = ShedEver(s)
        BY <1>5, <1>8, <1>9
    <2>4. Profiled(s)'
        <3> DEFINE believed == Inventory(s, "active")
        <3>1. /\ \A d \in RefDomains : IF d \in Linking(believed) THEN rollups[s][d] = Assessed(d, believed)
                                      ELSE rollups[s][d] \in {None, Unlinked}
              /\ IF Heard(s) = {} THEN \A k \in Keys : links[s][k] = None
                 ELSE imports[s][Max(Heard(s))].authority = Authority(believed)
              /\ ShedEver(s) >= Cardinality(Inventory(s, "lost"))
            BY <1>4 DEF Profiled
        <3>2. IF Heard(s)' = {} THEN \A k \in Keys : links'[s][k] = None
              ELSE imports'[s][Max(Heard(s)')].authority = Authority(believed)
            BY <2>2, <2>3, <3>1
        <3>3. ShedEver(s)' >= Cardinality(Inventory(s, "lost")')
            BY <2>1, <2>3, <3>1
        <3>3a. \A n \in Heard(s)' : imports'[s][n].new = Cardinality(Born(s, n)')
            BY <1>8b, <2>3
        <3>4. \A d \in RefDomains : IF d \in Linking(believed) THEN rollups'[s][d] = Assessed(d, believed)
                                    ELSE rollups'[s][d] \in {None, Unlinked}
            BY <2>3, <3>1
        <3>5. Inventory(s, "active")' = believed
            BY <2>1
        <3> HIDE DEF believed
        <3> QED BY <3>2, <3>3, <3>3a, <3>4, <3>5 DEF Profiled
    <2> QED BY <1>4, <1>7, <2>3, <2>4 DEF ProfileInv
<1>10. CASE page.coverage # "failed"
    <2>1. links'[s] = now /\ rollups'[s] = Rolled(s, now)
        <3> HIDE DEF now
        <3> QED BY <1>4, <1>5, <1>10
    <2>2. Inventory(s, "active")' = live /\ live \in SUBSET Keys
        BY <2>1 DEF Inventory, Live
    <2> HIDE DEF now, live
    <2>3. \A d \in RefDomains : rollups'[s][d] = IF d \in Linking(live) THEN Assessed(d, live)
                                               ELSE IF rollups[s][d] = None THEN None ELSE Unlinked
        BY <2>1 DEF Rolled, live
    <2>4. rollups' \in [Subjects -> [RefDomains -> Rollups \cup {None}]]
        <3>1. \A d \in RefDomains : rollups'[s][d] \in Rollups \cup {None}
            BY <2>2, <2>3, AssessedFits, UnlinkedFits
        <3>2. rollups'[s] = [d \in RefDomains |-> rollups'[s][d]]
            BY <2>1 DEF Rolled
        <3>3. rollups'[s] \in [RefDomains -> Rollups \cup {None}]
            BY <3>1, <3>2
        <3> QED BY <1>4, <1>5, <1>10, <2>1, <3>3
    <2>5. imports'[s][Max(Heard(s)')].authority = Authority(live) /\ Heard(s)' # {}
        <3> DEFINE h2 == Heard(s)'
        <3>1. N \in Nat /\ h2 \in SUBSET (1 .. N + 1) /\ N + 1 \in h2
            BY <1>2, <1>8, <1>10
        <3> HIDE DEF h2
        <3>2. Max(h2) = N + 1
            BY <3>1, LastIsNewest
        <3>3. row.authority = Authority(live)
            BY <1>1, <1>10 DEF Filed, live, now
        <3> QED BY <1>2, <3>1, <3>2, <3>3 DEF h2
    <2>6. \A k \in Keys : links'[s][k] = Diffed(s, page)[k]
        BY <2>1 DEF now
    <2>9. /\ Becoming(s, page, "new") = {k \in Keys : page.rows[k] > 0 /\ Sightings(s, k) = {}}
          /\ Cardinality(Inventory(s, "lost")')
               <= Cardinality(Becoming(s, page, "lost")) + Cardinality(Inventory(s, "lost"))
        BY <1>10, <2>6, ChangesCounted
    <2>10. row.new = Cardinality(Becoming(s, page, "new")) /\ row.lost = Cardinality(Becoming(s, page, "lost"))
        BY <1>1 DEF Filed
    <2>11. ShedEver(s) >= Cardinality(Inventory(s, "lost"))
        BY <1>4 DEF Profiled
    <2>12. \A n \in Heard(s)' : imports'[s][n].new = Cardinality(Born(s, n)')
        <3> SUFFICES ASSUME NEW n \in Heard(s)'
                     PROVE  imports'[s][n].new = Cardinality(Born(s, n)')
            OBVIOUS
        <3>1. n \in Heard(s) \/ n = N + 1
            BY <1>8, <1>10
        <3>2. Born(s, N + 1)' = Becoming(s, page, "new")
            BY <1>8a, <2>9
        <3>3. imports'[s][N + 1].new = Cardinality(Born(s, N + 1)')
            BY <1>2, <2>10, <3>2
        <3> QED BY <1>8b, <3>1, <3>3
    <2>13. ShedEver(s)' >= Cardinality(Inventory(s, "lost")')
        <3> DEFINE a == Cardinality(Inventory(s, "lost")')
        <3> DEFINE b == Cardinality(Inventory(s, "lost"))
        <3> DEFINE n == Cardinality(Becoming(s, page, "lost"))
        <3> DEFINE shed == ShedEver(s)
        <3>1. a \in Nat /\ b \in Nat /\ n \in Nat
            <4>1. /\ Inventory(s, "lost")' \in SUBSET Keys /\ Inventory(s, "lost") \in SUBSET Keys
                  /\ Becoming(s, page, "lost") \in SUBSET Keys
                BY DEF Inventory, Becoming
            <4>2. /\ IsFiniteSet(Inventory(s, "lost")') /\ IsFiniteSet(Inventory(s, "lost"))
                  /\ IsFiniteSet(Becoming(s, page, "lost"))
                BY <4>1, Constants, FS_Subset
            <4> QED BY <4>2, FS_CardinalityType
        <3>2. a <= n + b /\ shed >= b /\ shed \in Int /\ ShedEver(s)' = n + shed
            BY <1>8, <1>10, <2>9, <2>10, <2>11
        <3> HIDE DEF a, b, n, shed
        <3>3. n + shed >= a
            BY <3>1, <3>2
        <3> QED BY <3>2, <3>3 DEF a
    <2>14. Profiled(s)'
        <3>1. \A d \in RefDomains : IF d \in Linking(live) THEN rollups'[s][d] = Assessed(d, live)
                                   ELSE rollups'[s][d] \in {None, Unlinked}
            BY <2>3
        <3> QED BY <2>2, <2>5, <2>12, <2>13, <3>1 DEF Profiled
    <2> QED BY <1>7, <2>4, <2>14 DEF ProfileInv
<1> QED BY <1>9, <1>10

-----------------------------------------------------------------------------
\* The credit of the refreshes in flight.

LEMMA FlightsCounted ==
    /\ IsFiniteSet(InFlight) /\ Cardinality(InFlight) \in Nat
    /\ Cardinality(InFlight) <= Cardinality(Requests)
    /\ Cardinality(Requests) \in Nat \ {0}
<1>1. InFlight \in SUBSET Requests
    BY DEF InFlight
<1>2. IsFiniteSet(InFlight) /\ Cardinality(InFlight) <= Cardinality(Requests)
    BY <1>1, Constants, FS_Subset
<1>3. Cardinality(Requests) \in Nat /\ Cardinality(Requests) # 0
    BY Constants, FS_CardinalityType, FS_EmptySet
<1> QED BY <1>2, <1>3, FS_CardinalityType

\* The arithmetic of n refreshes in flight at an estimate each.
LEMMA Priced ==
    ASSUME NEW e \in Nat, NEW n \in Nat
    PROVE  e * n \in Nat /\ e * (n + 1) = e * n + e /\ (n > 0 => e * (n - 1) = e * n - e)
OBVIOUS

\* The requests in flight after a step of r.
LEMMA Flights ==
    ASSUME NEW r \in Requests, ThreadInv, NEW thread \in Threads, req' = [req EXCEPT ![r] = thread]
    PROVE  InFlight' = IF thread.pc \in {"calling", "settled"} THEN InFlight \cup {r} ELSE InFlight \ {r}
BY DEF ThreadInv, InFlight, InTransaction

LEMMA ThreadSteps ==
    ASSUME ThreadInv, NEW r \in Requests, NEW thread \in Threads, req' = [req EXCEPT ![r] = thread],
           thread.pc # "idle" => thread.subject \in Subjects,
           credit' \in Int, balance' \in Int, clock' \in Nat, unreserved' \in Nat,
           overlapped' \in BOOLEAN, exact' \in BOOLEAN, work' = work
    PROVE  ThreadInv'
BY DEF ThreadInv

\* A thread that was in flight, or is not, leaves the reservations covered.
LEMMA CreditKept ==
    ASSUME ThreadInv, CreditInv, InFlight' \subseteq InFlight,
           credit' + unreserved' = credit + unreserved, overlapped' = overlapped
    PROVE  CreditInv'
<1>1. IsFiniteSet(InFlight) /\ Cardinality(InFlight) \in Nat /\ Cardinality(Requests) \in Nat
    BY FlightsCounted
<1>2. Cardinality(InFlight') <= Cardinality(InFlight) /\ Cardinality(InFlight') \in Nat
    BY <1>1, FS_Subset, FS_CardinalityType
<1> DEFINE n == Cardinality(InFlight)
<1> DEFINE m == Cardinality(InFlight')
<1> DEFINE all == Cardinality(Requests)
<1> DEFINE reserved == credit + unreserved
<1> DEFINE reserved2 == credit' + unreserved'
<1>3. reserved \in Int /\ reserved2 = reserved
    BY DEF ThreadInv
<1>4. /\ reserved - Estimate * n >= Estimate - Estimate * all
      /\ ~overlapped => reserved >= 0 /\ \A q, r \in InFlight : q = r /\ reserved >= Estimate
    BY DEF CreditInv
<1>5. m \in Nat /\ n \in Nat /\ m <= n /\ Estimate \in Nat /\ all \in Nat
    BY <1>1, <1>2, Constants
<1> HIDE DEF n, m, all, reserved, reserved2
<1>6. Estimate * m <= Estimate * n /\ Estimate * m \in Int /\ Estimate * n \in Int /\ Estimate * all \in Int
    BY <1>5
<1>7. reserved2 - Estimate * m >= Estimate - Estimate * all
    BY <1>3, <1>4, <1>5, <1>6
<1>8. ~overlapped' => reserved2 >= 0 /\ \A q, r \in InFlight' : q = r /\ reserved2 >= Estimate
    BY <1>3, <1>4
<1> QED BY <1>7, <1>8 DEF CreditInv, m, all, reserved2

\* A refresh that reserves finds its estimate in the credit.
LEMMA CreditReserved ==
    ASSUME ThreadInv, NEW r \in Requests, InFlight' = InFlight \cup {r},
           credit >= Estimate, credit' = credit, unreserved' = 0,
           overlapped' = \E q \in Requests : InTransaction(q)
    PROVE  CreditInv'
<1>1. Cardinality(InFlight') <= Cardinality(Requests) /\ Cardinality(InFlight') \in Nat
      /\ Cardinality(Requests) \in Nat
    <2>1. InFlight' \in SUBSET Requests
        BY DEF InFlight
    <2> QED BY <2>1, FlightsCounted, Constants, FS_Subset, FS_CardinalityType
<1> DEFINE m == Cardinality(InFlight')
<1> DEFINE all == Cardinality(Requests)
<1>2. m \in Nat /\ all \in Nat /\ m <= all /\ credit \in Int /\ Estimate \in Nat
    BY <1>1, Constants DEF ThreadInv
<1> HIDE DEF m, all
<1>3. Estimate * m <= Estimate * all /\ Estimate * m \in Int /\ Estimate * all \in Int
    BY <1>2
<1>4. (credit' + unreserved') - Estimate * m >= Estimate - Estimate * all
    BY <1>2, <1>3
<1>5. ~overlapped' => \A q, x \in InFlight' : q = x
    BY DEF InFlight
<1>6. credit' + unreserved' >= 0 /\ credit' + unreserved' >= Estimate
    BY <1>2
<1> QED BY <1>4, <1>5, <1>6 DEF CreditInv, m, all

\* A refresh that commits takes no more than its estimate.
LEMMA CreditSettled ==
    ASSUME ThreadInv, CreditInv, NEW r \in InFlight, InFlight' = InFlight \ {r}, NEW charge \in 0 .. Estimate,
           credit' = credit - charge, unreserved' = unreserved, overlapped' = overlapped
    PROVE  CreditInv'
<1> DEFINE n == Cardinality(InFlight)
<1> DEFINE m == Cardinality(InFlight')
<1> DEFINE all == Cardinality(Requests)
<1> DEFINE reserved == credit + unreserved
<1> DEFINE reserved2 == credit' + unreserved'
<1>1. Estimate \in Nat /\ charge \in Nat /\ charge <= Estimate
    BY Constants
<1>2. reserved \in Int /\ reserved2 = reserved - charge
    BY <1>1 DEF ThreadInv
<1>3. n \in Nat /\ m = n - 1 /\ n > 0 /\ all \in Nat
    <2>1. IsFiniteSet(InFlight) /\ n \in Nat /\ all \in Nat
        BY FlightsCounted
    <2>2. n # 0
        BY <2>1, FS_EmptySet
    <2>3. Cardinality(InFlight \ {r}) = n - 1
        BY <2>1, FS_RemoveElement
    <2> QED BY <2>1, <2>2, <2>3
<1>4. /\ reserved - Estimate * n >= Estimate - Estimate * all
      /\ ~overlapped => \A q, x \in InFlight : q = x /\ reserved >= Estimate
    BY DEF CreditInv
<1> HIDE DEF n, m, all, reserved, reserved2
<1>5. reserved2 - Estimate * m >= Estimate - Estimate * all
    <2>1. Estimate * m = Estimate * n - Estimate
        BY <1>1, <1>3, Priced
    <2>2. Estimate * n \in Int /\ Estimate * all \in Int
        BY <1>1, <1>3
    <2> QED BY <1>1, <1>2, <1>4, <2>1, <2>2
<1>6. ~overlapped' => reserved2 >= 0 /\ InFlight' = {}
    <2> SUFFICES ASSUME ~overlapped' PROVE reserved2 >= 0 /\ InFlight' = {}
        OBVIOUS
    <2>1. reserved >= Estimate /\ \A q, x \in InFlight : q = x
        BY <1>4
    <2> QED BY <1>1, <1>2, <2>1
<1> QED BY <1>5, <1>6 DEF CreditInv, m, all, reserved2

-----------------------------------------------------------------------------
\* The sums that transactions have taken of the ledger.

\* A request that has not summed it yet, or gives up.
LEMMA BalanceKept ==
    ASSUME ThreadInv, BalanceInv, NEW r \in Requests, NEW thread \in Threads, req' = [req EXCEPT ![r] = thread],
           thread.pc # "settled", UNCHANGED <<credit, balance, exact, work>>,
           overtaken' = overtaken \ {r}
    PROVE  BalanceInv'
<1>1. \A x \in Requests : req'[x] = IF x = r THEN thread ELSE req[x]
    BY DEF ThreadInv
<1>2. \A x \in Requests : x # r /\ x \notin overtaken' => x \notin overtaken
    OBVIOUS
<1>3. r \notin Analyses
    BY Constants
<1>4. overtaken' \subseteq Writing'
    <2>1. \A x \in Writing : x # r => x \in Writing'
        BY <1>1 DEF Writing
    <2> QED BY <2>1 DEF BalanceInv
<1>5. \A x \in Requests \ overtaken' :
          req'[x].pc = "settled" => req'[x].after = credit' - Charge(req'[x].heard)
    BY <1>1, <1>2 DEF BalanceInv
<1>6. \A a \in Analyses \ overtaken' :
          work'[a].pc = "settled" => work'[a].after = credit' - work'[a].charge
    BY <1>3 DEF BalanceInv
<1>7. exact' => balance' = credit'
    BY DEF BalanceInv
<1> QED BY <1>4, <1>5, <1>6, <1>7 DEF BalanceInv

\* One that has not summed it is overtaken by nobody.
LEMMA NotWriting ==
    ASSUME BalanceInv
    PROVE  /\ \A r \in Requests : req[r].pc # "settled" => r \notin overtaken
           /\ \A a \in Analyses : work[a].pc # "settled" => a \notin overtaken
<1>1. Requests \cap Analyses = {}
    BY Constants
<1> QED BY <1>1 DEF BalanceInv, Writing

\* One that sums it.
LEMMA BalanceSummed ==
    ASSUME ThreadInv, BalanceInv, NEW r \in Requests, NEW thread \in Threads, req' = [req EXCEPT ![r] = thread],
           thread.pc = "settled", thread.after = credit - Charge(thread.heard),
           UNCHANGED <<credit, balance, exact, work, overtaken>>
    PROVE  BalanceInv'
<1>1. \A x \in Requests : req'[x] = IF x = r THEN thread ELSE req[x]
    BY DEF ThreadInv
<1>2. overtaken' \subseteq Writing'
    <2>1. \A x \in Writing : x \in Writing'
        BY <1>1 DEF Writing
    <2> QED BY <2>1 DEF BalanceInv
<1>3. \A x \in Requests \ overtaken' :
          req'[x].pc = "settled" => req'[x].after = credit' - Charge(req'[x].heard)
    BY <1>1 DEF BalanceInv
<1> QED BY <1>2, <1>3 DEF BalanceInv

\* An entry that is committed is the newest; every other sum misses it.
LEMMA BalanceEntered ==
    ASSUME ThreadInv, NEW who, NEW delta \in Int, NEW after, NewEntry(who, delta, after),
           who \notin overtaken => after = credit + delta,
           Writing' = Writing \ {who}
    PROVE  BalanceInv'
<1>1. /\ credit' = credit + delta /\ balance' = after
      /\ exact' => who \notin overtaken
      /\ overtaken' = Writing'
    BY DEF NewEntry
<1>2. \A r \in Requests : req'[r].pc = "settled" => r \in overtaken'
    BY <1>1 DEF Writing
<1>3. \A a \in Analyses : work'[a].pc = "settled" => a \in overtaken'
    BY <1>1 DEF Writing
<1> QED BY <1>1, <1>2, <1>3 DEF BalanceInv

-----------------------------------------------------------------------------
\* One step at a time.

Inv == ThreadInv /\ BeliefInv /\ ProfileInv /\ CreditInv /\ BalanceInv

\* What no import touches stays believed.
LEMMA BeliefsKept ==
    ASSUME BeliefInv, ProfileInv, UNCHANGED <<imports, links, last, rollups>>
    PROVE  BeliefInv' /\ ProfileInv'
<1>1. \A s \in Subjects, k \in Keys : Believed(s, k)'
    BY OtherSubjects DEF BeliefInv
<1>2. \A s \in Subjects : Profiled(s)'
    BY OtherProfiles DEF ProfileInv
<1>3. BeliefInv'
    BY <1>1 DEF BeliefInv, EventsAgree
<1> QED BY <1>2, <1>3 DEF ProfileInv

LEMMA InitInv == Init => Inv
<1> SUFFICES ASSUME Init PROVE Inv
    OBVIOUS
<1>1. Idle \in Threads /\ Idle.pc = "idle"
    BY DEF Idle, Threads
<1>2. /\ req = [r \in Requests |-> Idle] /\ credit \in Nat /\ balance = credit /\ overlapped = FALSE
      /\ clock = 0 /\ unreserved = 0 /\ overtaken = {} /\ exact = TRUE
      /\ work = [a \in Analyses |-> [pc |-> "finished", charge |-> 0, after |-> 0]]
      /\ imports = [s \in Subjects |-> <<>>]
      /\ links = [s \in Subjects |-> [k \in Keys |-> None]]
      /\ last = [s \in Subjects |-> [k \in Keys |-> None]]
      /\ rollups = [s \in Subjects |-> [d \in RefDomains |-> None]]
    BY Constants DEF Init
<1>3. ThreadInv
    <2>1. req \in [Requests -> Threads] /\ \A r \in Requests : req[r].pc = "idle"
        BY <1>1, <1>2
    <2>2. credit \in Int /\ balance \in Int
        BY <1>2
    <2>3. overlapped \in BOOLEAN /\ exact \in BOOLEAN /\ clock \in Nat /\ unreserved \in Nat
        BY <1>2
    <2>4. work \in [Analyses -> Settlements]
        BY <1>2 DEF Settlements
    <2> QED BY <2>1, <2>2, <2>3, <2>4 DEF ThreadInv
<1>4. BeliefInv
    <2>1. <<>> \in Seq(ImportRows) /\ DOMAIN <<>> = {}
        OBVIOUS
    <2>2. imports \in [Subjects -> Seq(ImportRows)]
        BY <1>2, <2>1
    <2>3. \A s \in Subjects, k \in Keys : Sightings(s, k) = {} /\ links[s][k] = None /\ last[s][k] = None
        BY <1>2, <2>1 DEF Sightings
    <2>4. \A s \in Subjects, k \in Keys : Believed(s, k)
        BY <2>3 DEF Believed
    <2>5. EventsAgree
        BY <2>3 DEF EventsAgree
    <2> QED BY <1>2, <2>2, <2>4, <2>5 DEF BeliefInv
<1>5. CreditInv
    <2>1. InFlight = {}
        BY <1>1, <1>2 DEF InFlight, InTransaction
    <2>2. Cardinality(InFlight) = 0
        BY <2>1, FS_EmptySet
    <2> DEFINE all == Cardinality(Requests)
    <2>3. all \in Nat \ {0} /\ Estimate \in Nat
        BY FlightsCounted, Constants
    <2> HIDE DEF all
    <2>4. Estimate * all >= Estimate /\ Estimate * all \in Int /\ Estimate * 0 = 0
        BY <2>3
    <2>4a. credit + unreserved \in Nat
        BY <1>2
    <2>5. (credit + unreserved) - Estimate * 0 >= Estimate - Estimate * all
        BY <2>3, <2>4, <2>4a
    <2>6. (credit + unreserved) - Estimate * Cardinality(InFlight) >= Estimate - Estimate * Cardinality(Requests)
        BY <2>2, <2>5 DEF all
    <2>7. credit + unreserved >= 0
        BY <1>2
    <2> QED BY <2>1, <2>6, <2>7 DEF CreditInv
<1>5a. BalanceInv
    <2>1. \A r \in Requests : req[r].pc # "settled"
        BY <1>1, <1>2
    <2>2. \A a \in Analyses : work[a].pc # "settled"
        BY <1>2
    <2> QED BY <1>2, <2>1, <2>2 DEF BalanceInv
<1>6. ProfileInv
    <2>1. rollups \in [Subjects -> [RefDomains -> Rollups \cup {None}]]
        BY <1>2
    <2> SUFFICES ASSUME NEW s \in Subjects PROVE Profiled(s)
        BY <2>1 DEF ProfileInv
    <2>2. imports[s] = <<>> /\ (\A k \in Keys : links[s][k] = None) /\ \A d \in RefDomains : rollups[s][d] = None
        BY <1>2
    <2>3. Heard(s) = {}
        BY <2>2 DEF Heard
    <2>4. ShedEver(s) = 0
        BY <2>3, SumEmpty DEF ShedEver, SumFunction
    <2>5. Inventory(s, "active") = {} /\ Inventory(s, "lost") = {}
        BY <2>2 DEF Inventory
    <2>6. Linking({}) = {}
        BY DEF Linking
    <2>7. Cardinality(Inventory(s, "lost")) = 0
        BY <2>5, FS_EmptySet
    <2>8. ShedEver(s) >= Cardinality(Inventory(s, "lost"))
        BY <2>4, <2>7
    <2> QED BY <2>2, <2>3, <2>4, <2>5, <2>6, <2>7, <2>8 DEF Profiled
<1> QED BY <1>3, <1>4, <1>5, <1>5a, <1>6 DEF Inv

LEMMA NextInv ==
    ASSUME Inv, [Next]_vars
    PROVE  Inv'
<1>1. ThreadInv /\ BeliefInv /\ ProfileInv /\ CreditInv /\ BalanceInv
    BY DEF Inv
<1>2. Idle \in Threads /\ Idle.pc = "idle"
    BY DEF Idle, Threads
<1>3. /\ \A r \in Requests : req[r] \in Threads /\ (req[r].pc # "idle" => req[r].subject \in Subjects)
      /\ \A a \in Analyses : work[a] \in Settlements
      /\ credit \in Int /\ balance \in Int /\ clock \in Nat /\ unreserved \in Nat
      /\ overlapped \in BOOLEAN /\ exact \in BOOLEAN
    BY <1>1 DEF ThreadInv
<1>4. ASSUME NEW r \in Requests, NEW s \in Subjects, RequestRefresh(r, s) PROVE Inv'
    <2> DEFINE thread == [Idle EXCEPT !.pc = "asking", !.subject = s, !.created = clock + 1]
    <2>0. clock + 1 \in Nat
        BY <1>3
    <2>1. thread \in Threads /\ thread.pc = "asking" /\ thread.subject = s
        BY <1>2, <2>0 DEF Threads
    <2>2. /\ req' = [req EXCEPT ![r] = thread] /\ req[r].pc = "idle" /\ clock' = clock + 1
          /\ UNCHANGED <<imports, links, last, rollups, credit, balance, overtaken, exact, unreserved,
                         work, overlapped>>
        BY <1>4 DEF RequestRefresh, profile, ledger
    <2> HIDE DEF thread
    <2>3. BeliefInv' /\ ProfileInv'
        BY <1>1, <2>2, BeliefsKept
    <2>4. ThreadInv'
        BY <1>1, <1>3, <2>0, <2>1, <2>2, ThreadSteps
    <2>5. InFlight' \subseteq InFlight
        BY <1>1, <2>1, <2>2, Flights
    <2>6. CreditInv'
        BY <1>1, <2>2, <2>5, CreditKept
    <2>7. overtaken' = overtaken \ {r}
        BY <1>1, <2>2, NotWriting
    <2>8. BalanceInv'
        BY <1>1, <2>1, <2>2, <2>7, BalanceKept
    <2> QED BY <2>3, <2>4, <2>6, <2>8 DEF Inv
<1>5. ASSUME NEW r \in Requests, Reserve(r) PROVE Inv'
    <2> DEFINE thread == [req[r] EXCEPT !.pc = "calling"]
    <2>1. /\ req[r].pc = "asking"
          /\ UNCHANGED <<imports, links, last, rollups, credit, balance, overtaken, exact, work, clock>>
          /\ \/ /\ credit >= Estimate /\ req' = [req EXCEPT ![r].pc = "calling"]
                /\ overlapped' = (\E q \in Requests : InTransaction(q)) /\ unreserved' = 0
             \/ req' = [req EXCEPT ![r] = Idle] /\ UNCHANGED <<overlapped, unreserved>>
        BY <1>5 DEF Reserve, Affordable, End, profile
    <2>2. thread \in Threads /\ thread.pc = "calling" /\ thread.subject = req[r].subject
        BY <1>3 DEF Threads
    <2>3. [req EXCEPT ![r].pc = "calling"] = [req EXCEPT ![r] = thread]
        BY <1>1 DEF ThreadInv
    <2>4. BeliefInv' /\ ProfileInv'
        BY <1>1, <2>1, BeliefsKept
    <2>5. overtaken' = overtaken \ {r}
        BY <1>1, <2>1, NotWriting
    <2> HIDE DEF thread
    <2>6. CASE /\ credit >= Estimate /\ req' = [req EXCEPT ![r] = thread]
               /\ overlapped' = (\E q \in Requests : InTransaction(q)) /\ unreserved' = 0
        <3>1. overlapped' \in BOOLEAN /\ unreserved' \in Nat
            BY <2>6
        <3>2. ThreadInv'
            BY <1>1, <1>3, <2>1, <2>2, <2>6, <3>1, ThreadSteps
        <3>3. InFlight' = InFlight \cup {r}
            BY <1>1, <2>2, <2>6, Flights
        <3>4. CreditInv'
            BY <1>1, <2>1, <2>6, <3>3, CreditReserved
        <3>5. BalanceInv'
            BY <1>1, <2>1, <2>2, <2>5, <2>6, BalanceKept
        <3> QED BY <2>4, <3>2, <3>4, <3>5 DEF Inv
    <2>7. CASE req' = [req EXCEPT ![r] = Idle] /\ UNCHANGED <<overlapped, unreserved>>
        <3>1. ThreadInv'
            BY <1>1, <1>2, <1>3, <2>1, <2>7, ThreadSteps
        <3>2. InFlight' \subseteq InFlight
            BY <1>1, <1>2, <2>7, Flights
        <3>3. CreditInv'
            BY <1>1, <2>1, <2>7, <3>2, CreditKept
        <3>4. BalanceInv'
            BY <1>1, <1>2, <2>1, <2>5, <2>7, BalanceKept
        <3> QED BY <2>4, <3>1, <3>3, <3>4 DEF Inv
    <2> QED BY <2>1, <2>3, <2>6, <2>7
<1>6. ASSUME NEW r \in Requests, FetchAndSettle(r) PROVE Inv'
    <2>1. PICK heard \in BOOLEAN :
              req' = [req EXCEPT ![r].pc = "settled", ![r].heard = heard, ![r].after = Stamped(Charge(heard))]
        BY <1>6, Zenon DEF FetchAndSettle
    <2>2. /\ req[r].pc = "calling"
          /\ UNCHANGED <<imports, links, last, rollups, credit, balance, overtaken, exact, unreserved,
                         work, clock, overlapped>>
        BY <1>6 DEF FetchAndSettle, profile, ledger
    <2> DEFINE thread == [req[r] EXCEPT !.pc = "settled", !.heard = heard, !.after = Stamped(Charge(heard))]
    <2>3. Stamped(Charge(heard)) \in Int /\ Stamped(Charge(heard)) = credit - Charge(heard)
        BY <1>3, Constants DEF Stamped, Charge
    <2>4. /\ thread \in Threads /\ thread.pc = "settled" /\ thread.subject = req[r].subject
          /\ thread.after = credit - Charge(thread.heard)
        <3>1. thread \in Threads /\ thread.pc = "settled" /\ thread.subject = req[r].subject
              /\ thread.heard = heard /\ thread.after = Stamped(Charge(heard))
            BY <1>3, <2>3 DEF Threads
        <3> QED BY <2>3, <3>1
    <2>5. req' = [req EXCEPT ![r] = thread]
        BY <1>1, <2>1 DEF ThreadInv
    <2> HIDE DEF thread
    <2>6. ThreadInv'
        BY <1>1, <1>3, <2>2, <2>4, <2>5, ThreadSteps
    <2>7. InFlight' \subseteq InFlight
        <3>1. r \in InFlight
            BY <2>2 DEF InFlight, InTransaction
        <3> QED BY <1>1, <2>4, <2>5, <3>1, Flights
    <2>8. CreditInv'
        BY <1>1, <2>2, <2>7, CreditKept
    <2>9. BalanceInv'
        BY <1>1, <2>2, <2>4, <2>5, BalanceSummed
    <2>10. BeliefInv' /\ ProfileInv'
        BY <1>1, <2>2, BeliefsKept
    <2> QED BY <2>6, <2>8, <2>9, <2>10 DEF Inv
<1>7. ASSUME NEW r \in Requests, CommitRefresh(r) PROVE Inv'
    <2> DEFINE charge == Charge(req[r].heard)
    <2>1. /\ req[r].pc = "settled" /\ req' = [req EXCEPT ![r] = Idle]
          /\ NewEntry(r, - charge, req[r].after)
          /\ UNCHANGED <<work, clock, overlapped, unreserved>>
        BY <1>7 DEF CommitRefresh, End
    <2>2. PICK page \in Imports : Import(req[r].subject, page, req[r].created)
        BY <1>7 DEF CommitRefresh, Imports
    <2>3. req[r].subject \in Subjects /\ req[r].created \in Nat /\ req[r].after \in Int
        BY <1>3, <2>1 DEF Threads
    <2>4. BeliefInv' /\ ProfileInv'
        BY <1>1, <2>2, <2>3, ImportKeeps, ImportProfiles
    <2>5. charge \in 0 .. Estimate /\ - charge \in Int
        BY Constants DEF Charge
    <2>6. r \notin overtaken => req[r].after = credit - charge
        BY <1>1, <2>1 DEF BalanceInv
    <2> HIDE DEF charge
    <2>7. /\ credit' = credit - charge /\ credit' \in Int /\ balance' \in Int /\ exact' \in BOOLEAN
          /\ r \notin overtaken => req[r].after = credit + (- charge)
        BY <1>3, <2>1, <2>3, <2>5, <2>6 DEF NewEntry
    <2>8. ThreadInv'
        BY <1>1, <1>2, <1>3, <2>1, <2>7, ThreadSteps
    <2>9. InFlight' = InFlight \ {r} /\ r \in InFlight
        BY <1>1, <1>2, <2>1, Flights DEF InFlight, InTransaction
    <2>10. CreditInv'
        BY <1>1, <2>1, <2>5, <2>7, <2>9, CreditSettled
    <2>11. Writing' = Writing \ {r}
        <3>1. \A x \in Requests : req'[x] = IF x = r THEN Idle ELSE req[x]
            BY <1>1, <2>1 DEF ThreadInv
        <3>2. r \notin Analyses /\ work' = work
            BY <2>1, Constants
        <3> QED BY <1>2, <3>1, <3>2 DEF Writing
    <2>12. BalanceInv'
        BY <1>1, <2>1, <2>5, <2>7, <2>11, BalanceEntered
    <2> QED BY <2>4, <2>8, <2>10, <2>12 DEF Inv
<1>8. ASSUME NEW r \in Requests, Abandon(r) PROVE Inv'
    <2>1. /\ req' = [req EXCEPT ![r] = Idle] /\ overtaken' = overtaken \ {r}
          /\ UNCHANGED <<imports, links, last, rollups, credit, balance, exact, unreserved,
                         work, clock, overlapped>>
        BY <1>8 DEF Abandon, End, profile
    <2>2. BeliefInv' /\ ProfileInv'
        BY <1>1, <2>1, BeliefsKept
    <2>3. ThreadInv'
        BY <1>1, <1>2, <1>3, <2>1, ThreadSteps
    <2>4. InFlight' \subseteq InFlight
        BY <1>1, <1>2, <2>1, Flights
    <2>5. CreditInv'
        BY <1>1, <2>1, <2>4, CreditKept
    <2>6. BalanceInv'
        BY <1>1, <1>2, <2>1, BalanceKept
    <2> QED BY <2>2, <2>3, <2>5, <2>6 DEF Inv
<1>9. ASSUME NEW a \in Analyses, Settle(a) \/ CommitSettlement(a) \/ LoseSettlement(a) PROVE Inv'
    <2>1. UNCHANGED <<imports, links, last, rollups, req, clock, overlapped>>
        BY <1>9 DEF Settle, CommitSettlement, LoseSettlement, profile
    <2>2. BeliefInv' /\ ProfileInv'
        BY <1>1, <2>1, BeliefsKept
    <2>3. InFlight' = InFlight
        BY <2>1 DEF InFlight, InTransaction
    <2>4. a \notin Requests
        BY Constants
    <2>5. CASE Settle(a)
        <3>1. PICK charge \in Charges :
                  work' = [work EXCEPT ![a] = [pc |-> "settled", charge |-> charge, after |-> Stamped(charge)]]
            BY <2>5 DEF Settle
        <3>2. UNCHANGED <<credit, balance, overtaken, exact, unreserved>>
            BY <2>5 DEF Settle, ledger
        <3>3. charge \in Nat /\ Stamped(charge) \in Int /\ Stamped(charge) = credit - charge
            BY <1>3, Constants DEF Stamped
        <3>4. work' \in [Analyses -> Settlements]
            BY <1>1, <3>1, <3>3 DEF ThreadInv, Settlements
        <3>5. ThreadInv'
            BY <1>1, <2>1, <3>2, <3>4 DEF ThreadInv
        <3>6. CreditInv'
            BY <1>1, <2>1, <2>3, <3>2, CreditKept
        <3>7. \A x \in Analyses :
                  work'[x] = IF x = a THEN [pc |-> "settled", charge |-> charge, after |-> Stamped(charge)]
                             ELSE work[x]
            BY <1>1, <3>1 DEF ThreadInv
        <3>8. overtaken' \subseteq Writing'
            <4>1. \A x \in Writing : x \in Writing'
                BY <2>1, <3>7 DEF Writing
            <4> QED BY <1>1, <3>2, <4>1 DEF BalanceInv
        <3>9. \A x \in Analyses \ overtaken' :
                  work'[x].pc = "settled" => work'[x].after = credit' - work'[x].charge
            <4> SUFFICES ASSUME NEW x \in Analyses \ overtaken', work'[x].pc = "settled"
                         PROVE  work'[x].after = credit' - work'[x].charge
                OBVIOUS
            <4>1. CASE x = a
                BY <3>2, <3>3, <3>7, <4>1
            <4>2. CASE x # a
                BY <1>1, <3>2, <3>7, <4>2 DEF BalanceInv
            <4> QED BY <4>1, <4>2
        <3>10. BalanceInv'
            BY <1>1, <2>1, <3>2, <3>8, <3>9 DEF BalanceInv
        <3> QED BY <2>2, <3>5, <3>6, <3>10 DEF Inv
    <2>6. CASE CommitSettlement(a)
        <3> DEFINE charge == work[a].charge
        <3>1. /\ work[a].pc = "settled" /\ work' = [work EXCEPT ![a] = Closed]
              /\ NewEntry(a, - charge, work[a].after)
              /\ unreserved' = unreserved + charge
            BY <2>6 DEF CommitSettlement
        <3>2. charge \in Nat /\ - charge \in Int /\ work[a].after \in Int
            BY <1>3 DEF Settlements
        <3>3. a \notin overtaken => work[a].after = credit - charge
            BY <1>1, <3>1 DEF BalanceInv
        <3> HIDE DEF charge
        <3>4. /\ credit' = credit - charge /\ credit' \in Int /\ balance' \in Int /\ exact' \in BOOLEAN
              /\ unreserved' \in Nat /\ credit' + unreserved' = credit + unreserved
              /\ a \notin overtaken => work[a].after = credit + (- charge)
            BY <1>3, <3>1, <3>2, <3>3 DEF NewEntry
        <3>5. work' \in [Analyses -> Settlements]
            BY <1>1, <3>1 DEF ThreadInv, Settlements, Closed
        <3>6. ThreadInv'
            BY <1>1, <2>1, <3>4, <3>5 DEF ThreadInv
        <3>7. CreditInv'
            BY <1>1, <2>1, <2>3, <3>4, CreditKept
        <3>8. Writing' = Writing \ {a}
            <4>1. \A x \in Analyses : (work'[x].pc = "settled") <=> (x # a /\ work[x].pc = "settled")
                BY <1>1, <3>1 DEF ThreadInv, Closed
            <4> QED BY <2>1, <2>4, <4>1 DEF Writing
        <3>9. BalanceInv'
            BY <1>1, <3>1, <3>2, <3>4, <3>8, BalanceEntered
        <3> QED BY <2>2, <3>6, <3>7, <3>9 DEF Inv
    <2>7. CASE LoseSettlement(a)
        <3>1. /\ work[a].pc = "settled" /\ work' = [work EXCEPT ![a] = Closed]
              /\ overtaken' = overtaken \ {a}
              /\ UNCHANGED <<credit, balance, exact, unreserved>>
            BY <2>7 DEF LoseSettlement
        <3>2. work' \in [Analyses -> Settlements]
            BY <1>1, <3>1 DEF ThreadInv, Settlements, Closed
        <3>3. ThreadInv'
            BY <1>1, <2>1, <3>1, <3>2 DEF ThreadInv
        <3>4. CreditInv'
            BY <1>1, <2>1, <2>3, <3>1, CreditKept
        <3>5. \A x \in Analyses : /\ (work'[x].pc = "settled") <=> (x # a /\ work[x].pc = "settled")
                                  /\ x # a => work'[x] = work[x]
            BY <1>1, <3>1 DEF ThreadInv, Closed
        <3>6. overtaken' \subseteq Writing'
            <4>1. Writing' = Writing \ {a}
                BY <2>1, <2>4, <3>5 DEF Writing
            <4> QED BY <1>1, <3>1, <4>1 DEF BalanceInv
        <3>7. \A x \in Analyses \ overtaken' :
                  work'[x].pc = "settled" => work'[x].after = credit' - work'[x].charge
            BY <1>1, <3>1, <3>5 DEF BalanceInv
        <3>8. \A r \in Requests \ overtaken' :
                  req'[r].pc = "settled" => req'[r].after = credit' - Charge(req'[r].heard)
            BY <1>1, <2>1, <2>4, <3>1 DEF BalanceInv
        <3>9. BalanceInv'
            BY <1>1, <3>1, <3>6, <3>7, <3>8 DEF BalanceInv
        <3> QED BY <2>2, <3>3, <3>4, <3>9 DEF Inv
    <2> QED BY <1>9, <2>5, <2>6, <2>7
<1>10. CASE UNCHANGED vars
    <2>1. UNCHANGED <<imports, links, last, rollups, credit, balance, overtaken, exact, unreserved,
                      req, work, clock, overlapped>>
        BY <1>10 DEF vars, profile, ledger
    <2>2. BeliefInv' /\ ProfileInv'
        BY <1>1, <2>1, BeliefsKept
    <2>3. ThreadInv' /\ CreditInv'
        BY <1>1, <2>1 DEF ThreadInv, CreditInv, InFlight, InTransaction
    <2>4. BalanceInv'
        BY <1>1, <2>1 DEF BalanceInv, Writing
    <2> QED BY <2>2, <2>3, <2>4 DEF Inv
<1> QED BY <1>4, <1>5, <1>6, <1>7, <1>8, <1>9, <1>10 DEF Next

LEMMA InvHolds == Spec => []Inv
BY InitInv, NextInv, PTL DEF Spec

-----------------------------------------------------------------------------
(***************************************************************************)
(* The theorems.                                                           *)
(***************************************************************************)

\* Whatever pages a vendor sends, truncated, collapsed, empty or not at all, a
\* link is given up after exactly as many measurable misses in a row as the
\* engine asks for, and one page that lists it takes everything back.
THEOREM LossesAreMeasured == Spec => []LossesMeasured
<1>1. Inv => LossesMeasured
    <2> SUFFICES ASSUME Inv, NEW s \in Subjects, NEW k \in Keys, Sightings(s, k) # {}
                 PROVE  LET n == Cardinality(MeasuredMisses(s, k)) IN
                        links[s][k].status = CASE n = 0 -> "active"
                                               [] n \in 1 .. MISSES_BEFORE_LOST - 1 -> "missing_pending"
                                               [] OTHER -> "lost"
        BY DEF LossesMeasured, Inv, BeliefInv, Believed
    <2> DEFINE missed == MeasuredMisses(s, k)
    <2> DEFINE n == Cardinality(missed)
    <2>1. /\ n = 0 => links[s][k] = Sighted
          /\ n \in 1 .. MISSES_BEFORE_LOST - 1 => links[s][k].status = "missing_pending"
          /\ n >= MISSES_BEFORE_LOST => links[s][k].status = "lost"
        BY DEF Inv, BeliefInv, Believed
    <2>2. n \in Nat
        <3>1. imports[s] \in Seq(ImportRows)
            BY DEF Inv, BeliefInv
        <3>2. Len(imports[s]) \in Nat /\ DOMAIN imports[s] = 1 .. Len(imports[s])
            BY <3>1, LenProperties
        <3>3. missed \in SUBSET (1 .. Len(imports[s]))
            BY <3>2 DEF MeasuredMisses
        <3>4. IsFiniteSet(1 .. Len(imports[s]))
            <4>1. 1 \in Int /\ Len(imports[s]) \in Int
                BY <3>2
            <4> QED BY <4>1, FS_Interval
        <3> HIDE DEF missed
        <3> QED BY <3>3, <3>4, FS_Subset, FS_CardinalityType
    <2>3. n = 0 \/ n \in 1 .. MISSES_BEFORE_LOST - 1 \/ n >= MISSES_BEFORE_LOST
        BY <2>2, Constants
    <2>4. ~(n \in 1 .. MISSES_BEFORE_LOST - 1 /\ n >= MISSES_BEFORE_LOST) /\ ~(n = 0 /\ n >= MISSES_BEFORE_LOST)
          /\ ~(n = 0 /\ n \in 1 .. MISSES_BEFORE_LOST - 1)
        BY <2>2, Constants
    <2>5. Sighted.status = "active"
        BY DEF Sighted
    <2> HIDE DEF n, missed
    <2>6. links[s][k].status = CASE n = 0 -> "active"
                                 [] n \in 1 .. MISSES_BEFORE_LOST - 1 -> "missing_pending"
                                 [] OTHER -> "lost"
        BY <2>1, <2>3, <2>4, <2>5
    <2> QED BY <2>6 DEF n, missed
<1> QED BY <1>1, InvHolds, PTL

\* The append-only history never contradicts the inventory: a link has events
\* when it has a row, and the last of them is a loss when the row is lost.
THEOREM HistoryFollows == Spec => []EventsAgree
<1>1. Inv => EventsAgree
    BY DEF Inv, BeliefInv
<1> QED BY <1>1, InvHolds, PTL

\* However many refreshes overlap, and whatever analyses are settled meanwhile, the
\* organization is overdrawn by no more than one estimate for each further refresh
\* and by what the analyses were charged since the last reservation; the balance on
\* the newest entry is the sum of the ledger unless another was committed first.
THEOREM CreditIsHeld == Spec => []CreditHolds
<1>1. Inv => CreditHolds
    <2> SUFFICES ASSUME Inv PROVE CreditHolds
        OBVIOUS
    <2> DEFINE n == Cardinality(InFlight)
    <2> DEFINE all == Cardinality(Requests)
    <2>1. /\ (credit + unreserved) - Estimate * n >= Estimate - Estimate * all
          /\ ~overlapped => credit + unreserved >= 0
          /\ credit \in Int /\ unreserved \in Nat
        BY DEF Inv, CreditInv, ThreadInv
    <2>2. n \in Nat /\ all \in Nat /\ all > 0 /\ Estimate \in Nat
        BY FlightsCounted, Constants
    <2> HIDE DEF n, all
    <2>3. Estimate * n \in Nat /\ Estimate * all \in Int
        BY <2>2
    <2>4. Estimate * (all - 1) = Estimate * all - Estimate
        BY <2>2, Priced
    <2>5. credit >= - (Estimate * (all - 1)) - unreserved
        BY <2>1, <2>2, <2>3, <2>4
    <2>6. ~overlapped => credit >= - unreserved
        BY <2>1
    <2>7. exact => balance = credit
        BY DEF Inv, BalanceInv
    <2> QED BY <2>5, <2>6, <2>7 DEF CreditHolds, all
<1> QED BY <1>1, InvHolds, PTL

\* The inventory, the append-only history, the rollups and every page that is
\* read from them tell one story, on any mix of pages, failures and overlapping
\* refreshes: the header adds up to the rollups, velocity to the links its imports
\* were the first to list, the score is that of the links believed now as long as
\* the last refresh asked for is the last committed, and nobody is told to disavow
\* a domain on one signal.
THEOREM InventoryIsSound == Spec => []InventorySound
<1>1. Inv => InventorySound
    <2> SUFFICES ASSUME Inv PROVE InventorySound
        OBVIOUS
    <2>1. BeliefInv /\ ProfileInv /\ ThreadInv
        BY DEF Inv
    <2>2. TypeOK
        <3>1. \A s \in Subjects :
                 imports[s] \in Seq([created : Nat, coverage : {"complete", "partial", "failed"},
                                    rows : Listings, measurable : BOOLEAN, new : Nat, lost : Nat,
                                    authority : (0 .. 100) \cup {None}])
            <4> DEFINE Row == [created : Nat, coverage : {"complete", "partial", "failed"},
                               rows : Listings, measurable : BOOLEAN, new : Nat, lost : Nat,
                               authority : (0 .. 100) \cup {None}]
            <4>1. {Authority(live) : live \in SUBSET Keys} \subseteq 0 .. 100
                BY AuthorityFits
            <4>2. ImportRows \subseteq Row
                BY <4>1 DEF ImportRows
            <4> HIDE DEF Row
            <4>3. \A s \in Subjects : imports[s] \in Seq(ImportRows)
                BY <2>1 DEF BeliefInv
            <4>4. \A s \in Subjects : imports[s] \in Seq(Row)
                BY <4>2, <4>3
            <4> QED BY <4>4 DEF Row
        <3>2. /\ links \in [Subjects -> [Keys -> Beliefs \cup {None}]]
              /\ last \in [Subjects -> [Keys -> Events \cup {None}]]
              /\ rollups \in [Subjects -> [RefDomains -> Rollups \cup {None}]]
            BY <2>1 DEF BeliefInv, ProfileInv
        <3>3. /\ credit \in Int /\ balance \in Int /\ clock \in Nat /\ unreserved \in Nat
              /\ overlapped \in BOOLEAN /\ exact \in BOOLEAN
              /\ req \in [Requests -> Threads] /\ work \in [Analyses -> Settlements]
            BY <2>1 DEF ThreadInv
        <3>4. overtaken \subseteq Requests \cup Analyses
            BY DEF Inv, BalanceInv, Writing
        <3> QED BY <3>1, <3>2, <3>3, <3>4 DEF TypeOK, Threads, Settlements
    <2>3. HistoryAgrees
        <3> SUFFICES ASSUME NEW s \in Subjects, NEW d \in RefDomains
                     PROVE  (IF rollups[s][d] = None THEN 0 ELSE rollups[s][d].links)
                              = Cardinality(LinksFrom(d, Inventory(s, "active")))
            BY <2>1 DEF HistoryAgrees, BeliefInv
        <3> DEFINE live == Inventory(s, "active")
        <3>1. live \in SUBSET Keys
            BY DEF Inventory
        <3>2. IF d \in Linking(live) THEN rollups[s][d] = Assessed(d, live)
              ELSE rollups[s][d] \in {None, Unlinked}
            BY <2>1 DEF ProfileInv, Profiled
        <3> HIDE DEF live
        <3>3. CASE d \in Linking(live)
            <4>1. rollups[s][d] = Assessed(d, live) /\ rollups[s][d] # None
                BY <3>1, <3>2, <3>3, AssessedFits
            <4> QED BY <4>1, AssessedAs DEF live
        <3>4. CASE d \notin Linking(live)
            <4>1. Cardinality(LinksFrom(d, live)) = 0
                BY <3>1, <3>4, FromCounted
            <4>2. Unlinked.links = 0
                BY DEF Unlinked
            <4> QED BY <3>2, <3>4, <4>1, <4>2 DEF live
        <3> QED BY <3>3, <3>4
    <2> QED BY <2>1, <2>2, <2>3, ProfileTold, AdviceGiven DEF InventorySound
<1> QED BY <1>1, InvHolds, PTL

=============================================================================
