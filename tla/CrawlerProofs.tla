--------------------------- MODULE CrawlerProofs ---------------------------
(***************************************************************************)
(* The crawl's safety for every site and every limit: the browser is sent  *)
(* to allowed pages only, the frontier neither loses nor repeats a         *)
(* URL nor grows past its limits, and every step of the crawl is a step of *)
(* what SiteAudits is promised.                                            *)
(***************************************************************************)
EXTENDS Crawler, FiniteSetTheorems, SequenceTheorems, WellFoundedInduction, TLAPS

-----------------------------------------------------------------------------
\* Numbers and sequences.

Below == {pair \in Nat \X Nat : pair[1] < pair[2]}

\* A nonempty set of naturals has a least member.
LEMMA LeastNumber ==
    ASSUME NEW N, N \subseteq Nat, N # {}
    PROVE  \E n \in N : \A m \in N : n <= m
<1>1. IsWellFoundedOn(Below, Nat)
    BY NatLessThanWellFounded DEF OpToRel, Below
<1>2. PICK n \in N : \A m \in N : <<m, n>> \notin Below
    BY <1>1, WFMin
<1>3. \A m \in N : n <= m
    <2> SUFFICES ASSUME NEW m \in N, m < n PROVE FALSE
        BY <1>2
    <2>1. <<m, n>> \in Nat \X Nat /\ <<m, n>>[1] < <<m, n>>[2]
        OBVIOUS
    <2>2. <<m, n>> \in Below
        BY <2>1 DEF Below
    <2> QED BY <1>2, <2>2
<1> QED BY <1>3

\* A nonempty finite set of naturals has a largest member.
LEMMA LargestNumber ==
    ASSUME NEW N, N \subseteq Nat, N # {}, IsFiniteSet(N)
    PROVE  \E n \in N : \A m \in N : m <= n
<1> DEFINE Over(n) == {m \in N : n < m}
<1> DEFINE Sizes == {Cardinality(Over(n)) : n \in N}
<1>1. \A n \in N : Over(n) \in SUBSET N
    OBVIOUS
<1>2. \A n \in N : IsFiniteSet(Over(n)) /\ Cardinality(Over(n)) \in Nat
    BY <1>1, FS_Subset, FS_CardinalityType
<1>3. Sizes \subseteq Nat /\ Sizes # {}
    BY <1>2
<1>4. PICK least \in Sizes : \A size \in Sizes : least <= size
    <2> HIDE DEF Sizes
    <2> QED BY <1>3, LeastNumber
<1>41. PICK n \in N : least = Cardinality(Over(n))
    OBVIOUS
<1>42. \A m \in N : Cardinality(Over(n)) <= Cardinality(Over(m))
    BY <1>4, <1>41
<1>5. ASSUME NEW m \in N, n < m PROVE FALSE
    <2>0. n \in Nat /\ m \in Nat
        BY <1>5
    <2>01. \A x \in N : x \in Nat /\ (m < x => n < x)
        BY <1>5, <2>0
    <2>02. ~(m < m)
        BY <2>0
    <2>1. Over(m) \in SUBSET Over(n) /\ m \in Over(n) /\ m \notin Over(m)
        BY <1>5, <2>01, <2>02
    <2>2. Cardinality(Over(m)) <= Cardinality(Over(n)) /\ Cardinality(Over(m)) # Cardinality(Over(n))
        BY <1>2, <2>1, FS_Subset
    <2> QED BY <1>2, <1>42, <2>2
<1>6. n \in Nat /\ \A m \in N : m \in Nat
    OBVIOUS
<1> HIDE DEF Over, Sizes
<1> QED BY <1>5, <1>6

\* The members of a set in ascending order: each of them once.
LEMMA AscendingLists ==
    ASSUME NEW S \in SUBSET Urls, IsFiniteSet(S), NEW s \in Ascending(S)
    PROVE  /\ s \in Seq(Urls) /\ Len(s) = Cardinality(S)
           /\ DOMAIN s = 1 .. Cardinality(S)
           /\ \A i, j \in DOMAIN s : s[i] = s[j] => i = j
           /\ ToSet(s) = S
<1> DEFINE n == Cardinality(S)
<1>1. n \in Nat
    BY FS_CardinalityType
<1>2. s \in [1 .. n -> S] /\ \A i, j \in 1 .. n : i < j => s[i] < s[j]
    BY DEF Ascending
<1>3. s \in Seq(Urls) /\ Len(s) = n /\ DOMAIN s = 1 .. n
    BY <1>1, <1>2
<1>4. \A i, j \in 1 .. n : s[i] = s[j] => i = j
    <2> SUFFICES ASSUME NEW i \in 1 .. n, NEW j \in 1 .. n, s[i] = s[j], i < j PROVE FALSE
        BY <1>1
    <2>1. s[i] < s[j] /\ s[i] \in Nat
        BY <1>2, CrawlAssumption
    <2> QED BY <2>1
<1>5. IsFiniteSet(1 .. n) /\ Cardinality(1 .. n) = n
    BY <1>1, FS_Interval
<1>6. s \in Injection(1 .. n, S)
    BY <1>2, <1>4 DEF Injection, IsInjective
<1>7. s \in Surjection(1 .. n, S)
    BY <1>5, <1>6, FS_Injection
<1>8. \A u \in S : \E i \in 1 .. n : s[i] = u
    BY <1>7 DEF Surjection
<1>9. ToSet(s) = S
    BY <1>2, <1>3, <1>8 DEF ToSet
<1> QED BY <1>3, <1>4, <1>9

\* A queue with another, of different members, after it.
LEMMA QueueJoined ==
    ASSUME NEW q \in Seq(Urls), NEW s \in Seq(Urls),
           \A i, j \in DOMAIN q : q[i] = q[j] => i = j,
           \A i, j \in DOMAIN s : s[i] = s[j] => i = j,
           ToSet(q) \cap ToSet(s) = {}
    PROVE  /\ q \o s \in Seq(Urls) /\ Len(q \o s) = Len(q) + Len(s)
           /\ ToSet(q \o s) = ToSet(q) \cup ToSet(s)
           /\ \A i, j \in DOMAIN (q \o s) : (q \o s)[i] = (q \o s)[j] => i = j
<1> DEFINE t == q \o s
<1> DEFINE m == Len(q)
<1> DEFINE n == Len(s)
<1>1. m \in Nat /\ n \in Nat /\ DOMAIN q = 1 .. m /\ DOMAIN s = 1 .. n
    BY LenProperties
<1>2. /\ t \in Seq(Urls) /\ Len(t) = m + n
      /\ \A i \in 1 .. m + n : t[i] = IF i <= m THEN q[i] ELSE s[i - m]
    BY ConcatProperties
<1>3. DOMAIN t = 1 .. m + n
    BY <1>2, LenProperties
<1> HIDE DEF t, m, n
<1>4. \A i \in 1 .. m : t[i] = q[i] /\ t[i] \in ToSet(q)
    <2> TAKE i \in 1 .. m
    <2>1. i \in 1 .. m + n /\ i <= m
        BY <1>1
    <2>2. t[i] = q[i]
        BY <1>2, <2>1
    <2>3. q[i] \in ToSet(q)
        BY <1>1 DEF ToSet
    <2> QED
        BY <2>2, <2>3
<1>5. \A i \in m + 1 .. m + n : t[i] = s[i - m] /\ t[i] \in ToSet(s) /\ i - m \in 1 .. n
    <2> TAKE i \in m + 1 .. m + n
    <2>1. i \in 1 .. m + n /\ ~(i <= m) /\ i - m \in 1 .. n
        BY <1>1
    <2>2. t[i] = s[i - m]
        BY <1>2, <2>1
    <2> QED BY <1>1, <2>1, <2>2 DEF ToSet
<1>6. \A i \in 1 .. m + n : i \in 1 .. m \/ i \in m + 1 .. m + n
    BY <1>1
<1>7. ToSet(t) \subseteq ToSet(q) \cup ToSet(s)
    BY <1>3, <1>4, <1>5, <1>6 DEF ToSet
<1>8. ToSet(q) \subseteq ToSet(t)
    <2>1. \A i \in 1 .. m : i \in 1 .. m + n
        BY <1>1
    <2> QED BY <1>1, <1>3, <1>4, <2>1 DEF ToSet
<1>9. ToSet(s) \subseteq ToSet(t)
    <2> SUFFICES ASSUME NEW j \in 1 .. n PROVE s[j] \in ToSet(t)
        BY <1>1 DEF ToSet
    <2>1. j + m \in m + 1 .. m + n /\ j + m \in 1 .. m + n /\ (j + m) - m = j
        BY <1>1
    <2>2. t[j + m] = s[j]
        BY <1>5, <2>1
    <2> QED BY <1>3, <2>1, <2>2 DEF ToSet
<1>10. \A i, j \in 1 .. m + n : t[i] = t[j] => i = j
    <2> SUFFICES ASSUME NEW i \in 1 .. m + n, NEW j \in 1 .. m + n, t[i] = t[j] PROVE i = j
        OBVIOUS
    <2>1. CASE i \in 1 .. m /\ j \in 1 .. m
        BY <1>1, <1>4, <2>1
    <2>2. CASE i \in 1 .. m /\ j \in m + 1 .. m + n
        BY <1>4, <1>5, <2>2
    <2>3. CASE i \in m + 1 .. m + n /\ j \in 1 .. m
        BY <1>4, <1>5, <2>3
    <2>4. CASE i \in m + 1 .. m + n /\ j \in m + 1 .. m + n
        <3>1. i - m = j - m
            BY <1>1, <1>5, <2>4
        <3> QED BY <1>1, <3>1
    <2> QED BY <1>6, <2>1, <2>2, <2>3, <2>4
<1> QED BY <1>2, <1>3, <1>7, <1>8, <1>9, <1>10 DEF t, m, n

\* What is left of a queue of different members when its first leaves.
LEMMA QueueServed ==
    ASSUME NEW q \in Seq(Urls), q # <<>>,
           \A i, j \in DOMAIN q : q[i] = q[j] => i = j
    PROVE  /\ Head(q) \in Urls /\ Tail(q) \in Seq(Urls) /\ Len(Tail(q)) = Len(q) - 1
           /\ Head(q) \in ToSet(q) /\ ToSet(Tail(q)) = ToSet(q) \ {Head(q)}
           /\ \A i, j \in DOMAIN Tail(q) : Tail(q)[i] = Tail(q)[j] => i = j
<1> DEFINE t == Tail(q)
<1> DEFINE m == Len(q)
<1>1. m \in Nat \ {0} /\ DOMAIN q = 1 .. m
    BY LenProperties, EmptySeq
<1>2. /\ Head(q) \in Urls /\ t \in Seq(Urls) /\ Len(t) = m - 1
      /\ \A i \in 1 .. Len(t) : t[i] = q[i + 1]
    BY HeadTailProperties
<1>3. DOMAIN t = 1 .. m - 1
    BY <1>2, LenProperties
<1>4. Head(q) = q[1]
    BY <1>1
<1> HIDE DEF t, m
<1>5. \A i \in 1 .. m - 1 : i + 1 \in 1 .. m /\ i + 1 # 1 /\ t[i] = q[i + 1]
    BY <1>1, <1>2
<1>6. \A i \in 1 .. m : i # 1 => i - 1 \in 1 .. m - 1 /\ (i - 1) + 1 = i
    BY <1>1
<1>7. 1 \in 1 .. m
    BY <1>1
<1>8. ToSet(t) \subseteq ToSet(q) \ {Head(q)}
    BY <1>1, <1>3, <1>4, <1>5, <1>7 DEF ToSet
<1>9. ToSet(q) \ {Head(q)} \subseteq ToSet(t)
    <2> SUFFICES ASSUME NEW i \in 1 .. m, q[i] # q[1] PROVE q[i] \in ToSet(t)
        BY <1>1, <1>4 DEF ToSet
    <2>1. i - 1 \in 1 .. m - 1 /\ (i - 1) + 1 = i
        BY <1>6
    <2>2. t[i - 1] = q[i]
        BY <1>5, <2>1
    <2> QED BY <1>3, <2>1, <2>2 DEF ToSet
<1>10. \A i, j \in 1 .. m - 1 : t[i] = t[j] => i = j
    <2> SUFFICES ASSUME NEW i \in 1 .. m - 1, NEW j \in 1 .. m - 1, t[i] = t[j] PROVE i = j
        OBVIOUS
    <2>1. i + 1 = j + 1
        BY <1>1, <1>5
    <2> QED BY <2>1, <1>1
<1>11. Head(q) \in ToSet(q)
    BY <1>1, <1>4, <1>7 DEF ToSet
<1> QED BY <1>2, <1>3, <1>8, <1>9, <1>10, <1>11 DEF t, m

\* A queue of different members has as many of them as it is long.
LEMMA QueueCounted ==
    ASSUME NEW q \in Seq(Urls), \A i, j \in DOMAIN q : q[i] = q[j] => i = j
    PROVE  Cardinality(ToSet(q)) = Len(q)
<1> DEFINE m == Len(q)
<1>1. m \in Nat /\ DOMAIN q = 1 .. m /\ q \in [1 .. m -> Urls]
    BY LenProperties
<1>2. q \in Bijection(1 .. m, ToSet(q))
    BY <1>1 DEF ToSet, Bijection, Injection, Surjection, IsInjective
<1>3. IsFiniteSet(1 .. m) /\ Cardinality(1 .. m) = m
    BY <1>1, FS_Interval
<1> QED BY <1>2, <1>3, FS_Bijection DEF ExistsBijection
-----------------------------------------------------------------------------
\* The frontier.

\* The constants, and what the sets of URLs are.
LEMMA Constants ==
    /\ Urls \subseteq Nat /\ IsFiniteSet(Urls) /\ None \notin Urls
    /\ Seed \in Urls /\ Seed \in Site /\ Seed \notin Queried
    /\ Site \subseteq Urls /\ Public \subseteq Urls
    /\ PageLimit \in Nat \ {0} /\ MaxQueueUrls \in Nat \ {0}
    /\ MaxQueryVariants \in Nat \ {0} /\ MaxHops \in Nat \ {0}
    /\ \A u \in Urls : Origin[u] \in Origins
BY CrawlAssumption DEF Origins

\* What links a page has, the frontier takes new URLs of the site only, to the
\* end of its queue, and neither limit is passed: the last one taken, of all of
\* them or of one path, had room.
LEMMA TakesWithinLimits ==
    ASSUME TypeOK, CrawlInv, NEW links \in SUBSET Urls, Take(links)
    PROVE  \E taken \in SUBSET Site :
              /\ taken \cap visited = {}
              /\ IsFiniteSet(taken) /\ Cardinality(taken) \in Nat
              /\ visited' = visited \cup taken
              /\ Cardinality(visited') = Cardinality(visited) + Cardinality(taken)
              /\ Cardinality(visited') <= MaxQueueUrls
              /\ \A u \in visited' : Cardinality(Variants(u, visited')) <= MaxQueryVariants
              /\ queue' \in Seq(Urls) /\ Len(queue') = Len(queue) + Cardinality(taken)
              /\ ToSet(queue') = ToSet(queue) \cup taken
              /\ \A i, j \in DOMAIN queue' : queue'[i] = queue'[j] => i = j
<1>1. PICK taken \in SUBSET links :
          /\ \A u \in links : u \in taken <=> Takes(u, visited \cup {v \in taken : v < u})
          /\ visited' = visited \cup taken
          /\ \E next \in Ascending(taken) : queue' = queue \o next
    BY DEF Take
<1>2. PICK next \in Ascending(taken) : queue' = queue \o next
    BY <1>1
<1> DEFINE before(u) == visited \cup {v \in taken : v < u}
<1>3. \A u \in taken : Takes(u, before(u)) /\ u \in Site /\ u \notin visited
    BY <1>1 DEF Takes
<1>4. taken \in SUBSET Site /\ taken \in SUBSET Urls /\ taken \cap visited = {}
    BY <1>3
<1>5. /\ IsFiniteSet(taken) /\ Cardinality(taken) \in Nat
      /\ IsFiniteSet(visited) /\ Cardinality(visited) \in Nat
      /\ visited \subseteq Urls /\ visited \subseteq Site
    BY <1>4, Constants, FS_Subset, FS_CardinalityType DEF TypeOK, CrawlInv
<1>6. Cardinality(visited \cup taken) = Cardinality(visited) + Cardinality(taken)
    <2>1. Cardinality(taken \cap visited) = 0
        BY <1>4, FS_EmptySet
    <2>2. visited \cap taken = taken \cap visited
        OBVIOUS
    <2>3. Cardinality(visited \cup taken)
             = Cardinality(visited) + Cardinality(taken) - Cardinality(visited \cap taken)
        BY <1>5, FS_Union
    <2>4. Cardinality(visited \cap taken) = 0
        BY <2>1, <2>2
    <2> QED BY ONLY <1>5, <2>3, <2>4
<1>7. IsFiniteSet(visited \cup taken)
    BY <1>5, FS_Union
<1>8. ASSUME NEW T \in SUBSET taken, T # {}
      PROVE  \E u \in T : before(u) \cap T = T \ {u} /\ visited \cup taken = before(u) \cup (taken \ before(u))
                          /\ \A v \in T : v = u \/ v \in before(u)
    <2>1. T \subseteq Nat /\ IsFiniteSet(T)
        BY <1>4, <1>5, Constants, FS_Subset
    <2>2. PICK u \in T : \A v \in T : v <= u
        BY <1>8, <2>1, LargestNumber
    <2>3. \A v \in T : (v < u) <=> (v # u)
        BY <2>1, <2>2
    <2>4. u \notin visited /\ \A v \in T : v \notin visited
        BY <1>4
    <2>5. before(u) \cap T = T \ {u}
        BY <2>3, <2>4
    <2>6. \A v \in T : v = u \/ v \in before(u)
        BY <2>3
    <2> QED BY <2>5, <2>6
<1>9. Cardinality(visited \cup taken) <= MaxQueueUrls
    <2>1. CASE taken = {}
        <3>1. visited \cup taken = visited
            BY <2>1
        <3> QED BY <3>1 DEF CrawlInv
    <2>2. CASE taken # {}
        <3>1. PICK u \in taken : before(u) \cap taken = taken \ {u}
            BY <1>8, <2>2
        <3>2. before(u) = (visited \cup taken) \ {u}
            BY <1>4, <3>1
        <3>3. Cardinality((visited \cup taken) \ {u}) = Cardinality(visited \cup taken) - 1
            BY <1>7, <3>1, FS_RemoveElement
        <3>4. Cardinality(before(u)) < MaxQueueUrls
            BY <1>3, <3>1 DEF Takes
        <3>5. Cardinality((visited \cup taken) \ {u}) < MaxQueueUrls
            BY <3>2, <3>4
        <3>6. Cardinality(visited \cup taken) \in Nat
            BY <1>7, FS_CardinalityType
        <3> QED BY ONLY <3>3, <3>5, <3>6, Constants
    <2> QED BY <2>1, <2>2
<1>10. \A known \in SUBSET Urls : \A u \in Urls :
          /\ IsFiniteSet(Variants(u, known)) /\ Cardinality(Variants(u, known)) \in Nat
          /\ Variants(u, known) \in SUBSET known
    BY Constants, FS_Subset, FS_CardinalityType DEF Variants
<1>11. ASSUME NEW w \in visited \cup taken
       PROVE  Cardinality(Variants(w, visited \cup taken)) <= MaxQueryVariants
    <2> DEFINE T == Variants(w, taken)
    <2>0. w \in Urls /\ T \in SUBSET taken /\ visited \cup taken \in SUBSET Urls
        BY <1>4, <1>5 DEF Variants
    <2>1. CASE T = {}
        <3>1. Variants(w, visited \cup taken) = Variants(w, visited)
            BY <2>1 DEF Variants
        <3>2. CASE Variants(w, visited) = {}
            BY <3>1, <3>2, FS_EmptySet, Constants
        <3>3. CASE Variants(w, visited) # {}
            <4>1. PICK z \in Variants(w, visited) : TRUE
                BY <3>3
            <4>2. z \in visited /\ Variants(z, visited) = Variants(w, visited)
                BY <4>1 DEF Variants
            <4> QED BY <3>1, <4>2 DEF CrawlInv
        <3> QED BY <3>2, <3>3
    <2>2. CASE T # {}
        <3>1. PICK u \in T : before(u) \cap T = T \ {u} /\ \A v \in T : v = u \/ v \in before(u)
            BY <1>8, <2>0, <2>2
        <3>2. u \in taken /\ u \in Queried /\ Path[u] = Path[w] /\ u \in Urls /\ u \notin before(u)
            <4>1. u \in taken /\ u \in Queried /\ Path[u] = Path[w]
                BY <3>1 DEF Variants
            <4> QED BY <1>4, <3>1, <4>1
        <3>3. Variants(u, before(u)) = Variants(w, visited \cup taken) \ {u}
            BY <3>1, <3>2 DEF Variants
        <3>4. Cardinality(Variants(u, before(u))) < MaxQueryVariants
            BY <1>3, <3>2 DEF Takes
        <3>5. u \in Variants(w, visited \cup taken)
            BY <3>2 DEF Variants
        <3>6. Cardinality(Variants(w, visited \cup taken) \ {u}) = Cardinality(Variants(w, visited \cup taken)) - 1
            <4> DEFINE V == Variants(w, visited \cup taken)
            <4>1. IsFiniteSet(V) /\ u \in V
                BY <1>10, <2>0, <3>5
            <4> HIDE DEF V
            <4>2. Cardinality(V \ {u}) = Cardinality(V) - 1
                BY <4>1, FS_RemoveElement
            <4> QED BY <4>2 DEF V
        <3>7. Cardinality(Variants(w, visited \cup taken)) \in Nat
            BY <1>10, <2>0
        <3> HIDE DEF before
        <3> QED BY <3>3, <3>4, <3>6, <3>7, Constants
    <2> QED BY <2>1, <2>2
<1>12. /\ next \in Seq(Urls) /\ Len(next) = Cardinality(taken) /\ ToSet(next) = taken
       /\ \A i, j \in DOMAIN next : next[i] = next[j] => i = j
    BY <1>4, <1>5, AscendingLists
<1>13. queue \in Seq(Urls) /\ ToSet(queue) \subseteq visited
       /\ \A i, j \in DOMAIN queue : queue[i] = queue[j] => i = j
    BY DEF TypeOK, CrawlInv
<1>14. ToSet(queue) \cap ToSet(next) = {}
    BY <1>4, <1>12, <1>13
<1>15. /\ queue' \in Seq(Urls) /\ Len(queue') = Len(queue) + Cardinality(taken)
       /\ ToSet(queue') = ToSet(queue) \cup taken
       /\ \A i, j \in DOMAIN queue' : queue'[i] = queue'[j] => i = j
    BY <1>2, <1>12, <1>13, <1>14, QueueJoined
<1>16. visited' = visited \cup taken
    BY <1>1
<1> QED BY <1>4, <1>5, <1>6, <1>9, <1>11, <1>15, <1>16

\* A policy that is read is one of its own origin's.
LEMMA ReadsOne ==
    ASSUME TypeOK, NEW o \in Origins, Reading(o)
    PROVE  /\ robots' \in [Origins -> [status : Readings, allowed : SUBSET Urls] \cup {None}]
           /\ \A x \in Origins : x # o => robots'[x] = robots[x]
<1>1. PICK status \in Readings, allowed \in SUBSET Urls :
          robots' = [robots EXCEPT ![o] = [status |-> status, allowed |-> allowed]]
    BY DEF Reading
<1> DEFINE policy == [status |-> status, allowed |-> allowed]
<1>2. policy \in [status : Readings, allowed : SUBSET Urls]
    OBVIOUS
<1>3. robots' = [robots EXCEPT ![o] = policy]
    BY <1>1
<1> HIDE DEF policy
<1> QED BY <1>2, <1>3 DEF TypeOK

\* A URL that was let through stays allowed as long as its policy is kept.
LEMMA PolicyKept ==
    ASSUME NEW u, Allowed(u), robots'[Origin[u]] = robots[Origin[u]]
    PROVE  Allowed(u)'
BY DEF Allowed, SafelyRead, Allows

-----------------------------------------------------------------------------
\* One step at a time. The invariant is CrawlInv with the types and the
\* policies.
Inv == TypeOK /\ CrawlInv /\ NothingForbidden

LEMMA InitInv == Init => Inv
<1> SUFFICES ASSUME Init PROVE Inv
    OBVIOUS
<1> USE Constants DEF Init
<1>1. TypeOK
    <2>1. <<Seed>> \in Seq(Urls)
        OBVIOUS
    <2> QED BY <2>1 DEF TypeOK
<1>2. Cardinality({Seed}) = 1 /\ Cardinality({}) = 0
    BY FS_Singleton, FS_EmptySet
<1>3. queue = <<Seed>> /\ Len(queue) = 1 /\ DOMAIN queue = 1 .. 1 /\ queue[1] = Seed
    OBVIOUS
<1>4. ToSet(queue) = {Seed} /\ \A i, j \in DOMAIN queue : queue[i] = queue[j] => i = j
    BY <1>3 DEF ToSet
<1>5. \A u \in visited : Variants(u, visited) = {}
    BY DEF Variants
<1>6. \A u \in visited : Cardinality(Variants(u, visited)) <= MaxQueryVariants
    BY <1>2, <1>5
<1>7. Cardinality(visited) = Len(queue) + processed + (IF current = None THEN 0 ELSE 1)
    BY <1>2, <1>3
<1>8. Cardinality(visited) <= MaxQueueUrls /\ Cardinality(reported) <= processed
    BY <1>2
<1>9. ToSet(queue) \cap (reported \cup {current}) = {}
    BY <1>4
<1>10. ToSet(queue) \subseteq visited /\ reported \subseteq visited /\ visited \subseteq Site /\ finals \subseteq Site
    BY <1>4
<1>11. /\ pc = "start" /\ current = None /\ blocked = None
       /\ passed = {} /\ queue = <<Seed>>
       /\ \A o \in Origins : robots[o] = None
    OBVIOUS
<1>12. CrawlInv
    BY ONLY <1>4, <1>6, <1>7, <1>8, <1>9, <1>10, <1>11 DEF CrawlInv
<1>13. NothingForbidden
    BY DEF NothingForbidden
<1> QED BY <1>1, <1>12, <1>13 DEF Inv

\* What sees the URL that is processed is neither waiting nor reported.
LEMMA CountsOne ==
    ASSUME NEW S \in SUBSET Urls, NEW u, NEW n \in Nat, Cardinality(S) <= n
    PROVE  Cardinality(S \cup {u}) <= n + 1 /\ IsFiniteSet(S)
<1>1. IsFiniteSet(S) /\ Cardinality(S) \in Nat
    BY Constants, FS_Subset, FS_CardinalityType
<1>2. Cardinality(S \cup {u}) = Cardinality(S) \/ Cardinality(S \cup {u}) = Cardinality(S) + 1
    BY <1>1, FS_AddElement
<1> QED BY <1>1, <1>2

LEMMA StartInv ==
    ASSUME Inv, Start
    PROVE  Inv'
<1>1. TypeOK /\ CrawlInv
    BY DEF Inv
<1>2. /\ pc = "start" /\ pc' = "pick"
      /\ UNCHANGED <<current, asked, at, blocked, hops, processed, reported, finals, passed>>
    BY DEF Start, pageVars
<1>3. PICK pages \in SUBSET Urls : Take(pages)
    BY Constants DEF Start
<1>4. robots' \in [Origins -> [status : Readings, allowed : SUBSET Urls] \cup {None}]
    BY <1>1, Constants, ReadsOne DEF Start
<1>5. PICK taken \in SUBSET Site :
              /\ taken \cap visited = {}
              /\ IsFiniteSet(taken) /\ Cardinality(taken) \in Nat
              /\ visited' = visited \cup taken
              /\ Cardinality(visited') = Cardinality(visited) + Cardinality(taken)
              /\ Cardinality(visited') <= MaxQueueUrls
              /\ \A u \in visited' : Cardinality(Variants(u, visited')) <= MaxQueryVariants
              /\ queue' \in Seq(Urls) /\ Len(queue') = Len(queue) + Cardinality(taken)
              /\ ToSet(queue') = ToSet(queue) \cup taken
              /\ \A i, j \in DOMAIN queue' : queue'[i] = queue'[j] => i = j
    BY <1>1, <1>3, TakesWithinLimits
<1>6. TypeOK'
    <2>1. visited' \subseteq Urls
        BY <1>1, <1>5, Constants DEF TypeOK
    <2> QED BY <1>1, <1>2, <1>4, <1>5, <2>1 DEF TypeOK
<1>7. passed = {} /\ current = None
    BY <1>1, <1>2 DEF CrawlInv
<1>8. CrawlInv'
    <2>1. Cardinality(visited') = Len(queue') + processed' + (IF current' = None THEN 0 ELSE 1)
        <3>1. Cardinality(visited) = Len(queue) + processed
            BY <1>1, <1>7 DEF CrawlInv, TypeOK
        <3>2. Len(queue) \in Nat /\ processed \in Nat
            BY <1>1, LenProperties DEF TypeOK
        <3> QED BY <1>2, <1>5, <1>7, <3>1, <3>2
    <2>2. ToSet(queue') \subseteq visited' /\ reported' \subseteq visited' /\ visited' \subseteq Site /\ finals' \subseteq Site
        BY <1>1, <1>2, <1>5 DEF CrawlInv
    <2>3. ToSet(queue') \cap (reported' \cup {current'}) = {}
        <3>1. taken \cap reported = {} /\ None \notin taken
            <4>1. reported \subseteq visited
                BY <1>1 DEF CrawlInv
            <4>2. taken \subseteq Urls
                BY <1>5, Constants
            <4> QED BY <1>5, <4>1, <4>2, Constants
        <3> QED BY <1>1, <1>2, <1>5, <1>7, <3>1 DEF CrawlInv
    <2>4. Cardinality(reported') <= processed' /\ blocked' \in Site \cup {None}
        BY <1>1, <1>2 DEF CrawlInv
    <2> QED BY <1>2, <1>5, <1>7, <2>1, <2>2, <2>3, <2>4 DEF CrawlInv
<1>9. NothingForbidden'
    BY <1>2, <1>7 DEF NothingForbidden
<1> QED BY <1>6, <1>8, <1>9 DEF Inv

LEMMA ReadRobotsInv ==
    ASSUME Inv, ReadRobots
    PROVE  Inv'
<1>1. TypeOK /\ CrawlInv /\ NothingForbidden
    BY DEF Inv
<1>2. /\ UNCHANGED <<pc, queue, visited, current, asked, at, blocked, hops, processed, reported,
                     finals, passed>>
      /\ pc # "start"
    BY DEF ReadRobots, pageVars
<1>3. PICK o \in Origins : robots[o] = None /\ Reading(o)
    <2>1. queue # <<>> => Head(queue) \in Urls
        BY <1>1, HeadTailProperties DEF TypeOK
    <2>2. CASE pc = "pick"
        BY <2>1, <2>2, Constants DEF ReadRobots
    <2>3. CASE pc # "pick"
        BY <2>3, Constants DEF ReadRobots
    <2> QED BY <2>2, <2>3
<1>4. /\ robots' \in [Origins -> [status : Readings, allowed : SUBSET Urls] \cup {None}]
      /\ \A x \in Origins : x # o => robots'[x] = robots[x]
    BY <1>1, <1>3, ReadsOne
<1>5. TypeOK'
    BY <1>1, <1>2, <1>4 DEF TypeOK
<1>6. CrawlInv'
    BY <1>1, <1>2 DEF CrawlInv, Variants
<1>7. NothingForbidden'
    <2>1. ASSUME NEW u \in passed PROVE Allowed(u)'
        <3>1. Allowed(u)
            BY <1>1 DEF NothingForbidden
        <3>2. Origin[u] # o /\ Origin[u] \in Origins
            BY <1>3, <3>1, Constants DEF Allowed
        <3> QED BY <1>4, <3>1, <3>2, PolicyKept
    <2> QED BY <1>2, <2>1 DEF NothingForbidden
<1> QED BY <1>5, <1>6, <1>7 DEF Inv

LEMMA PickInv ==
    ASSUME Inv, Pick
    PROVE  Inv'
<1> DEFINE u == Head(queue)
<1>1. TypeOK /\ CrawlInv /\ NothingForbidden
    BY DEF Inv
<1>2. /\ pc = "pick" /\ processed < PageLimit /\ queue # <<>>
      /\ queue' = Tail(queue) /\ UNCHANGED <<visited, robots, passed>>
    BY DEF Pick, More
<1>3. queue \in Seq(Urls) /\ ToSet(queue) \subseteq visited
      /\ \A i, j \in DOMAIN queue : queue[i] = queue[j] => i = j
    BY <1>1 DEF TypeOK, CrawlInv
<1>4. /\ u \in Urls /\ queue' \in Seq(Urls) /\ Len(queue') = Len(queue) - 1
      /\ u \in ToSet(queue) /\ ToSet(queue') = ToSet(queue) \ {u}
      /\ \A i, j \in DOMAIN queue' : queue'[i] = queue'[j] => i = j
    BY <1>2, <1>3, QueueServed
<1>5. u \in visited /\ u \in Site /\ u \notin reported /\ u # None
    BY <1>1, <1>3, <1>4, Constants DEF CrawlInv
<1>6. current = None /\ Cardinality(visited) = Len(queue) + processed
      /\ Len(queue) \in Nat /\ processed \in Nat
    <2>1. current = None
        BY <1>1, <1>2 DEF CrawlInv
    <2>2. Len(queue) \in Nat /\ processed \in Nat
        BY <1>1, LenProperties DEF TypeOK
    <2> QED BY <1>1, <2>1, <2>2 DEF CrawlInv
<1>7. \/ /\ current' = u /\ asked' = u /\ pc' = "ask"
         /\ UNCHANGED <<at, blocked, hops, processed, reported, finals>>
      \/ /\ reported' = reported \cup {u} /\ finals' = finals \cup {u}
         /\ processed' = processed + 1 /\ pc' = "pick"
         /\ current' = None /\ asked' = None /\ at' = None /\ blocked' = None /\ hops' = 0
    BY DEF Pick, Report, NextPage
<1> HIDE DEF u
<1>8. TypeOK'
    <2>1. processed + 1 \in 0 .. PageLimit
        BY <1>1, <1>2, Constants DEF TypeOK
    <2>2. 0 \in 0 .. MaxHops
        BY Constants
    <2> QED BY <1>1, <1>2, <1>4, <1>7, <2>1, <2>2 DEF TypeOK
<1>9. CrawlInv'
    <2>1. Cardinality(visited') = Len(queue') + processed' + (IF current' = None THEN 0 ELSE 1)
        BY <1>2, <1>4, <1>5, <1>6, <1>7
    <2>2. Cardinality(reported') <= processed'
        <3>1. Cardinality(reported) <= processed
            BY <1>1 DEF CrawlInv
        <3>2. Cardinality(reported \cup {u}) <= processed + 1
            BY <1>1, <1>6, <3>1, CountsOne DEF TypeOK
        <3> QED BY <1>7, <3>1, <3>2
    <2>3. ToSet(queue') \subseteq visited' /\ reported' \subseteq visited' /\ visited' \subseteq Site /\ finals' \subseteq Site
        BY <1>1, <1>2, <1>4, <1>5, <1>7 DEF CrawlInv
    <2>4. ToSet(queue') \cap (reported' \cup {current'}) = {}
        <3>1. None \notin ToSet(queue)
            BY <1>1, <1>6 DEF CrawlInv
        <3>2. ToSet(queue) \cap reported = {}
            BY <1>1 DEF CrawlInv
        <3> QED BY <1>4, <1>7, <3>1, <3>2
    <2>5. /\ (pc' \in {"ask", "load"}) <=> (current' # None)
          /\ pc' \in {"ask", "load"} => current' \in visited' \ reported' /\ processed' < PageLimit
          /\ pc' # "start" /\ blocked' \in Site \cup {None}
        BY <1>1, <1>2, <1>4, <1>5, <1>7 DEF CrawlInv
    <2>6. /\ Cardinality(visited') <= MaxQueueUrls
          /\ \A w \in visited' : Cardinality(Variants(w, visited')) <= MaxQueryVariants
        BY <1>1, <1>2 DEF CrawlInv
    <2> QED BY <1>4, <2>1, <2>2, <2>3, <2>4, <2>5, <2>6 DEF CrawlInv
<1>10. NothingForbidden'
    BY <1>1, <1>2 DEF NothingForbidden, Allowed, SafelyRead, Allows
<1> QED BY <1>8, <1>9, <1>10 DEF Inv

\* What a page that is processed leaves: where the crawl stands, and the count
\* of a page that is reported as f, or not at all.
LEMMA Processed ==
    ASSUME Inv, pc \in {"ask", "load"}
    PROVE  /\ TypeOK /\ CrawlInv /\ NothingForbidden
           /\ current \in visited /\ current \in Site /\ current \in Urls /\ current \notin reported
           /\ current # None /\ current \notin ToSet(queue) /\ ToSet(queue) \cap reported = {}
           /\ None \notin ToSet(queue)
           /\ processed \in Nat /\ processed + 1 \in 0 .. PageLimit /\ 0 \in 0 .. MaxHops
           /\ Len(queue) \in Nat /\ Cardinality(visited) = Len(queue) + processed + 1
           /\ Cardinality(reported) <= processed
           /\ Cardinality(reported \cup {current}) <= processed + 1
<1>1. TypeOK /\ CrawlInv /\ NothingForbidden
    BY DEF Inv
<1>2. current \in visited \ reported /\ processed < PageLimit /\ current # None /\ visited \subseteq Site
    BY <1>1 DEF CrawlInv
<1>3. processed \in Nat /\ processed + 1 \in 0 .. PageLimit /\ 0 \in 0 .. MaxHops /\ Len(queue) \in Nat
    BY <1>1, <1>2, Constants, LenProperties DEF TypeOK
<1>4. ToSet(queue) \cap reported = {} /\ current \notin ToSet(queue) /\ ToSet(queue) \subseteq Site
    BY <1>1 DEF CrawlInv
<1>5. Cardinality(reported) <= processed
    BY <1>1 DEF CrawlInv
<1>6. Cardinality(reported \cup {current}) <= processed + 1
    BY <1>1, <1>3, <1>5, CountsOne DEF TypeOK
<1>7. Cardinality(visited) = Len(queue) + processed + 1
    BY <1>1, <1>2 DEF CrawlInv
<1>8. current \in Site /\ current \in Urls /\ None \notin ToSet(queue)
    <2>1. Site \subseteq Urls /\ None \notin Urls
        BY Constants
    <2> QED BY <1>2, <1>4, <2>1
<1> QED BY <1>1, <1>2, <1>3, <1>4, <1>5, <1>6, <1>7, <1>8

\* What was let through stays allowed when another URL joins it.
LEMMA PassedAllowed ==
    ASSUME Inv, UNCHANGED robots,
           passed' = passed \/ (LetThrough /\ passed' = passed \cup {asked})
    PROVE  NothingForbidden'
<1>1. \A u \in passed : Allowed(u)
    BY DEF Inv, NothingForbidden
<1>2. LetThrough => Allowed(asked)
    BY DEF LetThrough, Allowed
<1>3. \A u \in passed' : Allowed(u)
    BY <1>1, <1>2
<1>4. \A u \in passed' : Allowed(u)'
    BY <1>3, PolicyKept
<1> QED BY <1>4 DEF NothingForbidden

\* A step that ends the processing of a page without touching the frontier.
LEMMA PageEnds ==
    ASSUME Inv, pc \in {"ask", "load"}, NEW f \in Site,
           \/ reported' = reported \cup {current} /\ finals' = finals \cup {f}
           \/ reported' = reported /\ finals' = finals,
           NextPage, UNCHANGED <<queue, visited, robots, passed>>
    PROVE  Inv'
<1> USE DEF NextPage
<1>1. /\ TypeOK /\ CrawlInv
      /\ current \in visited /\ current \in Urls /\ None \notin ToSet(queue)
      /\ current \notin ToSet(queue) /\ ToSet(queue) \cap reported = {} /\ current # None
      /\ processed \in Nat /\ processed + 1 \in 0 .. PageLimit /\ 0 \in 0 .. MaxHops
      /\ Len(queue) \in Nat /\ Cardinality(visited) = Len(queue) + processed + 1
      /\ Cardinality(reported) <= processed
      /\ Cardinality(reported \cup {current}) <= processed + 1
    BY Processed
<1>2. TypeOK'
    <2>1. f \in Urls
        BY Constants
    <2> QED BY <1>1, <2>1 DEF TypeOK
<1>3. Cardinality(visited') = Len(queue') + processed' + (IF current' = None THEN 0 ELSE 1)
    BY <1>1
<1>4. Cardinality(reported') <= processed'
    <2>1. IsFiniteSet(reported)
        BY <1>1, Constants, FS_Subset DEF TypeOK
    <2>2. Cardinality(reported) \in Nat
        BY <2>1, FS_CardinalityType
    <2>3. Cardinality(reported) <= processed + 1
        BY <1>1, <2>2
    <2> QED BY <1>1, <2>3
<1>5. ToSet(queue') \cap (reported' \cup {current'}) = {}
    BY <1>1
<1>6. ToSet(queue') \subseteq visited' /\ reported' \subseteq visited' /\ visited' \subseteq Site /\ finals' \subseteq Site
    BY <1>1 DEF CrawlInv
<1>7. /\ \A i, j \in DOMAIN queue' : queue'[i] = queue'[j] => i = j
      /\ Cardinality(visited') <= MaxQueueUrls
      /\ \A w \in visited' : Cardinality(Variants(w, visited')) <= MaxQueryVariants
    BY <1>1 DEF CrawlInv
<1>8. CrawlInv'
    BY <1>3, <1>4, <1>5, <1>6, <1>7 DEF CrawlInv
<1>9. NothingForbidden'
    BY PassedAllowed
<1> QED BY <1>2, <1>8, <1>9 DEF Inv

\* A step of the browser: the frontier and what was reported stay.
LEMMA BrowserInv ==
    ASSUME Inv, pc \in {"ask", "load"}, pc' \in {"ask", "load"}, UNCHANGED crawlVars,
           asked' \in Urls \cup {None}, at' \in Urls \cup {None}, blocked' \in Site \cup {None},
           hops' \in 0 .. MaxHops,
           passed' = passed \/ (LetThrough /\ passed' = passed \cup {asked})
    PROVE  Inv'
<1>1. TypeOK /\ CrawlInv
    BY DEF Inv
<1>2. NothingForbidden'
    BY PassedAllowed DEF crawlVars
<1>3. passed' \subseteq Urls
    BY <1>2, Constants DEF NothingForbidden, Allowed
<1>4. TypeOK'
    BY <1>1, <1>3, Constants DEF TypeOK, crawlVars
<1>5. CrawlInv'
    BY <1>1 DEF CrawlInv, Variants, crawlVars
<1> QED BY <1>2, <1>4, <1>5 DEF Inv

LEMMA BrowserMoves ==
    ASSUME Inv, Through \/ Blocked \/ Redirected \/ Navigates
    PROVE  Inv'
<1>1. TypeOK /\ blocked \in Site \cup {None}
    BY DEF Inv, CrawlInv
<1>2. CASE Through
    <2>1. asked \in Urls
        BY <1>2, Constants DEF Through, LetThrough
    <2> QED BY <1>1, <1>2, <2>1, BrowserInv DEF Through, TypeOK
<1>3. CASE Blocked
    <2>1. blocked' \in Site \cup {None}
        BY <1>1, <1>3 DEF Blocked
    <2> QED BY <1>1, <1>3, <2>1, BrowserInv DEF Blocked, TypeOK
<1>4. CASE Redirected \/ Navigates
    <2>1. hops' \in 0 .. MaxHops
        BY <1>1, <1>4, Constants DEF Redirected, Navigates, TypeOK
    <2> QED BY <1>1, <1>4, <2>1, BrowserInv DEF Redirected, Navigates, TypeOK
<1> QED BY <1>2, <1>3, <1>4

LEMMA FailedInv ==
    ASSUME Inv, Failed
    PROVE  Inv'
<1> DEFINE f == IF blocked = None THEN current ELSE blocked
<1>1. /\ pc \in {"ask", "load"} /\ UNCHANGED <<queue, visited, robots, passed>>
      /\ reported' = reported \cup {current} /\ finals' = finals \cup {f} /\ NextPage
    BY DEF Failed, Report
<1>2. f \in Site
    BY <1>1, Processed DEF CrawlInv
<1> HIDE DEF f
<1> QED BY <1>1, <1>2, PageEnds

LEMMA NotHtmlInv ==
    ASSUME Inv, NotHtml
    PROVE  Inv'
BY Constants, PageEnds DEF NotHtml, Kept

LEMMA LoadedInv ==
    ASSUME Inv, Loaded
    PROVE  Inv'
<1>1. /\ pc = "load" /\ at \in Site /\ UNCHANGED <<robots, passed>>
      /\ reported' = reported \cup {current} /\ finals' = finals \cup {at}
      /\ processed' = processed + 1 /\ pc' = "pick" /\ current' = None
      /\ asked' = None /\ at' = None /\ blocked' = None /\ hops' = 0
    BY DEF Loaded, Kept, Report, NextPage
<1>2. NothingForbidden'
    BY <1>1, PassedAllowed
<1>3. /\ TypeOK /\ CrawlInv
      /\ current \in visited /\ current \in Urls /\ None \notin ToSet(queue)
      /\ current \notin ToSet(queue) /\ ToSet(queue) \cap reported = {} /\ current # None
      /\ processed \in Nat /\ processed + 1 \in 0 .. PageLimit /\ 0 \in 0 .. MaxHops
      /\ Len(queue) \in Nat /\ Cardinality(visited) = Len(queue) + processed + 1
      /\ Cardinality(reported \cup {current}) <= processed + 1
    BY <1>1, Processed
<1>4. PICK links \in SUBSET Urls : Take(links)
    BY DEF Loaded
<1>5. PICK taken \in SUBSET Site :
              /\ taken \cap visited = {}
              /\ IsFiniteSet(taken) /\ Cardinality(taken) \in Nat
              /\ visited' = visited \cup taken
              /\ Cardinality(visited') = Cardinality(visited) + Cardinality(taken)
              /\ Cardinality(visited') <= MaxQueueUrls
              /\ \A u \in visited' : Cardinality(Variants(u, visited')) <= MaxQueryVariants
              /\ queue' \in Seq(Urls) /\ Len(queue') = Len(queue) + Cardinality(taken)
              /\ ToSet(queue') = ToSet(queue) \cup taken
              /\ \A i, j \in DOMAIN queue' : queue'[i] = queue'[j] => i = j
    BY <1>3, <1>4, TakesWithinLimits
<1>6. at \in Site /\ at \in Urls
    BY <1>1, Constants
<1>7. TypeOK'
    <2>1. visited' \subseteq Urls
        BY <1>3, <1>5, Constants DEF TypeOK
    <2>2. /\ reported' \subseteq Urls /\ finals' \subseteq Urls /\ passed' \subseteq Urls
          /\ robots' \in [Origins -> [status : Readings, allowed : SUBSET Urls] \cup {None}]
        BY <1>1, <1>3, <1>6 DEF TypeOK
    <2>3. queue' \in Seq(Urls)
        BY <1>5
    <2>4. /\ pc' = "pick" /\ current' = None /\ asked' = None /\ at' = None /\ blocked' = None
          /\ hops' \in 0 .. MaxHops /\ processed' \in 0 .. PageLimit
        BY <1>1, <1>3
    <2> QED BY ONLY <2>1, <2>2, <2>3, <2>4 DEF TypeOK
<1>8. CrawlInv'
    <2>1. Cardinality(visited') = Len(queue') + processed' + (IF current' = None THEN 0 ELSE 1)
        <3>1. Cardinality(visited') = (Len(queue) + processed + 1) + Cardinality(taken)
            BY <1>3, <1>5
        <3>2. /\ Len(queue') = Len(queue) + Cardinality(taken) /\ processed' = processed + 1
              /\ Len(queue) \in Nat /\ processed \in Nat /\ Cardinality(taken) \in Nat
              /\ current' = None
            BY <1>1, <1>3, <1>5
        <3> QED BY ONLY <3>1, <3>2
    <2>2. ToSet(queue') \subseteq visited' /\ reported' \subseteq visited' /\ visited' \subseteq Site /\ finals' \subseteq Site
        BY <1>1, <1>3, <1>5, <1>6 DEF CrawlInv
    <2>3. ToSet(queue') \cap (reported' \cup {current'}) = {}
        <3>1. reported' \subseteq visited
            BY <1>1, <1>3 DEF CrawlInv
        <3>2. None \notin taken
            BY <1>5, Constants
        <3>3. ToSet(queue) \cap reported' = {}
            BY <1>1, <1>3
        <3> QED BY <1>1, <1>3, <1>5, <3>1, <3>2, <3>3
    <2>4. Cardinality(reported') <= processed'
        BY <1>1, <1>3
    <2> QED BY <1>1, <1>5, <2>1, <2>2, <2>3, <2>4 DEF CrawlInv
<1> QED BY <1>2, <1>7, <1>8 DEF Inv

\* Finish moves the crawl's state only.
LEMMA FinishInv ==
    ASSUME Inv, Finish
    PROVE  Inv'
<1>1. /\ pc = "pick" /\ pc' = "done"
      /\ UNCHANGED <<queue, visited, robots, current, processed, reported, finals>>
      /\ UNCHANGED <<asked, at, blocked, hops, passed>>
    BY DEF Finish, crawlVars, pageVars
<1>2. TypeOK /\ CrawlInv
    BY DEF Inv
<1>3. TypeOK'
    BY <1>1, <1>2 DEF TypeOK
<1>4. current = None
    BY <1>1, <1>2 DEF CrawlInv
<1>5. CrawlInv'
    BY <1>1, <1>2, <1>4 DEF CrawlInv, Variants
<1>6. NothingForbidden'
    BY <1>1, PassedAllowed
<1> QED BY <1>3, <1>5, <1>6 DEF Inv

LEMMA StutterInv ==
    ASSUME Inv, UNCHANGED vars
    PROVE  Inv'
BY DEF Inv, vars, crawlVars, pageVars, TypeOK, CrawlInv, Variants, NothingForbidden, Allowed,
       SafelyRead, Allows

LEMMA InvHolds == Spec => []Inv
<1>1. Init => Inv
    BY InitInv
<1>2. Inv /\ [Next]_vars => Inv'
    BY StartInv, ReadRobotsInv, PickInv, BrowserMoves, LoadedInv, NotHtmlInv, FailedInv,
       FinishInv, StutterInv DEF Next
<1> QED BY <1>1, <1>2, PTL DEF Spec

-----------------------------------------------------------------------------
(***************************************************************************)
(* The theorems.                                                           *)
(***************************************************************************)

\* Whatever the site answers, the route handler lets the browser through to
\* public, in-scope URLs only that the policy of their own origin allows, for the
\* pages the crawl requests and for those a page goes to by itself (a server's
\* redirect is followed unasked); and every URL the frontier took waits, is being
\* processed, or was counted, once, within the limits of the frontier.
THEOREM CrawlIsSound == Spec => []CrawlSound
<1>1. Inv => CrawlSound
    <2> SUFFICES ASSUME Inv PROVE CrawlSound
        OBVIOUS
    <2>1. TypeOK /\ CrawlInv /\ NothingForbidden
        BY DEF Inv
    <2>2. Cardinality(ToSet(queue)) = Len(queue)
        BY <2>1, QueueCounted DEF TypeOK, CrawlInv
    <2>3. FrontierAccounts
        BY <2>1, <2>2 DEF CrawlInv, FrontierAccounts
    <2> QED BY <2>1, <2>3 DEF CrawlSound
<1> QED BY <1>1, InvHolds, PTL

\* The pages a page that is processed may be reported as are those of the site,
\* each requested URL is reported once and there is room for it.
LEMMA ReportsFit ==
    ASSUME Inv, NEW u \in visited, NEW f \in Site, u \notin reported, processed < PageLimit,
           reported' = reported \cup {u}, finals' = finals \cup {f}, pc # "done", pc' # "done"
    PROVE  Promise!Next
<1>1. TypeOK /\ CrawlInv
    BY DEF Inv
<1>2. u \in Site
    BY <1>1 DEF CrawlInv
<1>3. Cardinality(reported) \in Nat /\ Cardinality(reported) <= processed /\ processed \in Nat
    <2>1. IsFiniteSet(reported)
        BY <1>1, Constants, FS_Subset DEF TypeOK
    <2>2. Cardinality(reported) \in Nat
        BY <2>1, FS_CardinalityType
    <2> QED BY <1>1, <2>2 DEF TypeOK, CrawlInv
<1>4. Cardinality(reported) < PageLimit
    BY <1>3, Constants
<1>5. (pc' # "done") = (pc # "done")
    OBVIOUS
<1>6. Promise!Report(u, f)
    <2>1. Promise!Cardinality(reported) = Cardinality(reported)
        BY DEF Promise!Cardinality, Cardinality
    <2>2. Promise!Cardinality(reported) < PageLimit
        BY <1>4, <2>1
    <2> QED BY <1>5, <2>2 DEF Promise!Report
<1> QED BY <1>2, <1>6 DEF Promise!Next

LEMMA StepPromised ==
    ASSUME Inv, [Next]_vars
    PROVE  Promise!Next \/ UNCHANGED <<reported, finals, pc # "done">>
<1>1. TypeOK /\ CrawlInv
    BY DEF Inv
<1>2. ASSUME pc # "done", pc' # "done", reported' = reported, finals' = finals
      PROVE  UNCHANGED <<reported, finals, pc # "done">>
    <2>1. (pc' # "done") = (pc # "done")
        BY <1>2
    <2> QED BY <1>2, <2>1
<1>3. pc \in {"ask", "load"} => current \in visited /\ current \in Site /\ current \notin reported /\ processed < PageLimit
    BY <1>1, Processed DEF CrawlInv
<1>4. CASE Start
    <2>1. pc # "done" /\ pc' # "done" /\ reported' = reported /\ finals' = finals
        BY <1>4 DEF Start
    <2> QED BY <1>2, <2>1
<1>5. CASE ReadRobots
    <2>1. pc # "done" /\ pc' # "done" /\ reported' = reported /\ finals' = finals
        BY <1>5 DEF ReadRobots
    <2> QED BY <1>2, <2>1
<1>6. CASE Pick
    <2> DEFINE u == Head(queue)
    <2>1. pc = "pick" /\ processed < PageLimit /\ queue # <<>>
        BY <1>6 DEF Pick, More
    <2>2. queue \in Seq(Urls) /\ ToSet(queue) \subseteq visited /\ visited \subseteq Site
          /\ ToSet(queue) \cap reported = {}
          /\ \A i, j \in DOMAIN queue : queue[i] = queue[j] => i = j
        BY <1>1 DEF TypeOK, CrawlInv
    <2>3. u \in ToSet(queue)
        BY <2>1, <2>2, QueueServed
    <2>4. u \in visited /\ u \in Site /\ u \notin reported
        BY <2>2, <2>3
    <2>5. \/ pc' = "ask" /\ reported' = reported /\ finals' = finals
          \/ pc' = "pick" /\ reported' = reported \cup {u} /\ finals' = finals \cup {u}
        BY <1>6 DEF Pick, Report, NextPage
    <2> HIDE DEF u
    <2> QED BY <1>2, <2>1, <2>4, <2>5, ReportsFit
<1>7. CASE Through \/ Blocked \/ Redirected \/ Navigates
    <2>1. pc # "done" /\ pc' # "done" /\ reported' = reported /\ finals' = finals
        BY <1>7 DEF Through, Blocked, Redirected, Navigates, crawlVars
    <2> QED BY <1>2, <2>1
<1>9. CASE Loaded
    <2>1. pc = "load" /\ pc' = "pick" /\ reported' = reported \cup {current} /\ finals' = finals \cup {at}
          /\ at \in Site
        BY <1>9 DEF Loaded, Kept, Report, NextPage
    <2> QED BY <1>3, <2>1, ReportsFit
<1>10. CASE NotHtml
    <2>1. pc # "done" /\ pc' # "done" /\ reported' = reported /\ finals' = finals
        BY <1>10 DEF NotHtml, Kept, NextPage
    <2> QED BY <1>2, <2>1
<1>11. CASE Failed
    <2> DEFINE f == IF blocked = None THEN current ELSE blocked
    <2>1. pc \in {"ask", "load"} /\ pc' = "pick" /\ reported' = reported \cup {current}
          /\ finals' = finals \cup {f}
        BY <1>11 DEF Failed, Report, NextPage
    <2>2. f \in Site
        BY <1>1, <1>3, <2>1 DEF CrawlInv
    <2> HIDE DEF f
    <2> QED BY <1>3, <2>1, <2>2, ReportsFit
<1>12. CASE Finish
    <2>1. pc = "pick" /\ pc' = "done" /\ reported' = reported /\ finals' = finals
        BY <1>12 DEF Finish, crawlVars
    <2>2. (pc' # "done") = FALSE /\ (pc # "done")
        BY <2>1
    <2>3. Promise!Close
        BY <2>1, <2>2 DEF Promise!Close
    <2> QED BY <2>3 DEF Promise!Next
<1>13. CASE UNCHANGED vars
    <2>1. pc' = pc /\ reported' = reported /\ finals' = finals
        BY <1>13 DEF vars, crawlVars
    <2>2. (pc' # "done") = (pc # "done")
        BY <2>1
    <2> QED BY <2>1, <2>2
<1> QED BY <1>4, <1>5, <1>6, <1>7, <1>9, <1>10, <1>11, <1>12, <1>13 DEF Next

\* The crawl does what its audit counts on, step by step: it reports pages of
\* the site, each requested URL at most once, never more of them than the
\* limit, and none after it is over.
THEOREM CrawlImplementsPromise ==
    Spec => Promise!Init /\ [][Promise!Next]_<<reported, finals, pc # "done">>
<1>1. Init => Promise!Init
    <2> SUFFICES ASSUME Init PROVE Promise!Init
        OBVIOUS
    <2>1. reported = {} /\ finals = {} /\ pc = "start"
        BY DEF Init
    <2>2. (pc # "done") = TRUE
        BY <2>1
    <2> QED BY <2>1, <2>2 DEF Promise!Init
<1>2. Inv /\ [Next]_vars => [Promise!Next]_<<reported, finals, pc # "done">>
    BY StepPromised
<1> QED BY <1>1, <1>2, InvHolds, PTL DEF Spec

=============================================================================
