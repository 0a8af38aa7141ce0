--------------------------- MODULE NumberLemmas ---------------------------
(***************************************************************************)
(* Sums, places and remainders.  SumFunctionOnSet of the community modules *)
(* takes the elements in the order CHOOSE gives them; the lemmas show that *)
(* the order does not matter, that what is counted class by class adds up, *)
(* and how sums compare; that every place among some numbers is one's, and *)
(* one's alone; and where two strides meet.  Induction is over a set of    *)
(* sets, or from the smallest number that fails, so that no operator is    *)
(* taken as a parameter.                                                   *)
(***************************************************************************)
EXTENDS Integers, Functions, FiniteSets, FiniteSetsExt, FiniteSetTheorems, TLAPS

LEMMA SmallestNumber ==
  ASSUME NEW N, N \subseteq Nat, N # {}
  PROVE  \E n \in N : \A m \in N : n <= m
<1>. DEFINE Below == {pair \in Nat \X Nat : pair[1] < pair[2]}
<1>1. IsWellFoundedOn(Below, Nat)
  BY NatLessThanWellFounded DEF OpToRel
<1>2. PICK n \in N : \A m \in N : <<m, n>> \notin Below
  BY <1>1, WFMin
<1>3. \A m \in N : n <= m
  <2>. SUFFICES ASSUME NEW m \in N, m < n PROVE FALSE
    BY <1>2
  <2>1. <<m, n>> \in Nat \X Nat /\ <<m, n>>[1] < <<m, n>>[2]
    OBVIOUS
  <2>. QED
    BY <1>2, <2>1
<1>. QED
  BY <1>3

\* The largest of some of the numbers up to n.
LEMMA Largest ==
  ASSUME NEW n \in Nat, NEW T \in SUBSET (1 .. n), T # {}
  PROVE  Max(T) \in T /\ \A m \in T : m <= Max(T)
<1>. DEFINE Distances == {n - m : m \in T}
<1>1. \A m \in T : n - m \in Nat /\ m \in Nat
  OBVIOUS
<1>2. Distances \subseteq Nat /\ Distances # {}
  BY <1>1
<1>3. PICK d \in Distances : \A e \in Distances : d <= e
  <2>. HIDE DEF Distances
  <2>. QED
    BY <1>2, SmallestNumber
<1>4. PICK x \in T : d = n - x
  OBVIOUS
<1>5. \A m \in T : n - x <= n - m
  BY <1>3, <1>4
<1>6. \A m \in T : x >= m
  BY <1>1, <1>5
<1>7. Max(T) \in T /\ \A m \in T : Max(T) >= m
  BY <1>6 DEF Max
<1>8. \A m \in T : m \in Nat
  OBVIOUS
<1>. QED
  BY <1>7, <1>8

\* What holds of the empty set, and of a set with one more element whenever it
\* holds of the set, holds of every finite set.
LEMMA SetInduction ==
  ASSUME NEW S, IsFiniteSet(S), NEW P, {} \in P,
         \A T \in SUBSET S, x \in S : (T \in P /\ x \notin T) => T \cup {x} \in P
  PROVE  S \in P
<1>. DEFINE Left == {T \in SUBSET S : T \notin P}
            Sizes == {Cardinality(T) : T \in Left}
<1>. SUFFICES ASSUME Left # {} PROVE FALSE
  OBVIOUS
<1>1. \A T \in SUBSET S : IsFiniteSet(T) /\ Cardinality(T) \in Nat
  BY FS_Subset, FS_CardinalityType
<1>2. Sizes \subseteq Nat /\ Sizes # {}
  BY <1>1
<1>3. PICK n \in Sizes : \A m \in Sizes : n <= m
  <2>. HIDE DEF Sizes
  <2>. QED
    BY <1>2, SmallestNumber
<1>4. PICK T \in Left : n = Cardinality(T)
  OBVIOUS
<1>5. T # {}
  OBVIOUS
<1>6. PICK x \in T : TRUE
  BY <1>5
<1>7. Cardinality(T \ {x}) = n - 1 /\ n \in Nat
  BY <1>1, <1>4, FS_RemoveElement
<1>8. T \ {x} \notin Left
  BY <1>3, <1>7
<1>9. T \ {x} \in P /\ x \in S /\ (T \ {x}) \cup {x} = T
  BY <1>8
<1>. QED
  BY <1>9

-----------------------------------------------------------------------------
\* A sum takes one element off at a time.

FirstOf(T) == CHOOSE x \in T : TRUE
Adds(f, S, sum) ==
  sum = [T \in SUBSET S |-> IF T = {} THEN 0 ELSE f[FirstOf(T)] + sum[T \ {FirstOf(T)}]]

LEMMA SumOfSteps ==
  ASSUME NEW f, NEW S
  PROVE  SumFunctionOnSet(f, S) = (CHOOSE sum : Adds(f, S, sum))[S]
BY DEF SumFunctionOnSet, FoldFunctionOnSet, MapThenFoldSet, Adds, FirstOf

LEMMA FirstIn == ASSUME NEW T, T # {} PROVE FirstOf(T) \in T
BY DEF FirstOf

\* There is such a sum: it is built up by the size of the sets.
LEMMA StepsExist ==
  ASSUME NEW f, NEW S, IsFiniteSet(S)
  PROVE  \E sum : Adds(f, S, sum)
<1>. DEFINE Sized(U) == {T \in SUBSET S : Cardinality(T) <= Cardinality(U)}
            On(U, g) == \A T \in Sized(U) :
                g[T] = IF T = {} THEN 0 ELSE f[FirstOf(T)] + g[T \ {FirstOf(T)}]
            P == {U \in SUBSET S : \E g : On(U, g)}
<1>0. \A T \in SUBSET S : IsFiniteSet(T) /\ Cardinality(T) \in Nat
  BY FS_Subset, FS_CardinalityType
<1>1. {} \in P
  <2>. DEFINE g == [T \in {{}} |-> 0]
  <2>1. \A T \in Sized({}) : T = {}
    BY <1>0, FS_EmptySet
  <2>2. On({}, g)
    BY <2>1
  <2>. QED
    BY <2>2
<1>2. ASSUME NEW U \in SUBSET S, NEW x \in S, U \in P, x \notin U
      PROVE  U \cup {x} \in P
  <2>1. PICK g : On(U, g)
    BY <1>2
  <2>. DEFINE h == [T \in SUBSET S |->
                      IF T \in Sized(U) THEN g[T] ELSE f[FirstOf(T)] + g[T \ {FirstOf(T)}]]
  <2>2. Cardinality(U \cup {x}) = Cardinality(U) + 1
    BY <1>0, <1>2, FS_AddElement
  <2>3. ASSUME NEW T \in SUBSET S, T # {}, Cardinality(T) <= Cardinality(U) + 1
        PROVE  T \ {FirstOf(T)} \in Sized(U) 
    <3>1. FirstOf(T) \in T
      BY <2>3, FirstIn
    <3>2. Cardinality(T \ {FirstOf(T)}) = Cardinality(T) - 1
      BY <1>0, <3>1, FS_RemoveElement
    <3>. QED
      BY <1>0, <2>3, <3>2
  <2>4. ASSUME NEW T \in Sized(U \cup {x})
        PROVE  h[T] = IF T = {} THEN 0 ELSE f[FirstOf(T)] + h[T \ {FirstOf(T)}]
    <3>1. CASE T = {}
      <4>1. T \in Sized(U)
        BY <1>0, <3>1, FS_EmptySet
      <4>. QED
        BY <2>1, <3>1, <4>1
    <3>2. CASE T # {}
      <4>1. T \ {FirstOf(T)} \in Sized(U)
        BY <2>2, <2>3, <3>2
      <4>2. h[T \ {FirstOf(T)}] = g[T \ {FirstOf(T)}]
        BY <4>1
      <4>3. h[T] = f[FirstOf(T)] + g[T \ {FirstOf(T)}]
        BY <2>1, <3>2
      <4>. QED
        BY <3>2, <4>2, <4>3
    <3>. QED
      BY <3>1, <3>2
  <2>5. On(U \cup {x}, h)
    <3>. HIDE DEF h
    <3>. QED
      BY <2>4
  <2>. QED
    BY <2>5
<1>3. S \in P
  <2>. HIDE DEF P
  <2>. QED
    BY <1>1, <1>2, SetInduction
<1>4. PICK g : On(S, g)
  BY <1>3
<1>5. \A T \in SUBSET S : T \in Sized(S)
  BY FS_Subset
<1>. DEFINE sum == [T \in SUBSET S |-> g[T]]
<1>6. ASSUME NEW T \in SUBSET S
      PROVE  sum[T] = IF T = {} THEN 0 ELSE f[FirstOf(T)] + sum[T \ {FirstOf(T)}]
  <2>1. g[T] = IF T = {} THEN 0 ELSE f[FirstOf(T)] + g[T \ {FirstOf(T)}]
    BY <1>4, <1>5
  <2>. QED
    BY <2>1
<1>7. Adds(f, S, sum)
  <2>1. sum = [T \in SUBSET S |-> sum[T]]
    OBVIOUS
  <2>. HIDE DEF sum
  <2>. QED
    BY <1>6, <2>1 DEF Adds
<1>. QED
  BY <1>7

\* Two of them, over a set and over a part of it, agree on the part.
LEMMA StepsAgree ==
  ASSUME NEW f, NEW S, NEW R \in SUBSET S, IsFiniteSet(S),
         NEW a, Adds(f, S, a), NEW b, Adds(f, R, b)
  PROVE  a[R] = b[R]
<1>. DEFINE P == {T \in SUBSET R : \A V \in SUBSET R : Cardinality(V) <= Cardinality(T) => a[V] = b[V]}
<1>0. \A T \in SUBSET S : IsFiniteSet(T) /\ Cardinality(T) \in Nat
  BY FS_Subset, FS_CardinalityType
<1>01. \A V \in SUBSET R : /\ a[V] = (IF V = {} THEN 0 ELSE f[FirstOf(V)] + a[V \ {FirstOf(V)}])
                           /\ b[V] = (IF V = {} THEN 0 ELSE f[FirstOf(V)] + b[V \ {FirstOf(V)}])
  BY DEF Adds
<1>1. {} \in P
  <2>1. \A V \in SUBSET R : Cardinality(V) <= Cardinality({}) => V = {}
    BY <1>0, FS_EmptySet
  <2>. QED
    BY <1>01, <2>1
<1>2. ASSUME NEW T \in SUBSET R, NEW x \in R, T \in P, x \notin T
      PROVE  T \cup {x} \in P
  <2>1. Cardinality(T \cup {x}) = Cardinality(T) + 1
    BY <1>0, <1>2, FS_AddElement
  <2>2. ASSUME NEW V \in SUBSET R, Cardinality(V) <= Cardinality(T) + 1, V # {}
        PROVE  a[V] = b[V]
    <3>1. FirstOf(V) \in V
      BY <2>2, FirstIn
    <3>2. Cardinality(V \ {FirstOf(V)}) = Cardinality(V) - 1
      BY <1>0, <3>1, FS_RemoveElement
    <3>3. Cardinality(V \ {FirstOf(V)}) <= Cardinality(T)
      BY <1>0, <2>2, <3>2
    <3>4. a[V \ {FirstOf(V)}] = b[V \ {FirstOf(V)}]
      BY <1>2, <3>3
    <3>. QED
      BY <1>01, <2>2, <3>4
  <2>3. a[{}] = b[{}]
    BY <1>01
  <2>. QED
    BY <2>1, <2>2, <2>3
<1>3. R \in P
  <2>. HIDE DEF P
  <2>1. IsFiniteSet(R)
    BY <1>0
  <2>. QED
    BY <1>1, <1>2, <2>1, SetInduction
<1>. QED
  BY <1>0, <1>3

LEMMA SumEmpty == \A f : SumFunctionOnSet(f, {}) = 0
<1>. SUFFICES ASSUME NEW f PROVE SumFunctionOnSet(f, {}) = 0
  OBVIOUS
<1>1. Adds(f, {}, CHOOSE sum : Adds(f, {}, sum))
  BY StepsExist, FS_EmptySet
<1>. DEFINE sum == CHOOSE sum : Adds(f, {}, sum)
<1>2. sum[{}] = 0
  <2>. HIDE DEF sum
  <2>. QED
    BY <1>1 DEF Adds, sum
<1>. QED
  BY <1>2, SumOfSteps

LEMMA SumNext ==
  ASSUME NEW f, NEW S, IsFiniteSet(S), S # {}
  PROVE  SumFunctionOnSet(f, S) = f[FirstOf(S)] + SumFunctionOnSet(f, S \ {FirstOf(S)})
<1>. DEFINE R == S \ {FirstOf(S)}
            a == CHOOSE sum : Adds(f, S, sum)
            b == CHOOSE sum : Adds(f, R, sum)
<1>1. IsFiniteSet(R) /\ R \in SUBSET S
  BY FS_RemoveElement
<1>2. Adds(f, S, a) /\ Adds(f, R, b)
  BY <1>1, StepsExist
<1>3. a[R] = b[R]
  <2>. HIDE DEF a, b, R
  <2>. QED
    BY <1>1, <1>2, StepsAgree
<1>4. a[S] = f[FirstOf(S)] + a[R]
  <2>. HIDE DEF a
  <2>. QED
    BY <1>2 DEF Adds
<1>. QED
  BY <1>3, <1>4, SumOfSteps

-----------------------------------------------------------------------------
\* The order does not matter.

LEMMA StrongInduction ==
  ASSUME NEW S, IsFiniteSet(S), NEW P,
         \A T \in SUBSET S : (\A x \in T : T \ {x} \in P) => T \in P
  PROVE  S \in P
<1>1. \A T \in SUBSET S : IsFiniteSet(T) /\ Cardinality(T) \in Nat
  BY FS_Subset, FS_CardinalityType
<1>. DEFINE Left == {T \in SUBSET S : T \notin P}
            Sizes == {Cardinality(T) : T \in Left}
<1>. SUFFICES ASSUME Left # {} PROVE FALSE
  OBVIOUS
<1>2. Sizes \subseteq Nat /\ Sizes # {}
  BY <1>1
<1>3. PICK n \in Sizes : \A m \in Sizes : n <= m
  <2>. HIDE DEF Sizes
  <2>. QED
    BY <1>2, SmallestNumber
<1>4. PICK T \in Left : n = Cardinality(T)
  OBVIOUS
<1>5. PICK x \in T : T \ {x} \notin P
  OBVIOUS
<1>6. Cardinality(T \ {x}) = n - 1 /\ n \in Nat
  BY <1>1, <1>4, FS_RemoveElement
<1>7. T \ {x} \in Left
  BY <1>5
<1>. QED
  BY <1>3, <1>6, <1>7

LEMMA SumType ==
  ASSUME NEW S, IsFiniteSet(S), NEW f, \A x \in S : f[x] \in Int
  PROVE  SumFunctionOnSet(f, S) \in Int
<1>. DEFINE P == {T \in SUBSET S : SumFunctionOnSet(f, T) \in Int}
<1>1. ASSUME NEW T \in SUBSET S, \A x \in T : T \ {x} \in P
      PROVE  T \in P
  <2>1. CASE T = {}
    BY <2>1, SumEmpty
  <2>2. CASE T # {}
    <3>1. FirstOf(T) \in T /\ IsFiniteSet(T)
      BY <2>2, FirstIn, FS_Subset
    <3>2. SumFunctionOnSet(f, T) = f[FirstOf(T)] + SumFunctionOnSet(f, T \ {FirstOf(T)})
      BY <2>2, <3>1, SumNext
    <3>3. SumFunctionOnSet(f, T \ {FirstOf(T)}) \in Int
      BY <1>1, <3>1
    <3>. QED
      BY <3>1, <3>2, <3>3
  <2>. QED
    BY <2>1, <2>2
<1>2. S \in P
  <2>. HIDE DEF P
  <2>. QED
    BY <1>1, StrongInduction
<1>. QED
  BY <1>2

LEMMA SumRemove ==
  ASSUME NEW S, IsFiniteSet(S), NEW f, \A x \in S : f[x] \in Int, NEW x \in S
  PROVE  SumFunctionOnSet(f, S) = f[x] + SumFunctionOnSet(f, S \ {x})
<1>. DEFINE Sum(T) == SumFunctionOnSet(f, T)
            P == {T \in SUBSET S : \A y \in T : Sum(T) = f[y] + Sum(T \ {y})}
<1>1. \A T \in SUBSET S : IsFiniteSet(T) /\ Sum(T) \in Int
  BY FS_Subset, SumType
<1>2. ASSUME NEW T \in SUBSET S, \A y \in T : T \ {y} \in P
      PROVE  T \in P
  <2>. SUFFICES ASSUME NEW y \in T PROVE Sum(T) = f[y] + Sum(T \ {y})
    OBVIOUS
  <2>. DEFINE c == FirstOf(T)
  <2>1. c \in T
    BY FirstIn
  <2>2. Sum(T) = f[c] + Sum(T \ {c})
    BY <1>1, SumNext
  <2>. HIDE DEF c, Sum
  <2>3. CASE c = y
    BY <2>2, <2>3
  <2>4. CASE c # y
    <3>1. Sum(T \ {c}) = f[y] + Sum((T \ {c}) \ {y})
      BY <1>2, <2>1, <2>4
    <3>2. Sum(T \ {y}) = f[c] + Sum((T \ {y}) \ {c})
      BY <1>2, <2>1, <2>4
    <3>3. (T \ {c}) \ {y} = (T \ {y}) \ {c}
      OBVIOUS
    <3>4. f[c] \in Int /\ f[y] \in Int /\ Sum((T \ {c}) \ {y}) \in Int
      BY <1>1, <2>1
    <3>5. \A a, b, d \in Int : a + (b + d) = b + (a + d)
      OBVIOUS
    <3>6. Sum(T) = f[c] + (f[y] + Sum((T \ {c}) \ {y}))
      BY <2>2, <3>1
    <3>7. f[c] + (f[y] + Sum((T \ {c}) \ {y})) = f[y] + (f[c] + Sum((T \ {c}) \ {y}))
      BY <3>4, <3>5
    <3>. QED
      BY <3>2, <3>3, <3>6, <3>7
  <2>. QED
    BY <2>3, <2>4
<1>3. S \in P
  <2>. HIDE DEF P
  <2>. QED
    BY <1>2, StrongInduction
<1>. QED
  BY <1>3

LEMMA SumInsert ==
  ASSUME NEW S, IsFiniteSet(S), NEW f, \A y \in S : f[y] \in Int,
         NEW x, x \notin S, f[x] \in Int
  PROVE  SumFunctionOnSet(f, S \cup {x}) = f[x] + SumFunctionOnSet(f, S)
<1>1. IsFiniteSet(S \cup {x}) /\ (S \cup {x}) \ {x} = S /\ x \in S \cup {x}
  BY FS_AddElement
<1>2. \A y \in S \cup {x} : f[y] \in Int
  OBVIOUS
<1>3. SumFunctionOnSet(f, S \cup {x}) = f[x] + SumFunctionOnSet(f, (S \cup {x}) \ {x})
  BY <1>1, <1>2, SumRemove
<1>. QED
  BY <1>1, <1>3

-----------------------------------------------------------------------------
\* How sums compare.

\* Two functions that agree on the elements have one sum.
LEMMA SumSame ==
  ASSUME NEW S, IsFiniteSet(S), NEW f, NEW g, \A x \in S : f[x] = g[x]
  PROVE  SumFunctionOnSet(f, S) = SumFunctionOnSet(g, S)
<1>. DEFINE P == {T \in SUBSET S : SumFunctionOnSet(f, T) = SumFunctionOnSet(g, T)}
<1>1. ASSUME NEW T \in SUBSET S, \A x \in T : T \ {x} \in P
      PROVE  T \in P
  <2>1. CASE T = {}
    BY <2>1, SumEmpty
  <2>2. CASE T # {}
    <3>1. FirstOf(T) \in T /\ IsFiniteSet(T)
      BY <2>2, FirstIn, FS_Subset
    <3>2. /\ SumFunctionOnSet(f, T) = f[FirstOf(T)] + SumFunctionOnSet(f, T \ {FirstOf(T)})
          /\ SumFunctionOnSet(g, T) = g[FirstOf(T)] + SumFunctionOnSet(g, T \ {FirstOf(T)})
      BY <2>2, <3>1, SumNext
    <3>3. SumFunctionOnSet(f, T \ {FirstOf(T)}) = SumFunctionOnSet(g, T \ {FirstOf(T)})
      BY <1>1, <3>1
    <3>. QED
      BY <3>1, <3>2, <3>3
  <2>. QED
    BY <2>1, <2>2
<1>2. S \in P
  <2>. HIDE DEF P
  <2>. QED
    BY <1>1, StrongInduction
<1>. QED
  BY <1>2

LEMMA SumAtMost ==
  ASSUME NEW S, IsFiniteSet(S), NEW f, NEW g,
         \A x \in S : f[x] \in Int /\ g[x] \in Int /\ f[x] <= g[x]
  PROVE  SumFunctionOnSet(f, S) <= SumFunctionOnSet(g, S)
<1>. DEFINE P == {T \in SUBSET S : SumFunctionOnSet(f, T) <= SumFunctionOnSet(g, T)}
<1>1. {} \in P
  BY SumEmpty
<1>2. ASSUME NEW T \in SUBSET S, NEW x \in S, T \in P, x \notin T
      PROVE  T \cup {x} \in P
  <2>1. IsFiniteSet(T)
    BY FS_Subset
  <2>2. SumFunctionOnSet(f, T) \in Int /\ SumFunctionOnSet(g, T) \in Int
    BY <2>1, SumType
  <2>3. /\ SumFunctionOnSet(f, T \cup {x}) = f[x] + SumFunctionOnSet(f, T)
        /\ SumFunctionOnSet(g, T \cup {x}) = g[x] + SumFunctionOnSet(g, T)
    BY <1>2, <2>1, SumInsert
  <2>. QED
    BY <1>2, <2>2, <2>3
<1>3. S \in P
  <2>. HIDE DEF P
  <2>. QED
    BY <1>1, <1>2, SetInduction
<1>. QED
  BY <1>3

\* Elements in proportion have sums in proportion.
LEMMA SumTimes ==
  ASSUME NEW S, IsFiniteSet(S), NEW f, NEW g, NEW n \in Int,
         \A x \in S : f[x] \in Int /\ g[x] = n * f[x]
  PROVE  SumFunctionOnSet(g, S) = n * SumFunctionOnSet(f, S)
<1>. DEFINE P == {T \in SUBSET S : SumFunctionOnSet(g, T) = n * SumFunctionOnSet(f, T)}
<1>1. {} \in P
  BY SumEmpty
<1>2. ASSUME NEW T \in SUBSET S, NEW x \in S, T \in P, x \notin T
      PROVE  T \cup {x} \in P
  <2>1. IsFiniteSet(T)
    BY FS_Subset
  <2>. DEFINE F == SumFunctionOnSet(f, T)
              G == SumFunctionOnSet(g, T)
  <2>2. F \in Int /\ \A y \in S : f[y] \in Int /\ g[y] \in Int
    BY <2>1, SumType
  <2>3. /\ SumFunctionOnSet(f, T \cup {x}) = f[x] + F
        /\ SumFunctionOnSet(g, T \cup {x}) = g[x] + G
    BY <1>2, <2>1, <2>2, SumInsert
  <2>4. G = n * F
    BY <1>2
  <2>. HIDE DEF F, G
  <2>5. n * (f[x] + F) = n * f[x] + n * F
    BY <2>2
  <2>. QED
    BY <2>3, <2>4, <2>5
<1>3. S \in P
  <2>. HIDE DEF P
  <2>. QED
    BY <1>1, <1>2, SetInduction
<1>. QED
  BY <1>3

LEMMA SumPlus ==
  ASSUME NEW S, IsFiniteSet(S), NEW f, NEW g, NEW h,
         \A x \in S : f[x] \in Int /\ g[x] \in Int /\ h[x] = f[x] + g[x]
  PROVE  SumFunctionOnSet(h, S) = SumFunctionOnSet(f, S) + SumFunctionOnSet(g, S)
<1>. DEFINE Sum(e, T) == SumFunctionOnSet(e, T)
            P == {T \in SUBSET S : Sum(h, T) = Sum(f, T) + Sum(g, T)}
<1>1. {} \in P
  BY SumEmpty
<1>2. ASSUME NEW T \in SUBSET S, NEW x \in S, T \in P, x \notin T
      PROVE  T \cup {x} \in P
  <2>1. IsFiniteSet(T)
    BY FS_Subset
  <2>2. /\ Sum(f, T) \in Int /\ Sum(g, T) \in Int
        /\ \A y \in S : f[y] \in Int /\ g[y] \in Int /\ h[y] \in Int
    BY <2>1, SumType
  <2>3. /\ Sum(f, T \cup {x}) = f[x] + Sum(f, T)
        /\ Sum(g, T \cup {x}) = g[x] + Sum(g, T)
        /\ Sum(h, T \cup {x}) = h[x] + Sum(h, T)
    BY <1>2, <2>1, <2>2, SumInsert
  <2>. QED
    BY <1>2, <2>2, <2>3
<1>3. S \in P
  <2>. HIDE DEF P
  <2>. QED
    BY <1>1, <1>2, SetInduction
<1>. QED
  BY <1>3

\* Nothing adds up to nothing, and to nothing else if no element is negative.
LEMMA SumZero ==
  ASSUME NEW S, IsFiniteSet(S), NEW f, \A x \in S : f[x] \in Nat
  PROVE  /\ SumFunctionOnSet(f, S) \in Nat
         /\ SumFunctionOnSet(f, S) = 0 <=> \A x \in S : f[x] = 0
         /\ \A x \in S : f[x] <= SumFunctionOnSet(f, S)
<1>. DEFINE Sum(T) == SumFunctionOnSet(f, T)
            P == {T \in SUBSET S : /\ Sum(T) \in Nat
                                   /\ Sum(T) = 0 <=> \A x \in T : f[x] = 0
                                   /\ \A x \in T : f[x] <= Sum(T)}
<1>1. {} \in P
  BY SumEmpty
<1>2. ASSUME NEW T \in SUBSET S, NEW x \in S, T \in P, x \notin T
      PROVE  T \cup {x} \in P
  <2>1. IsFiniteSet(T)
    BY FS_Subset
  <2>2. Sum(T \cup {x}) = f[x] + Sum(T)
    BY <1>2, <2>1, SumInsert
  <2>3. f[x] \in Nat /\ Sum(T) \in Nat
    BY <1>2
  <2>4. /\ f[x] + Sum(T) \in Nat
        /\ f[x] + Sum(T) = 0 <=> f[x] = 0 /\ Sum(T) = 0
        /\ f[x] <= f[x] + Sum(T)
        /\ \A m \in Nat : m <= Sum(T) => m <= f[x] + Sum(T)
    <3>. HIDE DEF Sum
    <3>. QED
      BY <2>3
  <2>5. /\ Sum(T) = 0 <=> \A y \in T : f[y] = 0
        /\ \A y \in T : f[y] <= Sum(T)
    BY <1>2
  <2>6. \A y \in T \cup {x} : f[y] <= Sum(T \cup {x})
    <3>. HIDE DEF Sum
    <3>. QED
      BY <2>2, <2>4, <2>5
  <2>7. Sum(T \cup {x}) = 0 <=> \A y \in T \cup {x} : f[y] = 0
    <3>. HIDE DEF Sum
    <3>. QED
      BY <2>2, <2>4, <2>5
  <2>. QED
    BY <2>2, <2>4, <2>6, <2>7
<1>3. S \in P
  <2>. HIDE DEF P
  <2>. QED
    BY <1>1, <1>2, SetInduction
<1>. QED
  BY <1>3

-----------------------------------------------------------------------------
\* Counting.

\* Two sets without an element in common count apart.
LEMMA CountApart ==
  ASSUME NEW S, IsFiniteSet(S), NEW T, IsFiniteSet(T), S \cap T = {}
  PROVE  /\ IsFiniteSet(S \cup T)
         /\ Cardinality(S \cup T) \in Nat
         /\ Cardinality(S \cup T) = Cardinality(S) + Cardinality(T)
<1>. DEFINE both == Cardinality(S \cup T)
            shared == Cardinality(S \cap T)
            m == Cardinality(S)
            n == Cardinality(T)
<1>1. IsFiniteSet(S \cup T) /\ both = m + n - shared
  BY FS_Union
<1>2. m \in Nat /\ n \in Nat /\ both \in Nat
  BY <1>1, FS_CardinalityType
<1>3. shared = 0
  BY FS_EmptySet
<1>. HIDE DEF both, shared, m, n
<1>4. both = m + n
  BY <1>1, <1>2, <1>3
<1>. QED
  BY <1>1, <1>2, <1>4 DEF both, m, n

\* What is counted class by class adds up.
LEMMA CountByPart ==
  ASSUME NEW S, IsFiniteSet(S), NEW U, IsFiniteSet(U), NEW class, \A x \in U : class[x] \in S,
         NEW part, \A c \in S : \A x : x \in part[c] <=> (x \in U /\ class[x] = c),
         NEW f, \A c \in S : f[c] = Cardinality(part[c])
  PROVE  SumFunctionOnSet(f, S) = Cardinality(U)
<1>. DEFINE Of(T) == {x \in U : class[x] \in T}
            P == {T \in SUBSET S : SumFunctionOnSet(f, T) = Cardinality(Of(T))}
<1>0. \A V \in SUBSET U : IsFiniteSet(V) /\ Cardinality(V) \in Nat
  BY FS_Subset, FS_CardinalityType
<1>01. \A c \in S : part[c] \in SUBSET U /\ f[c] \in Int
  <2>1. \A c \in S : part[c] \in SUBSET U
    OBVIOUS
  <2>. QED
    BY <1>0, <2>1
<1>1. {} \in P
  <2>1. Of({}) = {}
    OBVIOUS
  <2>2. Cardinality(Of({})) = 0
    BY <2>1, FS_EmptySet
  <2>. HIDE DEF Of
  <2>. QED
    BY <2>2, SumEmpty
<1>2. ASSUME NEW T \in SUBSET S, NEW c \in S, T \in P, c \notin T
      PROVE  T \cup {c} \in P
  <2>. DEFINE these == part[c]
              before == Of(T)
              after == Of(T \cup {c})
  <2>1. after = these \cup before /\ these \cap before = {} /\ before \in SUBSET U
    BY <1>2
  <2>2. SumFunctionOnSet(f, T) = Cardinality(before)
    BY <1>2
  <2>. HIDE DEF these, before, after
  <2>3. IsFiniteSet(these) /\ IsFiniteSet(before)
    BY <1>0, <1>01, <2>1 DEF these
  <2>4. Cardinality(after) = Cardinality(these) + Cardinality(before)
    BY <2>1, <2>3, CountApart
  <2>5. IsFiniteSet(T) /\ \A d \in T : f[d] \in Int
    BY <1>01, FS_Subset
  <2>6. SumFunctionOnSet(f, T \cup {c}) = f[c] + SumFunctionOnSet(f, T)
    BY <1>01, <1>2, <2>5, SumInsert
  <2>7. f[c] = Cardinality(these)
    BY DEF these
  <2>8. SumFunctionOnSet(f, T \cup {c}) = Cardinality(after)
    BY <2>2, <2>4, <2>6, <2>7
  <2>. QED
    BY <2>8 DEF after
<1>3. S \in P
  <2>. HIDE DEF P
  <2>. QED
    BY <1>1, <1>2, SetInduction
<1>4. Of(S) = U
  OBVIOUS
<1>. HIDE DEF Of
<1>. QED
  BY <1>3, <1>4

\* So do equal elements.
LEMMA SumOfEqual ==
  ASSUME NEW S, IsFiniteSet(S), NEW f, NEW n \in Int, \A x \in S : f[x] = n
  PROVE  SumFunctionOnSet(f, S) = n * Cardinality(S)
<1>. DEFINE P == {T \in SUBSET S : SumFunctionOnSet(f, T) = n * Cardinality(T)}
<1>1. {} \in P
  BY SumEmpty, FS_EmptySet
<1>2. ASSUME NEW T \in SUBSET S, NEW x \in S, T \in P, x \notin T
      PROVE  T \cup {x} \in P
  <2>. DEFINE k == Cardinality(T)
  <2>1. IsFiniteSet(T) /\ k \in Nat /\ Cardinality(T \cup {x}) = k + 1
    BY <1>2, FS_Subset, FS_CardinalityType, FS_AddElement
  <2>2. SumFunctionOnSet(f, T \cup {x}) = n + SumFunctionOnSet(f, T)
    BY <1>2, <2>1, SumInsert
  <2>3. SumFunctionOnSet(f, T) = n * k
    BY <1>2
  <2>. HIDE DEF k
  <2>4. n * (k + 1) = n + n * k
    BY <2>1
  <2>. QED
    BY <2>1, <2>2, <2>3, <2>4
<1>3. S \in P
  <2>. HIDE DEF P
  <2>. QED
    BY <1>1, <1>2, SetInduction
<1>. QED
  BY <1>3

-----------------------------------------------------------------------------
(* Places: what is the k-th of some numbers                                *)

\* How many of the numbers come up to n.
Standing(S, n) == Cardinality({m \in S : m <= n})

LEMMA StandingType ==
  ASSUME NEW S, IsFiniteSet(S), NEW n
  PROVE  /\ IsFiniteSet({m \in S : m <= n})
         /\ Cardinality(S) \in Nat
         /\ Standing(S, n) \in 0 .. Cardinality(S)
<1>. DEFINE upto == {m \in S : m <= n}
<1>1. upto \subseteq S
  OBVIOUS
<1>. HIDE DEF upto
<1>2. IsFiniteSet(upto) /\ Cardinality(upto) <= Cardinality(S)
  BY <1>1, FS_Subset
<1>3. Cardinality(upto) \in Nat /\ Cardinality(S) \in Nat
  BY <1>2, FS_CardinalityType
<1>4. Cardinality(upto) \in 0 .. Cardinality(S)
  BY <1>2, <1>3
<1>. QED
  BY <1>2, <1>3, <1>4 DEF Standing, upto

\* A number counts itself and the numbers up to the one before.
LEMMA StandingNext ==
  ASSUME NEW S, S \subseteq Int, IsFiniteSet(S), NEW n \in Int
  PROVE  Standing(S, n) = Standing(S, n - 1) + (IF n \in S THEN 1 ELSE 0)
<1>. DEFINE upto == {m \in S : m <= n}
            before == {m \in S : m <= n - 1}
<1>1. IsFiniteSet(before) /\ Cardinality(before) \in Nat
  BY StandingType, FS_CardinalityType
<1>2. \A m \in S : m <= n <=> (m <= n - 1 \/ m = n)
  OBVIOUS
<1>3. n \notin before /\ (n \in S => upto = before \cup {n}) /\ (n \notin S => upto = before)
  <2>1. ~(n <= n - 1)
    OBVIOUS
  <2>2. n \notin before
    BY <2>1
  <2>3. CASE n \in S
    BY <1>2, <2>2, <2>3, Zenon
  <2>4. CASE n \notin S
    BY <1>2, <2>2, <2>4, Zenon
  <2>. QED
    BY <2>2, <2>3, <2>4
<1>. HIDE DEF upto, before
<1>4. Cardinality(before \cup {n}) = Cardinality(before) + 1
  BY <1>1, <1>3, FS_AddElement
<1>5. CASE n \in S
  BY <1>3, <1>4, <1>5 DEF Standing, upto, before
<1>6. CASE n \notin S
  <2>1. Cardinality(upto) = Cardinality(before) + 0
    BY <1>1, <1>3, <1>6
  <2>. QED
    BY <1>6, <2>1 DEF Standing, upto, before
<1>. QED
  BY <1>5, <1>6

LEMMA StandingGrows ==
  ASSUME NEW S, S \subseteq Int, IsFiniteSet(S), NEW m \in Int, NEW n \in Int, m <= n
  PROVE  /\ Standing(S, m) <= Standing(S, n)
         /\ (m < n /\ n \in S) => Standing(S, m) < Standing(S, n)
<1>. DEFINE low == {i \in S : i <= m}
            high == {i \in S : i <= n}
<1>0. IsFiniteSet(high) /\ IsFiniteSet(low)
  BY StandingType
<1>1. low \subseteq high /\ IsFiniteSet(high) /\ Cardinality(high) \in Nat /\ Cardinality(low) \in Nat
  <2>1. \A i \in S : i <= m => i <= n
    OBVIOUS
  <2>2. low \subseteq high
    BY <2>1
  <2>. HIDE DEF low, high
  <2>. QED
    BY <1>0, <2>2, FS_CardinalityType
<1>2. (m < n /\ n \in S) => (n \in high /\ n \notin low)
  OBVIOUS
<1>. HIDE DEF low, high
<1>3. Cardinality(low) <= Cardinality(high) /\ (Cardinality(low) = Cardinality(high) => high = low)
  BY <1>1, FS_Subset
<1>4. (m < n /\ n \in S) => Cardinality(low) < Cardinality(high)
  BY <1>1, <1>2, <1>3
<1>. QED
  BY <1>3, <1>4 DEF Standing, low, high

\* Every place up to the number of them is somebody's, and nobody shares one.
LEMMA StandingTaken ==
  ASSUME NEW z \in Nat, NEW S, S \subseteq 0 .. z, NEW k \in 1 .. Cardinality(S)
  PROVE  \E n \in S : Standing(S, n) = k
<1>0. IsFiniteSet(0 .. z) /\ S \in SUBSET (0 .. z)
  BY FS_Interval
<1>1. IsFiniteSet(S) /\ S \subseteq Int /\ \A m \in S : m \in Int /\ m <= z /\ ~(m <= -1)
  <2>1. IsFiniteSet(S)
    BY <1>0, FS_Subset
  <2>2. \A m \in 0 .. z : m \in Int /\ m <= z /\ ~(m <= -1)
    OBVIOUS
  <2>. QED
    BY <2>1, <2>2
<1>2. Cardinality(S) \in Nat /\ k \in Nat /\ k >= 1 /\ k <= Cardinality(S)
  BY <1>1, FS_CardinalityType
<1>3. \A n : Standing(S, n) \in Nat
  <2>1. ASSUME NEW n PROVE Standing(S, n) \in Nat
    <3>1. Standing(S, n) \in 0 .. Cardinality(S)
      BY <1>1, StandingType
    <3>. QED
      BY <1>2, <3>1
  <2>. QED
    BY <2>1
<1>4. Standing(S, z) = Cardinality(S)
  <2>1. {m \in S : m <= z} = S
    BY <1>1, Zenon
  <2>. QED
    BY <2>1 DEF Standing
<1>5. Standing(S, -1) = 0
  <2>1. {m \in S : m <= -1} = {}
    BY <1>1, Zenon
  <2>. QED
    BY <2>1, FS_EmptySet DEF Standing
<1>. DEFINE Reach == {n \in Nat : Standing(S, n) >= k}
<1>6. z \in Reach /\ Reach \subseteq Nat
  BY <1>2, <1>4
<1>7. PICK n \in Reach : \A m \in Reach : n <= m
  BY <1>6, SmallestNumber
<1>8. n \in Nat /\ Standing(S, n) >= k /\ (n > 0 => Standing(S, n - 1) < k)
  BY <1>2, <1>3, <1>7
<1>9. Standing(S, n) = Standing(S, n - 1) + (IF n \in S THEN 1 ELSE 0)
  <2>1. n \in Int
    BY <1>8
  <2>. HIDE DEF Reach
  <2>. QED
    BY <1>1, <2>1, StandingNext, Zenon
<1>10. Standing(S, n - 1) < k
  <2>1. CASE n = 0
    BY <1>2, <1>5, <2>1
  <2>. QED
    BY <1>8, <2>1
<1>11. n \in S /\ Standing(S, n) = k
  BY <1>2, <1>3, <1>8, <1>9, <1>10
<1>. QED
  BY <1>11

LEMMA StandingApart ==
  ASSUME NEW S, S \subseteq Int, IsFiniteSet(S), NEW m \in S, NEW n \in S, Standing(S, m) = Standing(S, n)
  PROVE  m = n
<1>0. Standing(S, m) \in 0 .. Cardinality(S) /\ Cardinality(S) \in Nat
  BY StandingType
<1>1. m \in Int /\ n \in Int /\ Standing(S, m) \in Nat
  BY <1>0
<1>2. ~(m < n)
  <2>1. ASSUME m < n PROVE Standing(S, m) < Standing(S, n)
    <3>1. m <= n /\ m \in Int /\ n \in Int
      BY <1>1, <2>1
    <3>. QED
      BY <2>1, <3>1, StandingGrows
  <2>. QED
    BY <1>1, <2>1
<1>3. ~(n < m)
  <2>1. ASSUME n < m PROVE Standing(S, n) < Standing(S, m)
    <3>1. n <= m /\ n \in Int /\ m \in Int
      BY <1>1, <2>1
    <3>. QED
      BY <2>1, <3>1, StandingGrows
  <2>. QED
    BY <1>1, <2>1
<1>. QED
  BY <1>1, <1>2, <1>3

LEMMA StandingOfMember ==
  ASSUME NEW S, S \subseteq Int, IsFiniteSet(S), NEW n \in S
  PROVE  Standing(S, n) \in 1 .. Cardinality(S)
<1>1. Standing(S, n) \in 0 .. Cardinality(S) /\ Standing(S, n - 1) \in 0 .. Cardinality(S)
      /\ Cardinality(S) \in Nat
  BY StandingType
<1>2. Standing(S, n) = Standing(S, n - 1) + 1
  BY StandingNext
<1>. QED
  BY <1>1, <1>2

-----------------------------------------------------------------------------
(* Strides                                                                 *)

LEMMA Division ==
  ASSUME NEW x \in Nat, NEW n \in Nat \ {0}
  PROVE  /\ x \div n \in Nat /\ x % n \in 0 .. n - 1
         /\ x = n * (x \div n) + (x % n)
  OBVIOUS

LEMMA Quotient ==
  ASSUME NEW n \in Nat \ {0}, NEW q \in Int, NEW r \in 0 .. n - 1, NEW x \in Nat, x = n * q + r
  PROVE  x \div n = q /\ x % n = r
<1>. DEFINE p == x \div n
            s == x % n
<1>1. p \in Nat /\ s \in 0 .. n - 1 /\ x = n * p + s
  BY Division
<1>. HIDE DEF p, s
<1>2. n * (p - q) = r - s
  BY <1>1
<1>3. r - s < n /\ s - r < n
  BY <1>1
<1>4. ~(p - q >= 1)
  <2>. SUFFICES ASSUME p - q >= 1 PROVE FALSE
    OBVIOUS
  <2>1. n * (p - q) >= n
    BY <1>1
  <2>. QED
    BY <1>1, <1>2, <1>3, <2>1
<1>5. ~(p - q <= -1)
  <2>. SUFFICES ASSUME p - q <= -1 PROVE FALSE
    OBVIOUS
  <2>1. n * (q - p) >= n
    BY <1>1
  <2>2. n * (q - p) = s - r
    BY <1>1
  <2>. QED
    BY <1>1, <2>2, <1>3, <2>1
<1>6. p = q
  BY <1>1, <1>4, <1>5
<1>7. s = r
  BY <1>1, <1>6
<1>. QED
  BY <1>6, <1>7 DEF p, s

\* What leaves the same remainder is a multiple apart.
LEMMA SameRemainder ==
  ASSUME NEW n \in Nat \ {0}, NEW x \in Nat, NEW y \in Nat
  PROVE  x % n = y % n <=> \E k \in Int : x - y = k * n
<1>1. /\ x \div n \in Nat /\ x % n \in 0 .. n - 1 /\ x = n * (x \div n) + (x % n)
      /\ y \div n \in Nat /\ y % n \in 0 .. n - 1 /\ y = n * (y \div n) + (y % n)
  BY Division
<1>2. ASSUME x % n = y % n PROVE \E k \in Int : x - y = k * n
  <2>1. x - y = ((x \div n) - (y \div n)) * n
    BY <1>1, <1>2
  <2>2. (x \div n) - (y \div n) \in Int
    BY <1>1
  <2>. QED
    BY <2>1, <2>2
<1>3. ASSUME NEW k \in Int, x - y = k * n PROVE x % n = y % n
  <2>. DEFINE q == (y \div n) + k
              r == y % n
  <2>1. x = n * q + r
    BY <1>1, <1>3
  <2>2. q \in Int /\ r \in 0 .. n - 1
    BY <1>1
  <2>. HIDE DEF q, r
  <2>3. x % n = r
    BY <2>1, <2>2, Quotient
  <2>. QED
    BY <2>3 DEF r
<1>. QED
  BY <1>2, <1>3

\* Laps of l steps through t laps
LEMMA LapOfStep ==
  ASSUME NEW l \in Nat \ {0}, NEW a \in Nat, NEW b \in 0 .. l - 1
  PROVE  l * a + b \in Nat /\ (l * a + b) \div l = a /\ (l * a + b) % l = b
<1>1. l * a + b \in Nat
  OBVIOUS
<1>. QED
  BY <1>1, Quotient

LEMMA CycleOfStep ==
  ASSUME NEW l \in Nat \ {0}, NEW t \in Nat \ {0}, NEW a \in Nat, NEW b \in 0 .. l - 1
  PROVE  (l * a + b) \div (l * t) = a \div t
<1>. DEFINE q == a \div t
            r == a % t
<1>1. q \in Nat /\ r \in 0 .. t - 1 /\ a = t * q + r
  BY Division
<1>. HIDE DEF q, r
<1>2. l * t \in Nat \ {0} /\ l * a + b \in Nat
  OBVIOUS
<1>3. l * a + b = (l * t) * q + (l * r + b)
  BY <1>1
<1>4. l * r + b \in 0 .. (l * t) - 1
  <2>1. r + 1 <= t /\ b + 1 <= l /\ r \in Nat /\ b \in Nat
    BY <1>1
  <2>2. l * (r + 1) <= l * t
    BY <2>1
  <2>3. l * (r + 1) = l * r + l
    BY <2>1
  <2>4. l * r \in Nat /\ l * t \in Nat
    BY <2>1
  <2>. QED
    BY <2>1, <2>2, <2>3, <2>4
<1>. QED
  BY <1>1, <1>2, <1>3, <1>4, Quotient DEF q

\* What seven, or two, times a number is a multiple of, the number is a multiple of,
\* unless seven, or two, divides it.
LEMMA SevenApart ==
  ASSUME NEW t \in Nat, t % 7 # 0, NEW d \in Int, NEW k \in Int, 7 * d = k * t
  PROVE  \E j \in Int : d = j * t
<1>1. PICK q \in Int, r \in 1 .. 6 : t = 7 * q + r
  <2>1. t = 7 * (t \div 7) + (t % 7) /\ t \div 7 \in Int /\ t % 7 \in 1 .. 6
    OBVIOUS
  <2>. QED
    BY <2>1
<1>2. PICK m \in Int, s \in 0 .. 6 : k = 7 * m + s
  <2>1. k = 7 * (k \div 7) + (k % 7) /\ k \div 7 \in Int /\ k % 7 \in 0 .. 6
    OBVIOUS
  <2>. QED
    BY <2>1
<1>. DEFINE e == d - k * q - m * r
<1>3. s * r = 7 * e /\ e \in Int
  <2>1. k * t = 7 * (k * q) + k * r
    BY <1>1
  <2>2. k * r = 7 * (m * r) + s * r
    BY <1>1, <1>2
  <2>3. k * q \in Int /\ m * r \in Int /\ s * r \in Int /\ k * r \in Int
    BY <1>1, <1>2
  <2>. QED
    BY <2>1, <2>2, <2>3
<1>. HIDE DEF e
<1>4. s = 0
  <2>1. \A i \in 1 .. 6 : i * r # 7 * e
    <3>1. r \in {1, 2, 3, 4, 5, 6}
      BY <1>1
    <3>2. \A i \in 1 .. 6 : i * 1 # 7 * e /\ i * 2 # 7 * e /\ i * 3 # 7 * e
      BY <1>3
    <3>3. \A i \in 1 .. 6 : i * 4 # 7 * e /\ i * 5 # 7 * e /\ i * 6 # 7 * e
      BY <1>3
    <3>. QED
      BY <3>1, <3>2, <3>3
  <2>. QED
    BY <1>2, <1>3, <2>1
<1>5. 7 * d = 7 * (m * t) /\ m * t \in Int
  BY <1>2, <1>4
<1>6. d = m * t
  BY <1>5
<1>. QED
  BY <1>2, <1>6

LEMMA TwoApart ==
  ASSUME NEW t \in Nat, t % 2 # 0, NEW d \in Int, NEW k \in Int, 2 * d = k * t
  PROVE  \E j \in Int : d = j * t
<1>1. PICK q \in Int : t = 2 * q + 1
  <2>1. t = 2 * (t \div 2) + 1 /\ t \div 2 \in Int
    OBVIOUS
  <2>. QED
    BY <2>1
<1>2. PICK m \in Int, s \in 0 .. 1 : k = 2 * m + s
  <2>1. k = 2 * (k \div 2) + (k % 2) /\ k \div 2 \in Int /\ k % 2 \in 0 .. 1
    OBVIOUS
  <2>. QED
    BY <2>1
<1>. DEFINE e == d - k * q - m
<1>3. s = 2 * e /\ e \in Int
  <2>1. k * t = 2 * (k * q) + k
    BY <1>1
  <2>2. k * q \in Int
    BY <1>1
  <2>. QED
    BY <1>2, <2>1, <2>2
<1>. HIDE DEF e
<1>4. s = 0
  BY <1>2, <1>3
<1>5. 2 * d = 2 * (m * t) /\ m * t \in Int
  BY <1>2, <1>4
<1>6. d = m * t
  BY <1>5
<1>. QED
  BY <1>2, <1>6

\* What seven or eight has in common with a number
Common(n, t) == Max({d \in 1 .. n : n % d = 0 /\ t % d = 0})

LEMMA CommonOfSeven ==
  ASSUME NEW t \in Nat
  PROVE  Common(7, t) = (IF t % 7 = 0 THEN 7 ELSE 1)
<1>. DEFINE D == {d \in 1 .. 7 : 7 % d = 0 /\ t % d = 0}
<1>1. D \in SUBSET (1 .. 7) /\ 1 \in D
  OBVIOUS
<1>2. \A d \in 1 .. 7 : 7 % d = 0 => d \in {1, 7}
  <2>1. \A d \in 1 .. 7 : d \in {1, 2, 3, 4, 5, 6, 7}
    OBVIOUS
  <2>. QED
    BY <2>1
<1>3. \A d \in D : d \in {1, 7}
  BY <1>2
<1>4. 7 \in D <=> t % 7 = 0
  OBVIOUS
<1>. HIDE DEF D
<1>5. Max(D) \in D /\ \A m \in D : m <= Max(D)
  BY <1>1, Largest, 7 \in Nat
<1>. DEFINE most == Max(D)
<1>6. most \in {1, 7} /\ most >= 1 /\ (most = 7 <=> t % 7 = 0)
  <2>1. most \in {1, 7}
    BY <1>3, <1>5
  <2>2. 7 \in D => 7 <= most
    BY <1>5
  <2>. QED
    BY <2>1, <2>2, <1>4, <1>5
<1>. HIDE DEF most
<1>7. most = (IF t % 7 = 0 THEN 7 ELSE 1)
  <2>1. CASE t % 7 = 0
    BY <1>6, <2>1
  <2>2. CASE t % 7 # 0
    BY <1>6, <2>2
  <2>. QED
    BY <2>1, <2>2
<1>. QED
  BY <1>7 DEF Common, D, most

LEMMA CommonOfEight ==
  ASSUME NEW t \in Nat
  PROVE  Common(8, t) = (IF t % 8 = 0 THEN 8 ELSE IF t % 4 = 0 THEN 4 ELSE IF t % 2 = 0 THEN 2 ELSE 1)
<1>. DEFINE D == {d \in 1 .. 8 : 8 % d = 0 /\ t % d = 0}
<1>1. D \in SUBSET (1 .. 8) /\ 1 \in D
  OBVIOUS
<1>2. \A d \in 1 .. 8 : 8 % d = 0 => d \in {1, 2, 4, 8}
  <2>1. \A d \in 1 .. 8 : d \in {1, 2, 3, 4, 5, 6, 7, 8}
    OBVIOUS
  <2>. QED
    BY <2>1
<1>3. \A d \in D : d \in {1, 2, 4, 8}
  BY <1>2
<1>4. (8 \in D <=> t % 8 = 0) /\ (4 \in D <=> t % 4 = 0) /\ (2 \in D <=> t % 2 = 0)
  OBVIOUS
<1>. HIDE DEF D
<1>5. Max(D) \in D /\ \A m \in D : m <= Max(D)
  BY <1>1, Largest, 8 \in Nat
<1>. DEFINE most == Max(D)
<1>6. most \in {1, 2, 4, 8} /\ most \in D /\ \A d \in {2, 4, 8} : d \in D => d <= most
  BY <1>3, <1>5
<1>. HIDE DEF most
<1>7. CASE t % 8 = 0
  <2>1. most = 8
    BY <1>4, <1>6, <1>7
  <2>. QED
    BY <1>7, <2>1 DEF Common, D, most
<1>8. CASE t % 8 # 0 /\ t % 4 = 0
  <2>1. most = 4
    BY <1>4, <1>6, <1>8
  <2>. QED
    BY <1>8, <2>1 DEF Common, D, most
<1>9. CASE t % 8 # 0 /\ t % 4 # 0 /\ t % 2 = 0
  <2>1. most = 2
    BY <1>4, <1>6, <1>9
  <2>. QED
    BY <1>9, <2>1 DEF Common, D, most
<1>10. CASE t % 8 # 0 /\ t % 4 # 0 /\ t % 2 # 0
  <2>1. most = 1
    BY <1>4, <1>6, <1>10
  <2>. QED
    BY <1>10, <2>1 DEF Common, D, most
<1>. QED
  BY <1>7, <1>8, <1>9, <1>10

IsMultiple(x, y) == \E k \in Int : x = k * y

\* Two numbers whose common divisor is g meet first at their product by g.
LEMMA FirstMeeting ==
  ASSUME NEW n \in {7, 8}, NEW t \in Nat \ {0}, NEW g, g = Common(n, t),
         NEW x \in Int, NEW nx, nx = n * x
  PROVE  /\ g \in 1 .. n /\ t \div g \in Nat \ {0} /\ t = g * (t \div g)
         /\ IsMultiple(nx, t) <=> IsMultiple(x, t \div g)
<1>. DEFINE u == t \div g
<1>1. /\ g \in {1, 2, 4, 7, 8}
      /\ n = 7 => g \in {1, 7}
      /\ n = 8 => g \in {1, 2, 4, 8}
      /\ t % g = 0
  BY CommonOfSeven, CommonOfEight
<1>2. g \in 1 .. n
  BY <1>1
<1>3. u \in Nat \ {0} /\ t = g * u
  BY <1>1
<1>4. n = 7 /\ g = 1 => t % 7 # 0
  BY CommonOfSeven
<1>5. n = 8 => /\ g = 1 => t % 2 # 0
               /\ g = 2 => t % 4 # 0
               /\ g = 4 => t % 8 # 0
  BY CommonOfEight
<1>. HIDE DEF u
<1>6. /\ (n = 8 /\ g = 1) => u % 2 # 0
      /\ (n = 8 /\ g = 2) => u % 2 # 0
      /\ (n = 8 /\ g = 4) => u % 2 # 0
  BY <1>3, <1>5
<1>7. ASSUME NEW k \in Int, n * x = k * t PROVE \E j \in Int : x = j * u
  <2>1. CASE n = 7 /\ g = 1
    <3>1. 7 * x = k * t /\ t = u
      BY <1>3, <1>7, <2>1
    <3>. QED
      BY <1>4, <2>1, <3>1, SevenApart
  <2>2. CASE n = 7 /\ g = 7
    <3>1. 7 * x = k * (7 * u)
      BY <1>3, <1>7, <2>2
    <3>2. k * (7 * u) = 7 * (k * u) /\ k * u \in Int
      BY <1>3
    <3>3. x = k * u
      BY <3>1, <3>2
    <3>. QED
      BY <3>3
  <2>3. CASE n = 8 /\ g = 8
    <3>1. 8 * x = k * (8 * u)
      BY <1>3, <1>7, <2>3
    <3>2. k * (8 * u) = 8 * (k * u) /\ k * u \in Int
      BY <1>3
    <3>3. x = k * u
      BY <3>1, <3>2
    <3>. QED
      BY <3>3
  <2>4. CASE n = 8 /\ g = 4
    <3>1. 8 * x = k * (4 * u)
      BY <1>3, <1>7, <2>4
    <3>2. k * (4 * u) = 4 * (k * u) /\ k * u \in Int
      BY <1>3
    <3>3. 2 * x = k * u
      BY <3>1, <3>2
    <3>. QED
      BY <1>3, <1>6, <2>4, <3>3, TwoApart
  <2>5. CASE n = 8 /\ g = 2
    <3>1. 8 * x = k * (2 * u)
      BY <1>3, <1>7, <2>5
    <3>2. k * (2 * u) = 2 * (k * u) /\ k * u \in Int
      BY <1>3
    <3>3. 2 * (2 * x) = k * u /\ 2 * x \in Int
      BY <3>1, <3>2
    <3>. DEFINE y == 2 * x
    <3>. HIDE DEF y
    <3>4. PICK i \in Int : y = i * u
      BY <1>3, <1>6, <2>5, <3>3, TwoApart DEF y
    <3>5. 2 * x = i * u
      BY <3>4 DEF y
    <3>. QED
      BY <1>3, <1>6, <2>5, <3>5, TwoApart
  <2>6. CASE n = 8 /\ g = 1
    <3>1. 2 * (4 * x) = k * u /\ 4 * x \in Int
      BY <1>3, <1>7, <2>6
    <3>. DEFINE y == 4 * x
                z == 2 * x
    <3>. HIDE DEF y, z
    <3>2. PICK i \in Int : y = i * u
      BY <1>3, <1>6, <2>6, <3>1, TwoApart DEF y
    <3>3. 2 * z = i * u /\ z \in Int
      BY <3>2 DEF y, z
    <3>4. PICK j \in Int : z = j * u
      BY <1>3, <1>6, <2>6, <3>3, TwoApart
    <3>5. 2 * x = j * u
      BY <3>4 DEF z
    <3>. QED
      BY <1>3, <1>6, <2>6, <3>5, TwoApart
  <2>. QED
    BY <1>1, <2>1, <2>2, <2>3, <2>4, <2>5, <2>6
<1>8. ASSUME NEW j \in Int, x = j * u PROVE \E k \in Int : n * x = k * t
  <2>1. PICK v \in Nat : n = v * g
    <3>1. \/ n = 1 * g \/ n = 2 * g \/ n = 4 * g \/ n = 7 * g \/ n = 8 * g
      BY <1>1
    <3>. QED
      BY <3>1
  <2>2. n * x = (v * g) * (j * u)
    BY <1>8, <2>1
  <2>3. (v * g) * (j * u) = (v * j) * (g * u)
    BY <1>3, <1>2, <2>1
  <2>4. n * x = (v * j) * t /\ v * j \in Int
    BY <1>3, <2>1, <2>2, <2>3
  <2>. QED
    BY <2>4
<1>9. IsMultiple(nx, t) <=> IsMultiple(x, u)
  BY <1>7, <1>8 DEF IsMultiple
<1>. QED
  BY <1>2, <1>3, <1>9 DEF u

\* Laps of six are in or out as a whole: the places are those of the laps.
LEMMA LapPlaces ==
  ASSUME NEW z \in Nat, NEW S, S \subseteq 1 .. z, NEW e \in Nat,
         \A a \in Nat : \A b \in 0 .. 5 :
             6 * a + b + 1 <= e => (6 * a + b + 1 \in S <=> 6 * a + 1 \in S),
         NEW n \in S, n <= e
  PROVE  (Standing(S, n) - 1) % 6 = (n - 1) % 6
<1>1. IsFiniteSet(S) /\ S \subseteq Int /\ S \subseteq Nat
  <2>1. IsFiniteSet(1 .. z) /\ S \in SUBSET (1 .. z)
    BY FS_Interval
  <2>2. IsFiniteSet(S)
    BY <2>1, FS_Subset
  <2>3. \A m \in 1 .. z : m \in Nat /\ m \in Int
    OBVIOUS
  <2>. QED
    BY <2>2, <2>3
<1>. DEFINE R == [i \in Int |-> Standing(S, i)]
<1>2. \A i \in Int : R[i] \in Nat
  <2>1. ASSUME NEW i \in Int PROVE R[i] \in Nat
    <3>1. Cardinality(S) \in Nat /\ Standing(S, i) \in 0 .. Cardinality(S)
      BY <1>1, StandingType
    <3>. QED
      BY <3>1
  <2>. QED
    BY <2>1
<1>3. \A i \in Int : /\ i \in S => R[i] = R[i - 1] + 1
                     /\ i \notin S => R[i] = R[i - 1]
  <2>1. ASSUME NEW i \in Int
        PROVE  R[i] = R[i - 1] + (IF i \in S THEN 1 ELSE 0)
    <3>1. Standing(S, i) = Standing(S, i - 1) + (IF i \in S THEN 1 ELSE 0)
      BY <1>1, StandingNext
    <3>. QED
      BY <3>1
  <2>. HIDE DEF R
  <2>2. ASSUME NEW i \in Int, i \in S PROVE R[i] = R[i - 1] + 1
    BY <2>1, <2>2
  <2>3. ASSUME NEW i \in Int, i \notin S PROVE R[i] = R[i - 1]
    <3>1. R[i] = R[i - 1] + 0 /\ i - 1 \in Int
      BY <2>1, <2>3
    <3>. QED
      BY <1>2, <3>1
  <2>. QED
    BY <2>2, <2>3
<1>4. R[0] = 0
  <2>0. \A m \in S : ~(m <= 0)
    OBVIOUS
  <2>1. {m \in S : m <= 0} = {}
    BY <2>0, Zenon
  <2>. QED
    BY <2>1, FS_EmptySet DEF Standing
<1>. HIDE DEF R
\* the lap of six from 6 * a on
<1>5. ASSUME NEW a \in Nat, 6 * a + 6 <= e
      PROVE  R[6 * a + 6] = R[6 * a] \/ R[6 * a + 6] = R[6 * a] + 6
  <2>1. \A b \in 0 .. 5 : 6 * a + b + 1 \in S <=> 6 * a + 1 \in S
    BY <1>5
  <2>2. /\ 6 * a + 2 \in S <=> 6 * a + 1 \in S
        /\ 6 * a + 3 \in S <=> 6 * a + 1 \in S
        /\ 6 * a + 4 \in S <=> 6 * a + 1 \in S
        /\ 6 * a + 5 \in S <=> 6 * a + 1 \in S
        /\ 6 * a + 6 \in S <=> 6 * a + 1 \in S
    <3>1. 1 \in 0 .. 5 /\ 2 \in 0 .. 5 /\ 3 \in 0 .. 5 /\ 4 \in 0 .. 5 /\ 5 \in 0 .. 5
      OBVIOUS
    <3>2. 6 * a + 1 + 1 = 6 * a + 2 /\ 6 * a + 2 + 1 = 6 * a + 3 /\ 6 * a + 3 + 1 = 6 * a + 4
          /\ 6 * a + 4 + 1 = 6 * a + 5 /\ 6 * a + 5 + 1 = 6 * a + 6
      OBVIOUS
    <3>. QED
      BY <2>1, <3>1, <3>2
  <2>. DEFINE c == 6 * a
  <2>3. c \in Nat
    OBVIOUS
  <2>. HIDE DEF c
  <2>4. /\ (c + 1) - 1 = c /\ (c + 2) - 1 = c + 1 /\ (c + 3) - 1 = c + 2
        /\ (c + 4) - 1 = c + 3 /\ (c + 5) - 1 = c + 4 /\ (c + 6) - 1 = c + 5
    BY <2>3
  <2>5. CASE c + 1 \in S
    <3>1. c + 2 \in S /\ c + 3 \in S /\ c + 4 \in S /\ c + 5 \in S /\ c + 6 \in S
      BY <2>2, <2>5 DEF c
    <3>2. /\ R[c + 1] = R[c] + 1 /\ R[c + 2] = R[c + 1] + 1 /\ R[c + 3] = R[c + 2] + 1
          /\ R[c + 4] = R[c + 3] + 1 /\ R[c + 5] = R[c + 4] + 1 /\ R[c + 6] = R[c + 5] + 1
      BY <1>1, <1>3, <2>3, <2>4, <2>5, <3>1
    <3>3. R[c + 6] = R[c] + 6
      BY <1>2, <2>3, <3>2
    <3>. QED
      BY <3>3 DEF c
  <2>6. CASE c + 1 \notin S
    <3>1. c + 2 \notin S /\ c + 3 \notin S /\ c + 4 \notin S /\ c + 5 \notin S /\ c + 6 \notin S
      BY <2>2, <2>6 DEF c
    <3>2. c + 1 \in Int /\ c + 2 \in Int /\ c + 3 \in Int /\ c + 4 \in Int /\ c + 5 \in Int /\ c + 6 \in Int
      BY <2>3
    <3>3. /\ R[c + 1] = R[c] /\ R[c + 2] = R[c + 1] /\ R[c + 3] = R[c + 2]
          /\ R[c + 4] = R[c + 3] /\ R[c + 5] = R[c + 4] /\ R[c + 6] = R[c + 5]
      BY <1>3, <2>3, <2>4, <2>6, <3>1, <3>2
    <3>4. R[c + 6] = R[c]
      BY <3>3
    <3>. QED
      BY <3>4 DEF c
  <2>. QED
    BY <2>5, <2>6
<1>6. \A a \in Nat : 6 * a <= e => R[6 * a] % 6 = 0
  <2>. DEFINE Bad == {a \in Nat : 6 * a <= e /\ R[6 * a] % 6 # 0}
  <2>. SUFFICES ASSUME Bad # {} PROVE FALSE
    OBVIOUS
  <2>1. PICK a \in Bad : \A i \in Bad : a <= i
    <3>1. Bad \subseteq Nat
      OBVIOUS
    <3>. HIDE DEF Bad
    <3>. QED
      BY <3>1, SmallestNumber
  <2>2. a \in Nat /\ 6 * a <= e /\ R[6 * a] % 6 # 0
    OBVIOUS
  <2>3. a # 0
    <3>. SUFFICES ASSUME a = 0 PROVE FALSE
      OBVIOUS
    <3>1. 6 * a = 0
      BY <2>2
    <3>. QED
      BY <1>4, <2>2, <3>1
  <2>. DEFINE p == a - 1
  <2>4. p \in Nat /\ 6 * p + 6 = 6 * a /\ 6 * p <= e /\ ~(a <= p)
    BY <2>2, <2>3
  <2>5. R[6 * p] % 6 = 0
    <3>1. p \notin Bad
      BY <2>1, <2>4
    <3>. QED
      BY <2>4, <3>1
  <2>6. R[6 * a] = R[6 * p] \/ R[6 * a] = R[6 * p] + 6
    <3>. HIDE DEF p
    <3>. QED
      BY <1>5, <2>2, <2>4
  <2>7. R[6 * p] \in Nat
    BY <1>2, <2>4
  <2>. DEFINE r == R[6 * p]
              s == R[6 * a]
  <2>. HIDE DEF r, s
  <2>8. r \in Nat /\ r % 6 = 0 /\ (s = r \/ s = r + 6) /\ s % 6 # 0
    BY <2>2, <2>5, <2>6, <2>7 DEF r, s
  <2>. QED
    BY <2>8
<1>7. PICK a \in Nat, b \in 0 .. 5 : n = 6 * a + b + 1
  <2>1. n \in Nat /\ n >= 1
    OBVIOUS
  <2>2. (n - 1) \div 6 \in Nat /\ (n - 1) % 6 \in 0 .. 5 /\ n = 6 * ((n - 1) \div 6) + ((n - 1) % 6) + 1
    BY <2>1
  <2>. QED
    BY <2>2
<1>. DEFINE c == 6 * a
<1>8. c \in Nat /\ c <= e /\ n = c + b + 1 /\ c % 6 = 0
  BY <1>7
<1>9. \A i \in 0 .. 5 : i <= b => c + i + 1 \in S
  <2>1. c + 1 \in S
    BY <1>7
  <2>2. \A i \in 0 .. 5 : i <= b => c + i + 1 <= e
    BY <1>7
  <2>. QED
    BY <2>1, <2>2
<1>10. R[c] % 6 = 0
  BY <1>6, <1>8
<1>. HIDE DEF c
<1>11. \A i \in 0 .. 5 : i <= b => R[c + i + 1] = R[c + i] + 1
  <2>1. \A i \in 0 .. 5 : c + i + 1 \in Int /\ (c + i + 1) - 1 = c + i
    BY <1>8
  <2>. QED
    BY <1>3, <1>9, <2>1
<1>12. R[c + b + 1] = R[c] + b + 1
  <2>1. c + 0 = c /\ R[c] \in Nat
    BY <1>2, <1>8
  <2>2. b = 0 \/ b = 1 \/ b = 2 \/ b = 3 \/ b = 4 \/ b = 5
    OBVIOUS
  <2>. DEFINE v(i) == R[c + i]
  <2>3. /\ v(1) = v(0) + 1
        /\ 1 <= b => v(2) = v(1) + 1
        /\ 2 <= b => v(3) = v(2) + 1
        /\ 3 <= b => v(4) = v(3) + 1
        /\ 4 <= b => v(5) = v(4) + 1
        /\ 5 <= b => v(6) = v(5) + 1
    <3>1. /\ c + 0 + 1 = c + 1 /\ c + 1 + 1 = c + 2 /\ c + 2 + 1 = c + 3 /\ c + 3 + 1 = c + 4
          /\ c + 4 + 1 = c + 5 /\ c + 5 + 1 = c + 6
      BY <1>8
    <3>. QED
      BY <1>11, <3>1
  <2>4. c + b + 1 = c + (b + 1)
    BY <1>8
  <2>. QED
    BY <2>1, <2>2, <2>3, <2>4
<1>13. R[c] \in Nat
  BY <1>2, <1>8
<1>. DEFINE r == R[c]
            s == R[n]
<1>. HIDE DEF r, s
<1>14. r \in Nat /\ r % 6 = 0 /\ s = r + b + 1
  BY <1>8, <1>10, <1>12, <1>13 DEF r, s
<1>15. (s - 1) % 6 = b
  BY <1>14
<1>16. (n - 1) % 6 = b
  BY <1>7
<1>17. s = Standing(S, n)
  BY <1>7 DEF s, R
<1>. QED
  BY <1>15, <1>16, <1>17

\* Of numbers in a row, no remainder takes two more than another.
LEMMA FairTurns ==
  ASSUME NEW q \in Nat, NEW i \in 0 .. 5, NEW j \in 0 .. 5
  PROVE  /\ Cardinality({k \in 1 .. q : (k - 1) % 6 = i}) \in Nat
         /\ Cardinality({k \in 1 .. q : (k - 1) % 6 = j}) \in Nat
         /\ Cardinality({k \in 1 .. q : (k - 1) % 6 = i})
              <= Cardinality({k \in 1 .. q : (k - 1) % 6 = j}) + 1
<1>. DEFINE A == {k \in 1 .. q : (k - 1) % 6 = i}
            B == {k \in 1 .. q : (k - 1) % 6 = j}
            C == A \ {i + 1}
            f == [k \in C |-> k - 6 + (j - i)]
<1>0. A \in SUBSET (1 .. q) /\ B \in SUBSET (1 .. q) /\ IsFiniteSet(1 .. q)
  BY FS_Interval
<1>1. IsFiniteSet(A) /\ IsFiniteSet(B) /\ Cardinality(A) \in Nat /\ Cardinality(B) \in Nat
  <2>. HIDE DEF A, B
  <2>1. IsFiniteSet(A) /\ IsFiniteSet(B)
    BY <1>0, FS_Subset
  <2>. QED
    BY <2>1, FS_CardinalityType
<1>2. ASSUME NEW k \in C PROVE k \in Int /\ k - 6 + (j - i) \in B
  <2>1. k \in 1 .. q /\ (k - 1) % 6 = i /\ k # i + 1
    OBVIOUS
  <2>2. k - 1 = 6 * ((k - 1) \div 6) + i /\ (k - 1) \div 6 \in Nat
    BY <2>1
  <2>. DEFINE a == (k - 1) \div 6
  <2>3. a \in Nat /\ k = 6 * a + i + 1 /\ a # 0
    BY <2>1, <2>2
  <2>. HIDE DEF a
  <2>4. k - 6 + (j - i) = 6 * (a - 1) + j + 1 /\ a - 1 \in Nat
    BY <2>3
  <2>5. 6 * (a - 1) + j + 1 <= k /\ 6 * (a - 1) + j + 1 >= 1
    BY <2>3
  <2>6. ((6 * (a - 1) + j + 1) - 1) % 6 = j
    BY <2>4
  <2>. QED
    BY <2>1, <2>4, <2>5, <2>6
<1>3. f \in Injection(C, B)
  <2>1. f \in [C -> B]
    BY <1>2
  <2>2. \A k, m \in C : f[k] = f[m] => k = m
    <3>1. \A k \in C : k \in Int /\ f[k] = k - 6 + (j - i)
      BY <1>2
    <3>. HIDE DEF C, f
    <3>. QED
      BY <3>1
  <2>. HIDE DEF C, B, f
  <2>. QED
    BY <2>1, <2>2 DEF Injection, IsInjective
<1>4. Cardinality(C) <= Cardinality(B) /\ IsFiniteSet(C)
  <2>. HIDE DEF C, B, f
  <2>. QED
    BY <1>1, <1>3, FS_Injection
<1>5. Cardinality(C) \in Nat /\ Cardinality(A) <= Cardinality(C) + 1
  <2>. HIDE DEF A
  <2>1. Cardinality(C) = IF i + 1 \in A THEN Cardinality(A) - 1 ELSE Cardinality(A)
    BY <1>1, FS_RemoveElement
  <2>. HIDE DEF C
  <2>2. Cardinality(C) \in Nat
    BY <1>4, FS_CardinalityType
  <2>. QED
    BY <1>1, <2>1, <2>2
<1>6. Cardinality(A) <= Cardinality(B) + 1
  <2>. HIDE DEF A, B, C, f
  <2>. QED
    BY <1>1, <1>4, <1>5
<1>. QED
  BY <1>1, <1>6

\* What is passed on one to one, and reaches all, counts the same.
LEMMA SameCount ==
  ASSUME NEW S, IsFiniteSet(S), NEW T, NEW f, \A x \in S : f[x] \in T,
         \A x, y \in S : f[x] = f[y] => x = y, \A y \in T : \E x \in S : y = f[x]
  PROVE  IsFiniteSet(T) /\ Cardinality(T) = Cardinality(S)
<1>. DEFINE g == [x \in S |-> f[x]]
<1>1. g \in Surjection(S, T)
  BY DEF Surjection
<1>2. g \in Injection(S, T)
  BY DEF Injection, IsInjective
<1>. HIDE DEF g
<1>. QED
  BY <1>1, <1>2, FS_Surjection

\* A place among the numbers of a row that are not in P.
LEMMA StandingOfOthers ==
  ASSUME NEW z \in Nat, NEW P, P \subseteq 0 .. z, NEW n \in 0 .. z
  PROVE  Standing((0 .. z) \ P, n) = n + 1 - Standing(P, n)
<1>. DEFINE Q == (0 .. z) \ P
            S == {m \in P : m <= n}
            T == {m \in Q : m <= n}
<1>1. S \cup T = 0 .. n /\ S \cap T = {}
  <2>1. \A m : m \in 0 .. n <=> (m \in 0 .. z /\ m <= n)
    OBVIOUS
  <2>2. \A m : m \in S <=> (m \in P /\ m <= n)
    OBVIOUS
  <2>3. \A m : m \in T <=> (m \in 0 .. z /\ m \notin P /\ m <= n)
    OBVIOUS
  <2>4. \A m : m \in P => m \in 0 .. z
    OBVIOUS
  <2>. HIDE DEF S, T
  <2>5. \A m : m \in S \cup T <=> m \in 0 .. n
    BY <2>1, <2>2, <2>3, <2>4, Zenon
  <2>. QED
    BY <2>2, <2>3, <2>5, Zenon
<1>2. IsFiniteSet(0 .. n) /\ Cardinality(0 .. n) = n + 1
  BY FS_Interval
<1>3. S \in SUBSET (0 .. n) /\ T \in SUBSET (0 .. n)
  BY <1>1
<1>. HIDE DEF S, T, Q
<1>4. IsFiniteSet(S) /\ IsFiniteSet(T)
  BY <1>2, <1>3, FS_Subset
<1>5. Cardinality(S \cup T) = Cardinality(S) + Cardinality(T)
  BY <1>1, <1>4, CountApart
<1>6. Cardinality(S) \in Nat /\ Cardinality(T) \in Nat
  BY <1>4, FS_CardinalityType
<1>7. Standing(Q, n) = Cardinality(T) /\ Standing(P, n) = Cardinality(S)
  BY DEF Standing, S, T
<1>8. Cardinality(T) = n + 1 - Cardinality(S)
  <2>1. Cardinality(S \cup T) = n + 1
    BY <1>1, <1>2
  <2>. DEFINE d == Cardinality(S)
              e == Cardinality(T)
              v == Cardinality(S \cup T)
  <2>. HIDE DEF d, e, v
  <2>2. v = d + e /\ v = n + 1 /\ d \in Nat /\ e \in Nat
    BY <1>5, <1>6, <2>1 DEF d, e, v
  <2>3. e = n + 1 - d
    BY <2>2
  <2>. QED
    BY <2>3 DEF d, e
<1>. QED
  BY <1>7, <1>8 DEF Q

\* Two multiples of z that are apart stay two apart when divided by at most half of z.
LEMMA SpreadApart ==
  ASSUME NEW m \in Nat \ {0}, NEW z \in Nat, 2 * m <= z, NEW x \in Nat, NEW y \in Nat, x + z <= y
  PROVE  x \div m \in Nat /\ y \div m \in Nat /\ (x \div m) + 2 <= y \div m
<1>. DEFINE p == x \div m
            q == y \div m
            r == x % m
            s == y % m
<1>1. p \in Nat /\ r \in 0 .. m - 1 /\ x = m * p + r
  BY Division
<1>2. q \in Nat /\ s \in 0 .. m - 1 /\ y = m * q + s
  BY Division
<1>. HIDE DEF p, q, r, s
<1>3. m * p + 2 * m < m * q + m
  <2>. DEFINE v == m * p
              w == m * q
  <2>1. v \in Nat /\ w \in Nat
    BY <1>1, <1>2
  <2>2. x = v + r /\ y = w + s
    BY <1>1, <1>2
  <2>. HIDE DEF v, w
  <2>3. v + 2 * m < w + m
    BY <1>1, <1>2, <2>1, <2>2
  <2>. QED
    BY <2>3 DEF v, w
<1>4. m * (p + 1) < m * q
  <2>1. m * (p + 1) = m * p + m
    BY <1>1
  <2>2. m * p \in Nat /\ m * q \in Nat /\ m * (p + 1) \in Nat
    BY <1>1, <1>2
  <2>. QED
    BY <1>3, <2>1, <2>2
<1>5. p + 1 < q
  <2>. SUFFICES ASSUME q <= p + 1 PROVE FALSE
    BY <1>1, <1>2
  <2>1. m * q <= m * (p + 1)
    BY <1>1, <1>2
  <2>2. m * q \in Nat /\ m * (p + 1) \in Nat
    BY <1>1, <1>2
  <2>. QED
    BY <1>4, <2>1, <2>2
<1>. QED
  BY <1>1, <1>2, <1>5 DEF p, q

\* A stride of seven reaches every one of t places, unless seven divides t.
LEMMA SevenReaches ==
  ASSUME NEW t \in Nat \ {0}, t % 7 # 0, NEW b \in Nat, NEW j \in 0 .. t - 1
  PROVE  \E a \in 0 .. t - 1 : (7 * a + b) % t = j
<1>1. PICK u \in Int, k \in Int : 7 * u + k * t = 1
  <2>. DEFINE q == t \div 7
              r == t % 7
  <2>1. q \in Nat /\ r \in 0 .. 6 /\ t = 7 * q + r
    OBVIOUS
  <2>2. r # 0
    OBVIOUS
  <2>. HIDE DEF q, r
  <2>3. CASE r = 1
    <3>. DEFINE y == 0 - q
                i == 1
    <3>1. y \in Int /\ i \in Int /\ 7 * y + i * t = 1
      BY <2>1, <2>3
    <3>. QED
      BY <3>1
  <2>4. CASE r = 2
    <3>. DEFINE y == 1 + 3 * q
                i == 0 - 3
    <3>1. y \in Int /\ i \in Int /\ 7 * y + i * t = 1
      BY <2>1, <2>4
    <3>. QED
      BY <3>1
  <2>5. CASE r = 3
    <3>. DEFINE y == 1 + 2 * q
                i == 0 - 2
    <3>1. y \in Int /\ i \in Int /\ 7 * y + i * t = 1
      BY <2>1, <2>5
    <3>. QED
      BY <3>1
  <2>6. CASE r = 4
    <3>. DEFINE y == -1 - 2 * q
                i == 2
    <3>1. y \in Int /\ i \in Int /\ 7 * y + i * t = 1
      BY <2>1, <2>6
    <3>. QED
      BY <3>1
  <2>7. CASE r = 5
    <3>. DEFINE y == -2 - 3 * q
                i == 3
    <3>1. y \in Int /\ i \in Int /\ 7 * y + i * t = 1
      BY <2>1, <2>7
    <3>. QED
      BY <3>1
  <2>8. CASE r = 6
    <3>. DEFINE y == 1 + q
                i == 0 - 1
    <3>1. y \in Int /\ i \in Int /\ 7 * y + i * t = 1
      BY <2>1, <2>8
    <3>. QED
      BY <3>1
  <2>. QED
    BY <2>1, <2>2, <2>3, <2>4, <2>5, <2>6, <2>7, <2>8
<1>. DEFINE w == j - b
            v == u * w
<1>2. w \in Int /\ v \in Int
  OBVIOUS
<1>3. 7 * v + (k * w) * t = w
  <2>1. (7 * u + k * t) * w = w
    BY <1>1, <1>2
  <2>. QED
    BY <1>2, <2>1
<1>. HIDE DEF w, v
<1>4. PICK a \in 0 .. t - 1, n \in Int : v = a + n * t
  <2>. DEFINE a == v % t
              n == v \div t
  <2>1. a \in 0 .. t - 1 /\ n \in Int /\ v = t * n + a
    BY <1>2
  <2>. HIDE DEF a, n
  <2>2. v = a + n * t
    BY <2>1
  <2>. QED
    BY <2>1, <2>2
<1>. DEFINE x == 7 * a + b
            z == 0 - (k * w) - 7 * n
<1>5. x \in Nat /\ z \in Int
  BY <1>2
<1>6. x = t * z + j
  <2>1. 7 * v = 7 * a + 7 * (n * t)
    BY <1>2, <1>4
  <2>2. t * z = 0 - ((k * w) * t) - 7 * (n * t)
    BY <1>2
  <2>. DEFINE A == (k * w) * t
              B == n * t
              C == t * z
  <2>3. A \in Int /\ B \in Int /\ C \in Int
    BY <1>2, <1>5
  <2>4. 7 * v = 7 * a + 7 * B /\ C = 0 - A - 7 * B /\ 7 * v + A = w
    BY <1>3, <2>1, <2>2
  <2>. HIDE DEF A, B, C, z
  <2>5. 7 * a + b = C + j
    BY <1>2, <2>3, <2>4 DEF w
  <2>. QED
    BY <2>5 DEF C
<1>. HIDE DEF x, z
<1>7. x % t = j
  BY <1>5, <1>6, Quotient
<1>. QED
  BY <1>7 DEF x
=============================================================================
