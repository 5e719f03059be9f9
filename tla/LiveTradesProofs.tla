-------------------------- MODULE LiveTradesProofs --------------------------
(* Theorems about live swaps, for every number of handlers in flight and every *)
(* bound: what a budget is charged, that all that lands is charged, and that   *)
(* only empty wallets are wiped. Budgets and charges are sums over a finite    *)
(* set; the first part of the module shows what a sum is.                      *)
EXTENDS LiveTrades, FiniteSetTheorems, WellFoundedInduction, TLAPS

-----------------------------------------------------------------------------
(* Sums over finite sets. The induction theorems of the library take a        *)
(* predicate as a parameter; here the predicate is the set G of the subsets   *)
(* for which it holds.                                                        *)

\* Induction over the subsets of a finite set: a collection of them that contains
\* each one all of whose proper subsets it contains, contains all.
LEMMA SubsetInduction ==
    ASSUME NEW S, IsFiniteSet(S), NEW G,
           \A T \in SUBSET S : (\A U \in SUBSET T : U # T => U \in G) => T \in G
    PROVE  SUBSET S \subseteq G
<1> SUFFICES ASSUME (SUBSET S) \ G # {} PROVE FALSE
  OBVIOUS
<1>1. IsWellFoundedOn(StrictSubsetOrdering(S), SUBSET S)
  <2>1. FiniteSubsetsOf(S) = SUBSET S
    BY FS_FiniteSubsetsOfFinite
  <2>2. IsWellFoundedOn(StrictSubsetOrdering(S), FiniteSubsetsOf(S))
    BY FS_StrictSubsetOrderingWellFounded, Zenon
  <2> QED
    BY <2>1, <2>2, Zenon
<1>2. PICK T \in (SUBSET S) \ G :
          \A U \in (SUBSET S) \ G : ~(<<U, T>> \in StrictSubsetOrdering(S))
  <2> DEFINE B == (SUBSET S) \ G
  <2>1. B \subseteq SUBSET S /\ B # {}
    OBVIOUS
  <2> DEFINE R == StrictSubsetOrdering(S)
             P == SUBSET S
  <2> HIDE DEF B, R, P
  <2>3. IsWellFoundedOn(R, P) /\ B \subseteq P
    BY <1>1, <2>1 DEF R, P
  <2>4. \E T \in B : \A U \in B : ~(<<U, T>> \in R)
    BY <2>1, <2>3, WFMin
  <2>2. \E T \in B : \A U \in B : ~(<<U, T>> \in StrictSubsetOrdering(S))
    BY <2>4 DEF R
  <2> QED
    BY <2>2 DEF B
<1>3. PICK U \in SUBSET T : U # T /\ U \notin G
  BY <1>2
<1>4. <<U, T>> \in StrictSubsetOrdering(S)
  BY <1>2, <1>3 DEF StrictSubsetOrdering
<1> QED
  BY <1>2, <1>3, <1>4

Pick(T) == CHOOSE x \in T : TRUE
Rest(T) == T \ {Pick(T)}

LEMMA PickRest == ASSUME NEW T, T # {} PROVE Pick(T) \in T /\ Rest(T) \in SUBSET T /\ Rest(T) # T /\ Pick(T) \notin Rest(T)
  BY DEF Pick, Rest

\* g is the sum of f over each subset of S.
Sums(f, S, g) ==
    g = [T \in SUBSET S |-> IF T = {} THEN 0 ELSE f[Pick(T)] + g[Rest(T)]]

LEMMA SumIsChosen ==
    ASSUME NEW f, NEW S
    PROVE  SumFunctionOnSet(f, S) = (CHOOSE g : Sums(f, S, g))[S]
  BY DEF SumFunctionOnSet, FoldFunctionOnSet, MapThenFoldSet, Sums, Pick, Rest

LEMMA SumsAt == 
    ASSUME NEW f, NEW S, NEW g, Sums(f, S, g), NEW T \in SUBSET S
    PROVE  /\ T = {} => g[T] = 0
           /\ T # {} => g[T] = f[Pick(T)] + g[Rest(T)]
<1> DEFINE h == [U \in SUBSET S |-> IF U = {} THEN 0 ELSE f[Pick(U)] + g[Rest(U)]]
<1>1. g = h
  BY DEF Sums
<1>2. h[T] = IF T = {} THEN 0 ELSE f[Pick(T)] + g[Rest(T)]
  OBVIOUS
<1> HIDE DEF h
<1> QED
  BY <1>1, <1>2

LEMMA SumsUnique ==
    ASSUME NEW f, NEW S, IsFiniteSet(S), NEW g, NEW h, Sums(f, S, g), Sums(f, S, h)
    PROVE  g = h
<1> DEFINE G == {T \in SUBSET S : g[T] = h[T]}
<1>1. ASSUME NEW T \in SUBSET S, \A U \in SUBSET T : U # T => U \in G
      PROVE  T \in G
  <2>1. CASE T = {}
    BY <2>1, SumsAt
  <2>2. CASE T # {}
    BY <1>1, <2>2, SumsAt, PickRest
  <2> QED
    BY <2>1, <2>2
<1>2. SUBSET S \subseteq G
  <2> HIDE DEF G
  <2> QED
  BY <1>1, SubsetInduction
<1>3. \A T \in SUBSET S : g[T] = h[T]
  BY <1>2
<1>4. g = [T \in SUBSET S |-> g[T]] /\ h = [T \in SUBSET S |-> h[T]]
  BY DEF Sums
<1> QED
  BY <1>3, <1>4

LEMMA SumsRestrict ==
    ASSUME NEW f, NEW S, NEW g, Sums(f, S, g), NEW U \in SUBSET S
    PROVE  Sums(f, U, [T \in SUBSET U |-> g[T]])
<1> DEFINE h == [T \in SUBSET U |-> g[T]]
           k == [T \in SUBSET U |-> IF T = {} THEN 0 ELSE f[Pick(T)] + h[Rest(T)]]
<1>1. ASSUME NEW T \in SUBSET U PROVE h[T] = k[T]
  <2>1. CASE T = {}
    BY <2>1, SumsAt
  <2>2. CASE T # {}
    BY <2>2, SumsAt, PickRest
  <2> QED
    BY <2>1, <2>2
<1>2. h = k
  BY <1>1
<1> QED
  BY <1>2 DEF Sums

LEMMA SumsExist ==
    ASSUME NEW f, NEW S, IsFiniteSet(S)
    PROVE  \E g : Sums(f, S, g)
<1> DEFINE G == {T \in SUBSET S : \E g : Sums(f, T, g)}
<1>1. ASSUME NEW T \in SUBSET S, \A U \in SUBSET T : U # T => U \in G
      PROVE  T \in G
  <2> DEFINE v == [U \in SUBSET T |-> (CHOOSE g : Sums(f, U, g))[U]]
             g == [U \in SUBSET T |-> IF U = {} THEN 0 ELSE f[Pick(U)] + v[Rest(U)]]
  <2>1. ASSUME NEW U \in SUBSET T, U # T
        PROVE  v[U] = IF U = {} THEN 0 ELSE f[Pick(U)] + v[Rest(U)]
    <3> DEFINE u == CHOOSE h : Sums(f, U, h)
    <3>1. Sums(f, U, u)
      BY <1>1, <2>1
    <3>2. CASE U = {}
      BY <3>1, <3>2, SumsAt
    <3>3. CASE U # {}
      <4> DEFINE r == CHOOSE h : Sums(f, Rest(U), h)
                 q == [V \in SUBSET Rest(U) |-> u[V]]
      <4>1. Rest(U) \in SUBSET T /\ Rest(U) # T /\ Rest(U) \in SUBSET U /\ IsFiniteSet(Rest(U))
        BY <3>3, PickRest, FS_Subset
      <4>2. Sums(f, Rest(U), r)
        BY <1>1, <4>1
      <4>3. Sums(f, Rest(U), q)
        BY <3>1, <4>1, SumsRestrict
      <4> HIDE DEF u, r
      <4>4. r = q
        <5> HIDE DEF q
        <5> QED BY <4>1, <4>2, <4>3, SumsUnique
      <4>5. r[Rest(U)] = u[Rest(U)]
        BY <4>4
      <4>6. u[U] = f[Pick(U)] + u[Rest(U)]
        BY <3>1, <3>3, SumsAt
      <4>7. v[U] = u[U] /\ v[Rest(U)] = r[Rest(U)]
        BY <4>1 DEF u, r
      <4> HIDE DEF v
      <4> QED
        BY <3>3, <4>5, <4>6, <4>7
    <3> QED
      BY <3>2, <3>3
  <2>2. \A U \in SUBSET T : U # T => g[U] = v[U]
    BY <2>1
  <2>3. \A U \in SUBSET T : U # {} => g[Rest(U)] = v[Rest(U)]
    <3> HIDE DEF g, v
    <3> QED BY <2>2, PickRest
  <2>4. g = [U \in SUBSET T |-> IF U = {} THEN 0 ELSE f[Pick(U)] + g[Rest(U)]]
    <3> DEFINE k == [U \in SUBSET T |-> IF U = {} THEN 0 ELSE f[Pick(U)] + g[Rest(U)]]
    <3>1. ASSUME NEW U \in SUBSET T PROVE g[U] = k[U]
      <4>1. g[U] = IF U = {} THEN 0 ELSE f[Pick(U)] + v[Rest(U)]
        OBVIOUS
      <4> HIDE DEF g
      <4> QED BY <2>3, <4>1
    <3> QED BY <3>1
  <2> QED
    <3> HIDE DEF g
    <3>1. Sums(f, T, g)
      BY <2>4 DEF Sums
    <3> QED BY <3>1
<1>2. SUBSET S \subseteq G
  <2> HIDE DEF G
  <2> QED
    BY <1>1, SubsetInduction
<1> QED
  BY <1>2

-----
LEMMA SumStep ==
    ASSUME NEW f, NEW S, IsFiniteSet(S)
    PROVE  /\ S = {} => SumFunctionOnSet(f, S) = 0
           /\ S # {} => SumFunctionOnSet(f, S) = f[Pick(S)] + SumFunctionOnSet(f, Rest(S))
<1> DEFINE g == CHOOSE h : Sums(f, S, h)
           r == CHOOSE h : Sums(f, Rest(S), h)
           q == [T \in SUBSET Rest(S) |-> g[T]]
<1>1. Sums(f, S, g)
  BY SumsExist
<1>2. SumFunctionOnSet(f, S) = g[S] /\ SumFunctionOnSet(f, Rest(S)) = r[Rest(S)]
  BY SumIsChosen
<1>3. CASE S = {}
  <2> HIDE DEF g
  <2> QED BY <1>1, <1>2, <1>3, SumsAt
<1>4. CASE S # {}
  <2>1. Rest(S) \in SUBSET S /\ IsFiniteSet(Rest(S))
    BY <1>4, PickRest, FS_Subset
  <2>2. Sums(f, Rest(S), r)
    BY <2>1, SumsExist
  <2> HIDE DEF g, r
  <2>3. Sums(f, Rest(S), q)
    BY <1>1, <2>1, SumsRestrict
  <2>4. r = q
    <3> HIDE DEF q
    <3> QED BY <2>1, <2>2, <2>3, SumsUnique
  <2>5. r[Rest(S)] = g[Rest(S)]
    BY <2>4
  <2>6. g[S] = f[Pick(S)] + g[Rest(S)]
    BY <1>1, <1>4, SumsAt
  <2> QED BY <1>2, <1>4, <2>5, <2>6
<1> QED BY <1>3, <1>4

\* Sums of naturals are naturals.
LEMMA SumType ==
    ASSUME NEW S, IsFiniteSet(S), NEW f, \A x \in S : f[x] \in Nat
    PROVE  SumFunctionOnSet(f, S) \in Nat
<1> DEFINE G == {T \in SUBSET S : SumFunctionOnSet(f, T) \in Nat}
<1>1. ASSUME NEW T \in SUBSET S, \A U \in SUBSET T : U # T => U \in G
      PROVE  T \in G
  <2>1. IsFiniteSet(T)
    BY FS_Subset
  <2>2. CASE T = {}
    <3>1. SumFunctionOnSet(f, T) = 0
      BY <2>1, <2>2, SumStep
    <3> QED BY <3>1
  <2>3. CASE T # {}
    BY <1>1, <2>1, <2>3, SumStep, PickRest
  <2> QED
    BY <2>2, <2>3
<1>2. SUBSET S \subseteq G
  <2> HIDE DEF G
  <2> QED
    BY <1>1, SubsetInduction
<1> QED
  BY <1>2

\* Any element can be taken out of a sum.
LEMMA SumTake ==
    ASSUME NEW S, IsFiniteSet(S), NEW f, \A x \in S : f[x] \in Nat, NEW e \in S
    PROVE  SumFunctionOnSet(f, S) = f[e] + SumFunctionOnSet(f, S \ {e})
<1> DEFINE G == {T \in SUBSET S :
                    \A x \in T : SumFunctionOnSet(f, T) = f[x] + SumFunctionOnSet(f, T \ {x})}
<1>1. ASSUME NEW T \in SUBSET S, \A U \in SUBSET T : U # T => U \in G
      PROVE  T \in G
  <2> SUFFICES ASSUME NEW x \in T
               PROVE  SumFunctionOnSet(f, T) = f[x] + SumFunctionOnSet(f, T \ {x})
    OBVIOUS
  <2> DEFINE p == Pick(T)
  <2>1. /\ IsFiniteSet(T) /\ IsFiniteSet(T \ {x}) /\ IsFiniteSet(T \ {p})
        /\ IsFiniteSet((T \ {x}) \ {p})
    BY FS_Subset
  <2>2. SumFunctionOnSet(f, T) = f[p] + SumFunctionOnSet(f, T \ {p}) /\ p \in T
    BY <2>1, SumStep, PickRest DEF Rest
  <2>3. CASE x = p
    BY <2>2, <2>3
  <2>4. CASE x # p
    <3> HIDE DEF p
    <3>1. T \ {p} \in G /\ T \ {x} \in G
      BY <1>1, <2>2
    <3>2. SumFunctionOnSet(f, T \ {p}) = f[x] + SumFunctionOnSet(f, (T \ {p}) \ {x})
      BY <2>4, <3>1
    <3>3. SumFunctionOnSet(f, T \ {x}) = f[p] + SumFunctionOnSet(f, (T \ {x}) \ {p})
      BY <2>2, <2>4, <3>1
    <3>4. (T \ {p}) \ {x} = (T \ {x}) \ {p}
      OBVIOUS
    <3>5. SumFunctionOnSet(f, (T \ {x}) \ {p}) \in Nat /\ f[x] \in Nat /\ f[p] \in Nat
      BY <2>1, <2>2, SumType
    <3> QED
      BY <2>2, <3>2, <3>3, <3>4, <3>5
  <2> QED
    BY <2>3, <2>4
<1>2. SUBSET S \subseteq G
  <2> HIDE DEF G
  <2> QED
    BY <1>1, SubsetInduction
<1> QED
  BY <1>2

\* A sum depends on what it adds up only.
LEMMA SumSame ==
    ASSUME NEW S, IsFiniteSet(S), NEW f, NEW h, \A x \in S : f[x] = h[x]
    PROVE  SumFunctionOnSet(f, S) = SumFunctionOnSet(h, S)
<1> DEFINE G == {T \in SUBSET S : SumFunctionOnSet(f, T) = SumFunctionOnSet(h, T)}
<1>1. ASSUME NEW T \in SUBSET S, \A U \in SUBSET T : U # T => U \in G
      PROVE  T \in G
  <2>1. IsFiniteSet(T)
    BY FS_Subset
  <2>2. CASE T = {}
    BY <2>1, <2>2, SumStep
  <2>3. CASE T # {}
    <3>1. f[Pick(T)] = h[Pick(T)] /\ Rest(T) \in G
      BY <1>1, <2>3, PickRest
    <3> QED
      BY <2>1, <2>3, <3>1, SumStep
  <2> QED
    BY <2>2, <2>3
<1>2. SUBSET S \subseteq G
  <2> HIDE DEF G
  <2> QED
    BY <1>1, SubsetInduction
<1> QED
  BY <1>2

\* As many times the largest is enough.
LEMMA SumBound ==
    ASSUME NEW S, IsFiniteSet(S), NEW b \in Nat, NEW f, \A x \in S : f[x] \in Nat /\ f[x] <= b
    PROVE  SumFunctionOnSet(f, S) <= Cardinality(S) * b
<1> DEFINE G == {T \in SUBSET S : SumFunctionOnSet(f, T) <= Cardinality(T) * b}
<1>1. ASSUME NEW T \in SUBSET S, \A U \in SUBSET T : U # T => U \in G
      PROVE  T \in G
  <2>1. IsFiniteSet(T)
    BY FS_Subset
  <2>2. CASE T = {}
    <3>1. SumFunctionOnSet(f, T) = 0 /\ Cardinality(T) = 0
      BY <2>1, <2>2, SumStep, FS_EmptySet
    <3> QED BY <3>1
  <2>3. CASE T # {}
    <3>1. Rest(T) \in G /\ Pick(T) \in T /\ IsFiniteSet(Rest(T))
      BY <1>1, <2>1, <2>3, PickRest, FS_Subset
    <3>2. /\ Cardinality(Rest(T)) = Cardinality(T) - 1 /\ Cardinality(T) \in Nat
          /\ Cardinality(Rest(T)) \in Nat
      BY <2>1, <3>1, FS_RemoveElement, FS_CardinalityType DEF Rest
    <3>3. SumFunctionOnSet(f, Rest(T)) \in Nat
      BY <3>1, SumType, PickRest
    <3> DEFINE n == Cardinality(Rest(T))
    <3>4. Cardinality(T) * b = n * b + b
      <4>1. \A m \in Nat : (m + 1) * b = m * b + b
        OBVIOUS
      <4> QED BY <3>2, <4>1
    <3>5. n * b \in Nat
      BY <3>2
    <3>6. SumFunctionOnSet(f, Rest(T)) <= n * b
      BY <3>1
    <3>7. f[Pick(T)] \in Nat /\ f[Pick(T)] <= b
      BY <3>1
    <3>8. SumFunctionOnSet(f, T) = f[Pick(T)] + SumFunctionOnSet(f, Rest(T))
      BY <2>1, <2>3, SumStep
    <3> HIDE DEF n
    <3>9. SumFunctionOnSet(f, T) <= Cardinality(T) * b
      BY <3>3, <3>4, <3>5, <3>6, <3>7, <3>8
    <3> QED
      BY <3>9
  <2> QED
    BY <2>2, <2>3
<1>2. SUBSET S \subseteq G
  <2> HIDE DEF G
  <2> QED
    BY <1>1, SubsetInduction
<1> QED
  BY <1>2

\* The sum changes by what one of its terms changes by.
LEMMA SumChange ==
    ASSUME NEW S, IsFiniteSet(S), NEW f, NEW h, NEW e \in S,
           \A x \in S : f[x] \in Nat, \A x \in S : h[x] \in Nat,
           \A x \in S \ {e} : f[x] = h[x]
    PROVE  /\ SumFunctionOnSet(f, S) \in Nat /\ SumFunctionOnSet(h, S) \in Nat
           /\ SumFunctionOnSet(h, S) + f[e] = SumFunctionOnSet(f, S) + h[e]
<1>1. IsFiniteSet(S \ {e})
  BY FS_Subset
<1>2. SumFunctionOnSet(f, S \ {e}) = SumFunctionOnSet(h, S \ {e})
  BY <1>1, SumSame
<1>3. /\ SumFunctionOnSet(f, S) = f[e] + SumFunctionOnSet(f, S \ {e})
      /\ SumFunctionOnSet(h, S) = h[e] + SumFunctionOnSet(h, S \ {e})
  BY SumTake
<1>4. SumFunctionOnSet(f, S \ {e}) \in Nat
  BY <1>1, SumType
<1>5. f[e] \in Nat /\ h[e] \in Nat
  OBVIOUS
<1> QED
  BY <1>2, <1>3, <1>4, <1>5

\* What a function maps a finite set to is finite.
LEMMA ImageFinite ==
    ASSUME NEW S, IsFiniteSet(S), NEW f
    PROVE  IsFiniteSet({f[x] : x \in S})
<1> DEFINE T == {f[x] : x \in S}
           g == [x \in S |-> f[x]]
<1>1. g \in Surjection(S, T)
  BY DEF Surjection
<1> HIDE DEF T, g
<1>2. IsFiniteSet(T)
  BY <1>1, FS_Surjection
<1> QED
  BY <1>2 DEF T

\* A finite set of naturals that is not empty has a largest element.
LEMMA MaxOf ==
    ASSUME NEW S, IsFiniteSet(S), S # {}, S \subseteq Nat
    PROVE  Max(S) \in S /\ \A x \in S : Max(S) >= x
<1> DEFINE G == {T \in SUBSET S : T # {} => \E m \in T : \A x \in T : m >= x}
<1>1. ASSUME NEW T \in SUBSET S, \A U \in SUBSET T : U # T => U \in G
      PROVE  T \in G
  <2>1. CASE T = {}
    BY <2>1
  <2>2. CASE T # {}
    <3>1. Rest(T) \in G /\ Pick(T) \in T /\ Rest(T) \in SUBSET T
      BY <1>1, <2>2, PickRest
    <3>2. CASE Rest(T) = {}
      <4>1. \A x \in T : Pick(T) >= x
        BY <3>1, <3>2 DEF Rest
      <4> QED
        BY <3>1, <4>1
    <3>3. CASE Rest(T) # {}
      <4>1. PICK m \in Rest(T) : \A x \in Rest(T) : m >= x
        BY <3>1, <3>3
      <4> DEFINE n == IF Pick(T) >= m THEN Pick(T) ELSE m
      <4>2. Pick(T) \in Nat /\ m \in Nat /\ T \subseteq Nat
        BY <3>1, <4>1
      <4>3. T = Rest(T) \cup {Pick(T)}
        BY <3>1 DEF Rest
      <4>4. n \in T /\ n >= m /\ n >= Pick(T) /\ n \in Nat
        BY <4>1, <4>2, <4>3
      <4>5. \A x \in T : n >= x
        <5> HIDE DEF n
        <5> SUFFICES ASSUME NEW x \in T PROVE n >= x
          OBVIOUS
        <5>1. x \in Nat /\ (x = Pick(T) \/ (x \in Rest(T) /\ m >= x))
          BY <4>1, <4>2, <4>3
        <5> QED
          BY <4>2, <4>4, <5>1
      <4> HIDE DEF n
      <4> QED
        BY <4>4, <4>5
    <3> QED
      BY <3>2, <3>3
  <2> QED
    BY <2>1, <2>2
<1>2. SUBSET S \subseteq G
  <2> HIDE DEF G
  <2> QED
    BY <1>1, SubsetInduction
<1>3. \E m \in S : \A x \in S : m >= x
  BY <1>2
<1> QED
  BY <1>3 DEF Max

-----------------------------------------------------------------------------
(* The constants.                                                             *)

\* Policies are policies, and no policy exceeds the largest.
LEMMA PolicyBounds ==
    /\ LargestTrade \in Nat /\ LargestDay \in Nat /\ LargestTrade <= LargestDay
    /\ \A p \in Policies :
          /\ p \in PolicyType
          /\ p.maxNotional <= LargestTrade /\ p.maxDaily <= LargestDay
<1> DEFINE notionals == [p \in Policies |-> p.maxNotional]
           dailies   == [p \in Policies |-> p.maxDaily]
           N == {p.maxNotional : p \in Policies}
           D == {p.maxDaily : p \in Policies}
<1>1. \A p \in Policies :
          /\ p \in PolicyType /\ p.maxNotional \in Nat /\ p.maxDaily \in Nat
          /\ p.maxNotional <= p.maxDaily
  BY LiveAssumption DEF LiveAssumption, PolicyType
<1>2. IsFiniteSet(Policies) /\ Policies # {}
  BY LiveAssumption DEF LiveAssumption
<1>3. N = {notionals[p] : p \in Policies} /\ D = {dailies[p] : p \in Policies}
  OBVIOUS
<1>4. IsFiniteSet(N) /\ IsFiniteSet(D)
  <2> HIDE DEF N, D, notionals, dailies
  <2> QED
    BY <1>2, <1>3, ImageFinite
<1>5. /\ N # {} /\ N \subseteq Nat /\ \A p \in Policies : p.maxNotional \in N
      /\ D # {} /\ D \subseteq Nat /\ \A p \in Policies : p.maxDaily \in D
      /\ \A n \in N : \E p \in Policies : p.maxNotional = n
  BY <1>1, <1>2
<1>6. LargestTrade = Max(N) /\ LargestDay = Max(D)
  BY DEF LargestTrade, LargestDay
<1> HIDE DEF N, D
<1>7. /\ LargestTrade \in N /\ \A n \in N : LargestTrade >= n
      /\ LargestDay \in D /\ \A n \in D : LargestDay >= n
  BY <1>4, <1>5, <1>6, MaxOf
<1>8. PICK p \in Policies : p.maxNotional = LargestTrade
  BY <1>5, <1>7
<1>9. LargestTrade \in Nat /\ LargestDay \in Nat /\ LargestDay >= p.maxDaily
  BY <1>5, <1>7
<1>10. LargestTrade <= LargestDay
  BY <1>1, <1>8, <1>9
<1>11. ASSUME NEW q \in Policies
       PROVE  q.maxNotional <= LargestTrade /\ q.maxDaily <= LargestDay
  <2>1. LargestTrade >= q.maxNotional /\ LargestDay >= q.maxDaily
    BY <1>5, <1>7
  <2> QED
    BY <1>1, <1>9, <2>1
<1> QED
  BY <1>1, <1>9, <1>10, <1>11

\* The clock, its days and the handlers.
LEMMA Finite ==
    /\ IsFiniteSet(Slot) /\ Cardinality(Slot) \in Nat
    /\ IsFiniteSet(Day) /\ Day \subseteq Nat
<1>1. IsFiniteSet(Slot) /\ MaxTime \in Nat
  BY LiveAssumption DEF LiveAssumption
<1>2. IsFiniteSet(0..MaxTime)
  BY <1>1, FS_Interval
<1>3. IsFiniteSet(Day)
  BY <1>2, ImageFinite DEF Day
<1> QED
  BY <1>1, <1>3, FS_CardinalityType, LiveAssumption DEF LiveAssumption, Day

-----------------------------------------------------------------------------
(* Types. A handler at work has a wallet, and what has landed for a handler   *)
(* that still waits waits for the swap's answer.                              *)

Busy ==
    /\ \A s \in Slot : trades[s].phase # "idle" => trades[s].wallet \in Wallet
    /\ \A s \in Slot : trades[s].landed => trades[s].phase = "executing"
    /\ \A d \in Destroyer : destroys[d].phase # "idle" => destroys[d].wallet \in Wallet

Typing == TypeOK /\ Busy

\* Idle handlers, and the days.
LEMMA Idle ==
    /\ NoTrade \in Trade /\ NoTrade.phase = "idle" /\ ~NoTrade.landed
    /\ NoDestruction \in Destruction /\ NoDestruction.phase = "idle"
    /\ \A t \in StartTime..MaxTime : DayOf[t] \in Day
    /\ Sizes \subseteq Nat
  BY LiveAssumption DEF LiveAssumption, NoTrade, Trade, NoDestruction, Destruction,
                        Kind, Day

\* The types hold at the start.
LEMMA TypingInit == Init => Typing
<1> SUFFICES ASSUME Init PROVE Typing
  OBVIOUS
<1> USE DEF Init
<1>1. now \in StartTime..MaxTime
  BY LiveAssumption DEF LiveAssumption
<1>2. records \in [Wallet -> Record]
  BY LiveAssumption DEF LiveAssumption, Record
<1>3. Busy
  BY Idle DEF Busy
<1>4. /\ landedOn \in [Wallet \X Day -> Nat]
      /\ charged \in [Wallet -> Nat] /\ adrift \in [Wallet -> Nat]
      /\ sol \in [Wallet -> Nat] /\ lots \in [Wallet -> Nat]
  OBVIOUS
<1>5. trades \in [Slot -> Trade] /\ destroys \in [Destroyer -> Destruction]
  BY Idle
<1>6. /\ current \in 0..MaxWallet /\ minted \in 0..MaxWallet /\ issued \in 0..MaxToken
      /\ deposits \in 0..MaxDeposit /\ lost \in 0..MaxLost /\ wiped \subseteq Wallet
  BY LiveAssumption DEF LiveAssumption
<1> QED
  BY <1>1, <1>2, <1>3, <1>4, <1>5, <1>6 DEF Typing, TypeOK

\* A handler that goes on is a handler, with a wallet.
LEMMA PutTradeType ==
    ASSUME Typing, NEW s \in Slot, NEW t \in Trade, PutTrade(s, t),
           t.phase # "idle" => t.wallet \in Wallet,
           t.landed => t.phase = "executing",
           destroys' = destroys
    PROVE  trades' \in [Slot -> Trade] /\ Busy'
  BY DEF Typing, TypeOK, Busy, PutTrade

LEMMA PutDestroyType ==
    ASSUME Typing, NEW d \in Destroyer, NEW r \in Destruction, PutDestroy(d, r),
           r.phase # "idle" => r.wallet \in Wallet,
           trades' = trades
    PROVE  destroys' \in [Destroyer -> Destruction] /\ Busy'
  BY DEF Typing, TypeOK, Busy, PutDestroy

\* What has landed and waits is a natural number, handler by handler.
LEMMA UnsettledType ==
    ASSUME Typing, NEW w
    PROVE  /\ DOMAIN Unsettled(w) = Slot
           /\ \A s \in Slot : Unsettled(w)[s] \in Nat
           /\ SumFunction(Unsettled(w)) \in Nat
           /\ SumFunction(Unsettled(w)) = SumFunctionOnSet(Unsettled(w), Slot)
<1>1. DOMAIN Unsettled(w) = Slot
  BY DEF Unsettled
<1>2. \A s \in Slot : Unsettled(w)[s] \in Nat
  BY DEF Unsettled, Typing, TypeOK, Trade
<1>3. SumFunctionOnSet(Unsettled(w), Slot) \in Nat
  BY <1>2, Finite, SumType
<1>4. SumFunction(Unsettled(w)) = SumFunctionOnSet(Unsettled(w), Slot)
  BY <1>1 DEF SumFunction
<1> QED
  BY <1>1, <1>2, <1>3, <1>4

\* A record whose policy, day, spending, last trade or session changes.
LEMMA RecordsType ==
    ASSUME Typing, NEW w \in Wallet, NEW r \in Record,
           records' = [records EXCEPT ![w] = r]
    PROVE  records' \in [Wallet -> Record]
  BY DEF Typing, TypeOK

\* The day of the record of a wallet that trades.
LEMMA RolledOverType ==
    ASSUME Typing, Exists
    PROVE  /\ current \in Wallet /\ records[current] \in Record
           /\ SpentToday(records[current]) \in Nat
           /\ RolledOver(records[current]) \in Record
           /\ RolledOver(records[current]).spent = SpentToday(records[current])
<1>1. current \in Wallet /\ records[current] \in Record
  BY LiveAssumption DEF LiveAssumption, Typing, TypeOK, Exists, Wallet
<1>2. Today \in Nat
  BY Idle, Finite DEF Today, Typing, TypeOK
<1> QED
  BY <1>1, <1>2 DEF RolledOver, SpentToday, Record

\* The types are inductive.
LEMMA TypingStep == Typing /\ [Next]_vars => Typing'
<1> SUFFICES ASSUME Typing, [Next]_vars PROVE Typing'
  OBVIOUS
<1> USE DEF Typing
<1>1. ASSUME NEW p \in Policies, Provision(p) PROVE Typing'
  <2>1. minted + 1 \in Wallet
    BY <1>1, LiveAssumption DEF LiveAssumption, Provision, Wallet, TypeOK
  <2>2. Today \in Nat
    BY Idle, Finite DEF Today, TypeOK
  <2>3. records' \in [Wallet -> Record]
    BY <1>1, <2>1, <2>2, LiveAssumption DEF LiveAssumption, Provision, TypeOK, Record
  <2> QED
    BY <1>1, <2>1, <2>3 DEF Provision, TypeOK, Busy, chain, Wallet
<1>2. ASSUME NEW p \in Policies, SetPolicy(p) PROVE Typing'
  <2>1. records' \in [Wallet -> Record]
    BY <1>2, RolledOverType DEF SetPolicy, TypeOK, Record
  <2> QED
    BY <1>2, <2>1 DEF SetPolicy, TypeOK, Busy, chain, counted
<1>3. CASE OpenSession
  <2>1. issued + 1 \in 0..MaxToken
    BY <1>3, LiveAssumption DEF LiveAssumption, OpenSession, TypeOK
  <2>2. records' \in [Wallet -> Record]
    BY <1>3, <2>1, RolledOverType DEF OpenSession, TypeOK, Record
  <2> QED
    BY <1>3, <2>1, <2>2 DEF OpenSession, TypeOK, Busy, chain
<1>4. ASSUME NEW s \in Slot, NEW kind \in Kind, NEW size \in Sizes, Submit(s, kind, size)
      PROVE  Typing'
  <2> DEFINE r == records[current]
             t == [phase |-> "ordering", wallet |-> current, kind |-> kind,
                   token |-> r.session,
                   size |-> IF kind = "buy" THEN size ELSE 0,
                   notional |-> r.policy.maxNotional,
                   remaining |-> AtLeast(0, r.policy.maxDaily - SpentToday(r)),
                   ts |-> now, value |-> 0, landed |-> FALSE]
  <2>1. /\ Exists /\ PutTrade(s, t) /\ destroys' = destroys
        /\ records' = [records EXCEPT ![current] = RolledOver(r)]
    BY <1>4 DEF Submit
  <2>2. current \in Wallet /\ RolledOver(r) \in Record /\ r \in Record
        /\ SpentToday(r) \in Nat
    BY <2>1, RolledOverType
  <2>3. r.policy.maxNotional \in Nat /\ r.policy.maxDaily \in Nat
    BY <2>2, PolicyBounds DEF Record, PolicyType
  <2>4. AtLeast(0, r.policy.maxDaily - SpentToday(r)) \in Nat
    BY <2>2, <2>3 DEF AtLeast
  <2>5. t \in Trade
    BY <2>2, <2>3, <2>4, Idle, LiveAssumption
       DEF LiveAssumption, Trade, TypeOK, Record, Wallet
  <2>6. trades' \in [Slot -> Trade] /\ Busy'
    <3>1. t.phase # "idle" /\ t.wallet = current /\ ~t.landed
      OBVIOUS
    <3> HIDE DEF t
    <3> QED
      BY <2>1, <2>2, <2>5, <3>1, PutTradeType
  <2>7. records' \in [Wallet -> Record]
    BY <2>1, <2>2, RecordsType
  <2> QED
    BY <1>4, <2>6, <2>7 DEF Submit, TypeOK, chain, counted
<1>5. ASSUME NEW s \in Slot, NEW quote \in Sizes, OrderArrives(s, quote) PROVE Typing'
  <2> DEFINE t == [trades[s] EXCEPT !.phase = "executing", !.value = quote]
  <2>1. PutTrade(s, t) /\ trades[s].phase = "ordering" /\ destroys' = destroys
    BY <1>5 DEF OrderArrives
  <2>2. t \in Trade /\ t.phase = "executing" /\ t.wallet \in Wallet
    BY <2>1, Idle DEF TypeOK, Busy, Trade
  <2>3. trades' \in [Slot -> Trade] /\ Busy'
    <3> HIDE DEF t
    <3> QED
      BY <2>1, <2>2, PutTradeType
  <2> QED
    BY <1>5, <2>3 DEF OrderArrives, TypeOK, chain, counted
<1>6. ASSUME NEW s \in Slot, OrderFails(s) \/ ExecuteFails(s) \/ Expires(s) PROVE Typing'
  <2>1. trades' \in [Slot -> Trade] /\ Busy'
    BY <1>6, Idle, PutTradeType DEF OrderFails, ExecuteFails, Expires
  <2> QED
    BY <1>6, <2>1 DEF OrderFails, ExecuteFails, Expires, TypeOK, chain, counted
<1>7. ASSUME NEW s \in Slot, Settle(s) PROVE Typing'
  <2> DEFINE t == trades[s]
             r == records[t.wallet]
             settled == [r EXCEPT !.spent = @ + t.value, !.lastTrade = t.ts]
  <2>1. /\ t.phase = "executing" /\ PutTrade(s, NoTrade) /\ destroys' = destroys
        /\ records' = [records EXCEPT ![t.wallet] = settled]
        /\ charged' = [charged EXCEPT ![t.wallet] = @ + settled.spent - r.spent]
    BY <1>7 DEF Settle
  <2>2. t \in Trade /\ t.wallet \in Wallet /\ r \in Record
    BY <2>1 DEF TypeOK, Busy
  <2>3. settled \in Record /\ settled.spent = r.spent + t.value
        /\ r.spent \in Nat /\ t.value \in Nat
    <3>1. r.spent \in Nat /\ t.value \in Nat /\ t.ts \in Nat
      BY <2>2 DEF Record, Trade
    <3>2. r.spent + t.value \in Nat
      BY <3>1
    <3> HIDE DEF r, t
    <3>3. settled.spent = r.spent + t.value
      BY <2>2 DEF Record
    <3>4. settled \in Record
      BY <2>2, <3>1, <3>2 DEF Record
    <3> QED
      BY <3>1, <3>3, <3>4
  <2>4. records' \in [Wallet -> Record]
    <3> HIDE DEF settled
    <3> QED
      BY <2>1, <2>2, <2>3, RecordsType
  <2>5. charged' \in [Wallet -> Nat]
    <3>1. charged[t.wallet] \in Nat
      BY <2>2 DEF TypeOK
    <3>2. charged[t.wallet] + settled.spent - r.spent \in Nat
      <4> HIDE DEF settled
      <4> QED
        BY <2>3, <3>1
    <3> HIDE DEF settled, r, t
    <3> QED
      BY <2>1, <3>2 DEF TypeOK
  <2>6. trades' \in [Slot -> Trade] /\ Busy'
    BY <2>1, Idle, PutTradeType
  <2> HIDE DEF settled
  <2> QED
    BY <1>7, <2>4, <2>5, <2>6 DEF Settle, TypeOK, chain, counted
<1>8. ASSUME NEW s \in Slot, AnswerLost(s) PROVE Typing'
  <2> DEFINE t == trades[s]
             u == IF t.landed THEN NoTrade ELSE [t EXCEPT !.phase = "lost"]
  <2>1. /\ t.phase = "executing" /\ PutTrade(s, u) /\ destroys' = destroys
        /\ adrift' = [adrift EXCEPT ![t.wallet] = IF t.landed THEN @ + t.value ELSE @]
        /\ lost < MaxLost /\ lost' = lost + 1
    BY <1>8 DEF AnswerLost
  <2>2. t \in Trade /\ t.wallet \in Wallet /\ t.value \in Nat
    BY <2>1 DEF TypeOK, Busy, Trade
  <2>3. u \in Trade /\ (u.phase # "idle" => u.wallet = t.wallet) /\ ~u.landed
    BY <2>2, Idle DEF Trade
  <2>4. trades' \in [Slot -> Trade] /\ Busy'
    <3> HIDE DEF u
    <3> QED
      BY <2>1, <2>2, <2>3, PutTradeType
  <2>5. adrift' \in [Wallet -> Nat]
    BY <2>1, <2>2 DEF TypeOK
  <2>6. lost' \in 0..MaxLost
    BY <2>1, LiveAssumption DEF LiveAssumption, TypeOK
  <2> QED
    BY <1>8, <2>4, <2>5, <2>6 DEF AnswerLost, TypeOK
<1>9. ASSUME NEW s \in Slot, Lands(s) PROVE Typing'
  <2> DEFINE t == trades[s]
             u == IF t.phase = "lost" THEN NoTrade ELSE [t EXCEPT !.landed = TRUE]
             w == t.wallet
  <2>1. /\ t.phase \in {"executing", "lost"}
        /\ trades' = [trades EXCEPT ![s] = u]
        /\ destroys' = [d \in Destroyer |->
              [destroys[d] EXCEPT !.landed = @ \/ (destroys[d].wallet = w)]]
        /\ landedOn' = [landedOn EXCEPT ![<<w, Today>>] = @ + t.value]
        /\ adrift' = [adrift EXCEPT ![w] = IF t.phase = "lost" THEN @ + t.value ELSE @]
    BY <1>9 DEF Lands, PutTrade
  <2>2. t \in Trade /\ w \in Wallet /\ t.value \in Nat
    BY <2>1 DEF TypeOK, Busy, Trade
  <2>3. u \in Trade /\ (u.phase # "idle" => u.wallet = w /\ u.phase = "executing")
        /\ (u.landed => u.phase = "executing")
    BY <2>1, <2>2, Idle DEF Trade
  <2>4. trades' \in [Slot -> Trade]
    <3> HIDE DEF u
    <3> QED
      BY <2>1, <2>3 DEF TypeOK
  <2>5. \A d \in Destroyer :
            /\ destroys'[d] \in Destruction
            /\ destroys'[d].phase = destroys[d].phase
            /\ destroys'[d].wallet = destroys[d].wallet
    BY <2>1 DEF TypeOK, Destruction
  <2>6. destroys' \in [Destroyer -> Destruction]
    BY <2>1, <2>5
  <2>7. Busy'
    <3> HIDE DEF u
    <3> QED
      BY <2>1, <2>2, <2>3, <2>5 DEF Busy, TypeOK
  <2>8. Today \in Day
    BY Idle DEF Today, TypeOK
  <2>9. landedOn' \in [Wallet \X Day -> Nat] /\ adrift' \in [Wallet -> Nat]
    BY <2>1, <2>2, <2>8 DEF TypeOK
  <2>10. sol' \in [Wallet -> Nat] /\ lots' \in [Wallet -> Nat]
    <3>1. sol[w] \in Nat /\ lots[w] \in Nat
      BY <2>2 DEF TypeOK
    <3>2. CASE sol[w] >= t.value /\ sol' = [sol EXCEPT ![w] = @ - t.value]
               /\ lots' = [lots EXCEPT ![w] = @ + 1]
      BY <2>2, <3>1, <3>2 DEF TypeOK
    <3>3. CASE lots[w] > 0 /\ sol' = [sol EXCEPT ![w] = @ + t.value]
               /\ lots' = [lots EXCEPT ![w] = @ - 1]
      BY <2>2, <3>1, <3>3 DEF TypeOK
    <3> QED
      BY <1>9, <3>2, <3>3 DEF Lands
  <2> QED
    BY <1>9, <2>4, <2>6, <2>7, <2>9, <2>10 DEF Lands, TypeOK, counted
<1>10. ASSUME NEW size \in Sizes, Refused(size) PROVE Typing'
  <2>1. records' \in [Wallet -> Record]
    BY <1>10, RolledOverType, RecordsType DEF Refused
  <2> QED
    BY <1>10, <2>1 DEF Refused, TypeOK, Busy, chain, counted
<1>11. ASSUME NEW d \in Destroyer, DestroyAsked(d) PROVE Typing'
  <2> DEFINE r == [NoDestruction EXCEPT !.phase = "balance", !.wallet = current]
  <2>1. Exists /\ PutDestroy(d, r) /\ trades' = trades
    BY <1>11 DEF DestroyAsked
  <2>2. r \in Destruction /\ r.wallet \in Wallet
    BY <2>1, RolledOverType DEF NoDestruction, Destruction, Typing, TypeOK
  <2>3. destroys' \in [Destroyer -> Destruction] /\ Busy'
    <3> HIDE DEF r
    <3> QED
      BY <2>1, <2>2, PutDestroyType
  <2> QED
    BY <1>11, <2>3 DEF DestroyAsked, TypeOK, chain, counted
<1>12. ASSUME NEW d \in Destroyer, ReadBalances(d) PROVE Typing'
  <2> DEFINE r == destroys[d]
             a == [r EXCEPT !.phase = "tokens", !.sol = sol[r.wallet]]
             b == [r EXCEPT !.phase = "verdict", !.lots = lots[r.wallet]]
  <2>1. /\ trades' = trades /\ r.phase # "idle"
        /\ PutDestroy(d, a) \/ PutDestroy(d, b)
    BY <1>12 DEF ReadBalances
  <2>2. r \in Destruction /\ r.wallet \in Wallet
    BY <2>1 DEF TypeOK, Busy
  <2>3. sol[r.wallet] \in Nat /\ lots[r.wallet] \in Nat
    BY <2>2 DEF TypeOK
  <2>4. /\ a \in Destruction /\ a.wallet = r.wallet
        /\ b \in Destruction /\ b.wallet = r.wallet
    BY <2>2, <2>3 DEF Destruction
  <2>5. destroys' \in [Destroyer -> Destruction] /\ Busy'
    <3> HIDE DEF a, b
    <3> QED
      BY <2>1, <2>2, <2>4, PutDestroyType
  <2> QED
    BY <1>12, <2>5 DEF ReadBalances, TypeOK, chain, counted
<1>13. ASSUME NEW d \in Destroyer, ReadFails(d) PROVE Typing'
  <2>1. destroys' \in [Destroyer -> Destruction] /\ Busy'
    BY <1>13, Idle, PutDestroyType DEF ReadFails
  <2> QED
    BY <1>13, <2>1 DEF ReadFails, TypeOK, chain, counted
<1>14. ASSUME NEW d \in Destroyer, DestroyDecides(d) PROVE Typing'
  <2>1. destroys' \in [Destroyer -> Destruction] /\ Busy'
    BY <1>14, Idle, PutDestroyType DEF DestroyDecides
  <2>2. current' \in 0..MaxWallet
    BY <1>14, LiveAssumption DEF LiveAssumption, DestroyDecides, TypeOK
  <2>3. wiped' \subseteq Wallet
    BY <1>14, RolledOverType DEF DestroyDecides, TypeOK
  <2> QED
    BY <1>14, <2>1, <2>2, <2>3 DEF DestroyDecides, TypeOK, chain, counted
<1>15. CASE Deposit
  <2>1. sol' \in [Wallet -> Nat] /\ deposits' \in 0..MaxDeposit
    BY <1>15, RolledOverType, LiveAssumption DEF LiveAssumption, Deposit, TypeOK
  <2> QED
    BY <1>15, <2>1 DEF Deposit, TypeOK, Busy
<1>16. CASE Sweep
  BY <1>16 DEF Sweep, TypeOK, Busy, counted
<1>17. CASE Crash
  <2> DEFINE after(t) == IF t.phase \in {"executing", "lost"} /\ ~t.landed
                         THEN [t EXCEPT !.phase = "lost"] ELSE NoTrade
  <2>1. /\ trades' = [s \in Slot |-> after(trades[s])]
        /\ destroys' = [d \in Destroyer |-> NoDestruction]
        /\ adrift' = [w \in Wallet |-> adrift[w] + SumFunction(Unsettled(w))]
        /\ lost < MaxLost /\ lost' = lost + 1
    BY <1>17 DEF Crash
  <2>2. ASSUME NEW s \in Slot
        PROVE  /\ after(trades[s]) \in Trade
               /\ after(trades[s]).phase # "idle" => after(trades[s]).wallet \in Wallet
               /\ ~after(trades[s]).landed
    <3>1. trades[s] \in Trade /\ (trades[s].phase # "idle" => trades[s].wallet \in Wallet)
      BY DEF TypeOK, Busy
    <3> QED
      BY <3>1, Idle DEF Trade
  <2>3. trades' \in [Slot -> Trade] /\ Busy' /\ destroys' \in [Destroyer -> Destruction]
    <3> HIDE DEF after
    <3> QED
      BY <2>1, <2>2, Idle DEF Busy
  <2>4. adrift' \in [Wallet -> Nat]
    <3>1. \A w \in Wallet : adrift[w] \in Nat /\ SumFunction(Unsettled(w)) \in Nat
      BY UnsettledType DEF TypeOK
    <3>2. \A w \in Wallet : adrift[w] + SumFunction(Unsettled(w)) \in Nat
      BY <3>1
    <3> QED
      BY <2>1, <3>2
  <2>5. lost' \in 0..MaxLost
    BY <2>1, LiveAssumption DEF LiveAssumption, TypeOK
  <2> QED
    BY <1>17, <2>3, <2>4, <2>5 DEF Crash, TypeOK
<1>18. CASE Tick
  BY <1>18, LiveAssumption DEF LiveAssumption, Tick, TypeOK, Busy, chain, counted
<1>19. CASE UNCHANGED vars
  BY <1>19 DEF vars, chain, counted, TypeOK, Busy
<1> QED
  BY <1>1, <1>2, <1>3, <1>4, <1>5, <1>6, <1>7, <1>8, <1>9, <1>10, <1>11, <1>12,
     <1>13, <1>14, <1>15, <1>16, <1>17, <1>18, <1>19 DEF Next

\* All the variables keep their types.
THEOREM TypeCorrect == Spec => []TypeOK
<1>1. Typing => TypeOK
  BY DEF Typing
<1> QED
  BY <1>1, TypingInit, TypingStep, PTL DEF Spec

-----------------------------------------------------------------------------
(* What lands is charged.                                                     *)

\* What a handler adds to what has landed from w and is not charged.
Owing(t, w) == IF t.wallet = w /\ t.landed THEN t.value ELSE 0

\* A sum of zeros is zero.
LEMMA SumZero ==
    ASSUME NEW S, IsFiniteSet(S), NEW f, \A x \in S : f[x] = 0
    PROVE  SumFunctionOnSet(f, S) = 0
<1>1. SumFunctionOnSet(f, S) \in Nat /\ SumFunctionOnSet(f, S) <= Cardinality(S) * 0
  BY SumType, SumBound
<1>2. Cardinality(S) * 0 = 0
  BY FS_CardinalityType
<1> QED
  BY <1>1, <1>2

\* A handler that goes on changes what is not charged by what it owes.
LEMMA PutUnsettled ==
    ASSUME Typing, NEW s \in Slot, NEW t \in Trade, PutTrade(s, t), NEW w
    PROVE  /\ SumFunction(Unsettled(w)) \in Nat /\ SumFunction(Unsettled(w))' \in Nat
           /\ SumFunction(Unsettled(w))' + Owing(trades[s], w)
              = SumFunction(Unsettled(w)) + Owing(t, w)
<1> DEFINE f == Unsettled(w)
           h == [x \in Slot |-> Owing(trades'[x], w)]
<1>1. /\ DOMAIN f = Slot /\ \A x \in Slot : f[x] \in Nat /\ f[x] = Owing(trades[x], w)
      /\ SumFunction(f) = SumFunctionOnSet(f, Slot)
  BY UnsettledType DEF Unsettled, Owing
<1>2. Unsettled(w)' = h
  BY DEF Unsettled, Owing
<1>3. SumFunction(Unsettled(w))' = SumFunctionOnSet(h, Slot)
  <2>1. DOMAIN h = Slot
    OBVIOUS
  <2>2. SumFunction(Unsettled(w))' = SumFunctionOnSet(Unsettled(w)', DOMAIN Unsettled(w)')
    BY DEF SumFunction
  <2> HIDE DEF h
  <2> QED
    BY <1>2, <2>1, <2>2
<1>4. trades'[s] = t /\ \A x \in Slot \ {s} : trades'[x] = trades[x]
  BY DEF PutTrade, Typing, TypeOK
<1>5. /\ \A x \in Slot \ {s} : f[x] = h[x]
      /\ h[s] = Owing(t, w) /\ f[s] = Owing(trades[s], w)
  BY <1>1, <1>4
<1>6. h[s] \in Nat
  BY <1>5 DEF Owing, Trade
<1>7. \A x \in Slot : h[x] \in Nat
  BY <1>1, <1>5, <1>6
<1> HIDE DEF f, h
<1>8. /\ SumFunctionOnSet(f, Slot) \in Nat /\ SumFunctionOnSet(h, Slot) \in Nat
      /\ SumFunctionOnSet(h, Slot) + f[s] = SumFunctionOnSet(f, Slot) + h[s]
  BY <1>1, <1>5, <1>7, Finite, SumChange
<1> QED
  BY <1>1, <1>3, <1>5, <1>8 DEF f

\* What has landed from w on all days.
LandedFrom(w) == SumFunction([d \in Day |-> landedOn[<<w, d>>]])

\* It is the sum over the days, and a natural number.
LEMMA LandedFromType ==
    ASSUME Typing, NEW w \in Wallet
    PROVE  /\ LandedFrom(w) \in Nat
           /\ LandedFrom(w) = SumFunctionOnSet([d \in Day |-> landedOn[<<w, d>>]], Day)
<1> DEFINE f == [d \in Day |-> landedOn[<<w, d>>]]
<1>1. \A d \in Day : f[d] \in Nat
  BY DEF Typing, TypeOK
<1>2. DOMAIN f = Day
  OBVIOUS
<1>3. LandedFrom(w) = SumFunctionOnSet(f, DOMAIN f)
  BY DEF LandedFrom, SumFunction
<1> HIDE DEF f
<1>4. SumFunctionOnSet(f, Day) \in Nat
  BY <1>1, Finite, SumType
<1> QED
  BY <1>2, <1>3, <1>4 DEF f

\* A swap that lands adds its value to the wallet it is of, on one day.
LEMMA LandedFromStep ==
    ASSUME Typing, NEW w \in Wallet, NEW v \in Wallet, NEW n \in Nat,
           landedOn' = [landedOn EXCEPT ![<<w, Today>>] = @ + n]
    PROVE  LandedFrom(v)' = LandedFrom(v) + (IF v = w THEN n ELSE 0)
<1> DEFINE f == [d \in Day |-> landedOn[<<v, d>>]]
           h == [d \in Day |-> landedOn'[<<v, d>>]]
<1>1. Today \in Day
  BY Idle DEF Today, Typing, TypeOK
<1>2. landedOn \in [Wallet \X Day -> Nat]
  BY DEF Typing, TypeOK
<1>3. \A d \in Day : f[d] \in Nat
  BY <1>2
<1>4. h[Today] = f[Today] + (IF v = w THEN n ELSE 0)
  BY <1>1, <1>2
<1>5. \A d \in Day \ {Today} : f[d] = h[d]
  BY <1>1, <1>2
<1>6. LandedFrom(v)' = SumFunctionOnSet(h, Day)
  <2>1. DOMAIN h = Day
    OBVIOUS
  <2>2. LandedFrom(v)' = SumFunctionOnSet(h, DOMAIN h)
    BY DEF LandedFrom, SumFunction
  <2> HIDE DEF h
  <2> QED
    BY <2>1, <2>2
<1>7. LandedFrom(v) = SumFunctionOnSet(f, Day)
  BY LandedFromType
<1> HIDE DEF f, h
<1>8. h[Today] \in Nat
  BY <1>1, <1>3, <1>4
<1>9. \A d \in Day : h[d] \in Nat
  BY <1>3, <1>5, <1>8
<1>10. /\ SumFunctionOnSet(f, Day) \in Nat /\ SumFunctionOnSet(h, Day) \in Nat
       /\ SumFunctionOnSet(h, Day) + f[Today] = SumFunctionOnSet(f, Day) + h[Today]
  <2> DEFINE today == Today
             days == Day
  <2>1. /\ today \in days /\ IsFiniteSet(days)
        /\ \A d \in days : f[d] \in Nat /\ h[d] \in Nat
        /\ \A d \in days \ {today} : f[d] = h[d]
    BY <1>1, <1>3, <1>5, <1>9, Finite
  <2> HIDE DEF today, days
  <2>2. /\ SumFunctionOnSet(f, days) \in Nat /\ SumFunctionOnSet(h, days) \in Nat
        /\ SumFunctionOnSet(h, days) + f[today] = SumFunctionOnSet(f, days) + h[today]
    BY <2>1, SumChange
  <2> QED
    BY <2>2 DEF today, days
<1>11. f[Today] \in Nat
  BY <1>1, <1>3
<1> QED
  BY <1>4, <1>6, <1>7, <1>10, <1>11

\* Nothing has landed when the signer starts.
LEMMA ChargedInit == Init => LandedIsCharged
<1> SUFFICES ASSUME Init, NEW w \in Wallet
             PROVE  LandedFrom(w) = charged[w] + adrift[w] + SumFunction(Unsettled(w))
  BY DEF LandedIsCharged, LandedFrom
<1>1. Typing
  BY TypingInit
<1>2. \A d \in Day : [x \in Day |-> landedOn[<<w, x>>]][d] = 0
  BY DEF Init
<1>3. \A s \in Slot : Unsettled(w)[s] = 0
  BY DEF Init, Unsettled, NoTrade
<1>4. LandedFrom(w) = 0
  <2> DEFINE f == [x \in Day |-> landedOn[<<w, x>>]]
  <2>1. LandedFrom(w) = SumFunctionOnSet(f, Day)
    BY <1>1, LandedFromType
  <2> HIDE DEF f
  <2> QED
    BY <1>2, <2>1, Finite, SumZero DEF f
<1>5. SumFunction(Unsettled(w)) = 0
  BY <1>1, <1>3, UnsettledType, Finite, SumZero
<1>6. charged[w] = 0 /\ adrift[w] = 0
  BY DEF Init
<1> QED
  BY <1>4, <1>5, <1>6

\* A swap that lands is owed, a swap that settles is charged, a swap whose
\* answer is lost is adrift.
LEMMA ChargedStep == Typing /\ LandedIsCharged /\ [Next]_vars => LandedIsCharged'
<1> SUFFICES ASSUME Typing, LandedIsCharged, [Next]_vars, NEW w \in Wallet
             PROVE  LandedFrom(w)' = charged'[w] + adrift'[w] + SumFunction(Unsettled(w))'
  BY DEF LandedIsCharged, LandedFrom
<1>1. LandedFrom(w) = charged[w] + adrift[w] + SumFunction(Unsettled(w))
  BY DEF LandedIsCharged, LandedFrom
<1>2. /\ charged[w] \in Nat /\ adrift[w] \in Nat /\ SumFunction(Unsettled(w)) \in Nat
      /\ LandedFrom(w) \in Nat
  BY UnsettledType, LandedFromType DEF Typing, TypeOK
<1>3. landedOn' = landedOn => LandedFrom(w)' = LandedFrom(w)
  BY DEF LandedFrom
<1>4. trades' = trades => SumFunction(Unsettled(w))' = SumFunction(Unsettled(w))
  BY DEF Unsettled
<1>5. CASE UNCHANGED <<landedOn, charged, adrift, trades>>
  BY <1>1, <1>3, <1>4, <1>5
<1>6. ASSUME NEW s \in Slot, NEW t \in Trade, PutTrade(s, t),
             ~trades[s].landed, ~t.landed,
             UNCHANGED <<landedOn, charged, adrift>>
      PROVE  LandedFrom(w)' = charged'[w] + adrift'[w] + SumFunction(Unsettled(w))'
  <2>1. Owing(trades[s], w) = 0 /\ Owing(t, w) = 0
    BY <1>6 DEF Owing
  <2>2. SumFunction(Unsettled(w))' = SumFunction(Unsettled(w))
    BY <1>6, <2>1, PutUnsettled
  <2> QED
    BY <1>1, <1>3, <1>6, <2>2
<1>7. \A s \in Slot : trades[s] \in Trade /\ (trades[s].landed => trades[s].phase = "executing")
                      /\ (trades[s].phase # "idle" => trades[s].wallet \in Wallet)
  BY DEF Typing, TypeOK, Busy
<1>8. Typing'
  BY TypingStep
<1>9. \A s \in Slot : trades'[s] \in Trade
  BY <1>8 DEF Typing, TypeOK
<1>10. ASSUME NEW s \in Slot, NEW kind \in Kind, NEW size \in Sizes, Submit(s, kind, size)
       PROVE  LandedFrom(w)' = charged'[w] + adrift'[w] + SumFunction(Unsettled(w))'
  <2> DEFINE r == records[current]
             t == [phase |-> "ordering", wallet |-> current, kind |-> kind,
                   token |-> r.session,
                   size |-> IF kind = "buy" THEN size ELSE 0,
                   notional |-> r.policy.maxNotional,
                   remaining |-> AtLeast(0, r.policy.maxDaily - SpentToday(r)),
                   ts |-> now, value |-> 0, landed |-> FALSE]
  <2>1. PutTrade(s, t) /\ ~t.landed
        /\ trades[s].phase = "idle" /\ UNCHANGED <<landedOn, charged, adrift>>
    BY <1>10 DEF Submit, chain
  <2> HIDE DEF t
  <2>2. trades'[s] = t
    BY <2>1 DEF PutTrade, Typing, TypeOK
  <2> QED
    BY <1>6, <1>7, <1>9, <2>1, <2>2
<1>11. ASSUME NEW s \in Slot, NEW quote \in Sizes, OrderArrives(s, quote)
       PROVE  LandedFrom(w)' = charged'[w] + adrift'[w] + SumFunction(Unsettled(w))'
  <2> DEFINE t == [trades[s] EXCEPT !.phase = "executing", !.value = quote]
  <2>1. PutTrade(s, t) /\ trades[s].phase = "ordering"
        /\ UNCHANGED <<landedOn, charged, adrift>>
    BY <1>11 DEF OrderArrives, chain
  <2>2. ~trades[s].landed /\ t.landed = trades[s].landed
    BY <1>7, <2>1 DEF Trade
  <2> HIDE DEF t
  <2>3. trades'[s] = t
    BY <2>1 DEF PutTrade, Typing, TypeOK
  <2> QED
    BY <1>6, <1>9, <2>1, <2>2, <2>3
<1>12. ASSUME NEW s \in Slot, OrderFails(s) \/ ExecuteFails(s) \/ Expires(s)
       PROVE  LandedFrom(w)' = charged'[w] + adrift'[w] + SumFunction(Unsettled(w))'
  BY <1>6, <1>7, <1>12, Idle DEF OrderFails, ExecuteFails, Expires, chain
<1>13. ASSUME NEW s \in Slot, Settle(s)
       PROVE  LandedFrom(w)' = charged'[w] + adrift'[w] + SumFunction(Unsettled(w))'
  <2> DEFINE t == trades[s]
             r == records[t.wallet]
             settled == [r EXCEPT !.spent = @ + t.value, !.lastTrade = t.ts]
  <2>1. /\ t.phase = "executing" /\ t.landed /\ PutTrade(s, NoTrade)
        /\ UNCHANGED <<landedOn, adrift>>
        /\ charged' = [charged EXCEPT ![t.wallet] = @ + settled.spent - r.spent]
    BY <1>13 DEF Settle, chain
  <2>2. t.wallet \in Wallet /\ r \in Record /\ t.value \in Nat
    BY <1>7, <2>1 DEF Typing, TypeOK, Trade
  <2>3. settled.spent = r.spent + t.value /\ r.spent \in Nat
    BY <2>2 DEF Record
  <2>4. charged'[w] = charged[w] + Owing(t, w)
    <3>1. charged[t.wallet] \in Nat
      BY <2>2 DEF Typing, TypeOK
    <3>2. charged[t.wallet] + settled.spent - r.spent = charged[t.wallet] + t.value
      <4> HIDE DEF settled, r
      <4> QED
        BY <2>2, <2>3, <3>1
    <3> HIDE DEF settled, r
    <3> QED
      BY <1>2, <2>1, <3>2 DEF Owing, Typing, TypeOK
  <2>5. Owing(NoTrade, w) = 0
    BY Idle DEF Owing
  <2>6. SumFunction(Unsettled(w))' + Owing(t, w) = SumFunction(Unsettled(w))
        /\ SumFunction(Unsettled(w))' \in Nat
    BY <1>2, <2>1, <2>5, Idle, PutUnsettled
  <2>7. Owing(t, w) \in Nat
    BY <2>2 DEF Owing
  <2> HIDE DEF t
  <2> QED
    BY <1>1, <1>2, <1>3, <2>1, <2>4, <2>6, <2>7
<1>14. ASSUME NEW s \in Slot, AnswerLost(s)
       PROVE  LandedFrom(w)' = charged'[w] + adrift'[w] + SumFunction(Unsettled(w))'
  <2> DEFINE t == trades[s]
             u == IF t.landed THEN NoTrade ELSE [t EXCEPT !.phase = "lost"]
  <2>1. /\ t.phase = "executing" /\ PutTrade(s, u) /\ UNCHANGED <<landedOn, charged>>
        /\ adrift' = [adrift EXCEPT ![t.wallet] = IF t.landed THEN @ + t.value ELSE @]
    BY <1>14 DEF AnswerLost
  <2>2. t \in Trade /\ t.wallet \in Wallet /\ t.value \in Nat
    BY <1>7, <2>1 DEF Trade
  <2>3. adrift'[w] = adrift[w] + Owing(t, w)
    BY <1>2, <2>1, <2>2 DEF Owing, Typing, TypeOK
  <2>4. ~u.landed
    BY <2>2, Idle DEF Trade
  <2>5. Owing(u, w) = 0 /\ Owing(t, w) \in Nat
    BY <2>2, <2>4 DEF Owing
  <2>6. trades'[s] = u
    <3> HIDE DEF u
    <3> QED
      BY <2>1 DEF PutTrade, Typing, TypeOK
  <2>7. SumFunction(Unsettled(w))' + Owing(t, w) = SumFunction(Unsettled(w))
        /\ SumFunction(Unsettled(w))' \in Nat
    <3> HIDE DEF u
    <3> QED
      BY <1>2, <1>9, <2>1, <2>5, <2>6, PutUnsettled
  <2> HIDE DEF t
  <2> QED
    BY <1>1, <1>2, <1>3, <2>1, <2>3, <2>5, <2>7
<1>15. ASSUME NEW s \in Slot, Lands(s)
       PROVE  LandedFrom(w)' = charged'[w] + adrift'[w] + SumFunction(Unsettled(w))'
  <2> DEFINE t == trades[s]
             u == IF t.phase = "lost" THEN NoTrade ELSE [t EXCEPT !.landed = TRUE]
             n == IF w = t.wallet THEN t.value ELSE 0
  <2>1. /\ t.phase \in {"executing", "lost"} /\ ~t.landed /\ PutTrade(s, u)
        /\ landedOn' = [landedOn EXCEPT ![<<t.wallet, Today>>] = @ + t.value]
        /\ adrift' = [adrift EXCEPT ![t.wallet] = IF t.phase = "lost" THEN @ + t.value ELSE @]
        /\ charged' = charged
    BY <1>15 DEF Lands
  <2>2. t \in Trade /\ t.wallet \in Wallet /\ t.value \in Nat
    BY <1>7, <2>1 DEF Trade
  <2>3. LandedFrom(w)' = LandedFrom(w) + n
    BY <2>1, <2>2, LandedFromStep
  <2>4. Owing(t, w) = 0
    BY <2>1 DEF Owing
  <2>5. trades'[s] = u
    <3> HIDE DEF u
    <3> QED
      BY <2>1 DEF PutTrade, Typing, TypeOK
  <2>6. SumFunction(Unsettled(w))' = SumFunction(Unsettled(w)) + Owing(u, w)
    <3> HIDE DEF u
    <3> QED
      BY <1>2, <1>9, <2>1, <2>4, <2>5, PutUnsettled
  <2>7. CASE t.phase = "lost"
    <3>1. adrift'[w] = adrift[w] + n
      BY <1>2, <2>1, <2>2, <2>7 DEF Typing, TypeOK
    <3>2. Owing(u, w) = 0
      BY <2>7, Idle DEF Owing
    <3>3. n \in Nat
      BY <2>2
    <3> HIDE DEF n
    <3> QED
      BY <1>1, <1>2, <2>1, <2>3, <2>6, <3>1, <3>2, <3>3
  <2>8. CASE t.phase # "lost"
    <3>1. adrift'[w] = adrift[w]
      BY <1>2, <2>1, <2>2, <2>8 DEF Typing, TypeOK
    <3>2. u = [t EXCEPT !.landed = TRUE]
      BY <2>8
    <3>3. u.wallet = t.wallet /\ u.value = t.value /\ u.landed
      BY <2>2, <3>2 DEF Trade
    <3>4. Owing(u, w) = n /\ n \in Nat
      BY <2>2, <3>3 DEF Owing
    <3> HIDE DEF n
    <3> QED
      BY <1>1, <1>2, <2>1, <2>3, <2>6, <3>1, <3>4
  <2> QED
    BY <2>7, <2>8
<1>16. CASE Crash
  <2> DEFINE after(t) == IF t.phase \in {"executing", "lost"} /\ ~t.landed
                         THEN [t EXCEPT !.phase = "lost"] ELSE NoTrade
             h == [s \in Slot |-> Owing(trades'[s], w)]
  <2>1. /\ trades' = [s \in Slot |-> after(trades[s])]
        /\ adrift' = [x \in Wallet |-> adrift[x] + SumFunction(Unsettled(x))]
        /\ UNCHANGED <<landedOn, charged>>
    BY <1>16 DEF Crash
  <2>2. \A s \in Slot : ~after(trades[s]).landed
    BY <1>7, Idle DEF Trade
  <2>3. \A s \in Slot : ~trades'[s].landed
    <3> HIDE DEF after
    <3> QED
      BY <2>1, <2>2
  <2>4. \A s \in Slot : h[s] = 0
    BY <2>3 DEF Owing
  <2>5. Unsettled(w)' = h /\ DOMAIN h = Slot
    BY DEF Unsettled, Owing
  <2>6. SumFunction(Unsettled(w))' = SumFunctionOnSet(Unsettled(w)', DOMAIN Unsettled(w)')
    BY DEF SumFunction
  <2>7. SumFunction(Unsettled(w))' = 0
    <3> HIDE DEF h
    <3> QED
      BY <2>4, <2>5, <2>6, Finite, SumZero
  <2>8. adrift'[w] = adrift[w] + SumFunction(Unsettled(w))
    BY <2>1
  <2> QED
    BY <1>1, <1>2, <1>3, <2>1, <2>7, <2>8
<1>17. ASSUME NEW p \in Policies, Provision(p) \/ SetPolicy(p)
       PROVE  UNCHANGED <<landedOn, charged, adrift, trades>>
  BY <1>17 DEF Provision, SetPolicy, chain
<1>18. ASSUME NEW size \in Sizes, Refused(size)
       PROVE  UNCHANGED <<landedOn, charged, adrift, trades>>
  BY <1>18 DEF Refused, chain
<1>19. ASSUME NEW d \in Destroyer,
              DestroyAsked(d) \/ ReadBalances(d) \/ ReadFails(d) \/ DestroyDecides(d)
       PROVE  UNCHANGED <<landedOn, charged, adrift, trades>>
  BY <1>19 DEF DestroyAsked, ReadBalances, ReadFails, DestroyDecides, chain
<1>20. CASE OpenSession \/ Deposit \/ Sweep \/ Tick \/ UNCHANGED vars
  BY <1>5, <1>20 DEF OpenSession, Deposit, Sweep, Tick, vars, chain
<1> QED
  BY <1>5, <1>10, <1>11, <1>12, <1>13, <1>14, <1>15, <1>16, <1>17, <1>18, <1>19, <1>20
     DEF Next

\* Whatever the broker loses and however swaps overlap, all that has landed from a
\* wallet was charged to its budget, waits to be, or is adrift with a lost answer.
THEOREM LandedCharged == Spec => []LandedIsCharged
<1>1. Init => Typing /\ LandedIsCharged
  BY TypingInit, ChargedInit
<1>2. Typing /\ LandedIsCharged /\ [Next]_vars => Typing' /\ LandedIsCharged'
  BY TypingStep, ChargedStep
<1> QED
  BY <1>1, <1>2, PTL DEF Spec

-----------------------------------------------------------------------------
(* What a budget is charged. A handler has at stake the most it may yet       *)
(* charge: the value of its swap, or before the order arrives the smaller of  *)
(* the caps it read. Spending and stakes together stay within the bound.      *)

Stake(t) ==
    IF t.phase = "executing" THEN t.value
    ELSE IF t.phase # "ordering" THEN 0
    ELSE IF t.notional <= t.remaining THEN t.notional ELSE t.remaining

StakeAt(t, w) == IF t.wallet = w THEN Stake(t) ELSE 0

Stakes(w) == [s \in Slot |-> StakeAt(trades[s], w)]

Bound == LargestDay + (Cardinality(Slot) - 1) * LargestTrade

BudgetInv ==
    /\ \A s \in Slot : Stake(trades[s]) <= LargestTrade
    /\ \A w \in Wallet : records[w].spent + SumFunctionOnSet(Stakes(w), Slot) <= Bound

\* What a handler has at stake is a natural number.
LEMMA StakeType ==
    ASSUME NEW t \in Trade, NEW w
    PROVE  Stake(t) \in Nat /\ StakeAt(t, w) \in Nat
  BY DEF Stake, StakeAt, Trade

LEMMA StakesType ==
    ASSUME Typing, NEW w
    PROVE  /\ \A s \in Slot : Stakes(w)[s] \in Nat
           /\ SumFunctionOnSet(Stakes(w), Slot) \in Nat
<1>1. \A s \in Slot : Stakes(w)[s] \in Nat
  BY StakeType DEF Stakes, Typing, TypeOK
<1> QED
  BY <1>1, Finite, SumType

\* The bound is not below what the other handlers may have at stake.
LEMMA BoundType ==
    /\ Bound \in Int
    /\ Slot # {} => /\ (Cardinality(Slot) - 1) * LargestTrade \in Nat
                    /\ LargestDay <= Bound
    /\ 0 <= Bound
<1>1. Cardinality(Slot) \in Nat /\ IsFiniteSet(Slot)
  BY Finite
<1>2. LargestTrade \in Nat /\ LargestDay \in Nat /\ LargestTrade <= LargestDay
  BY PolicyBounds
<1>3. CASE Slot = {}
  <2>1. Cardinality(Slot) = 0
    BY <1>3, FS_EmptySet
  <2>2. (0 - 1) * LargestTrade = - LargestTrade
    BY <1>2
  <2> QED
    BY <1>2, <1>3, <2>1, <2>2 DEF Bound
<1>4. CASE Slot # {}
  <2>1. Cardinality(Slot) # 0
    BY <1>1, <1>4, FS_EmptySet
  <2>2. Cardinality(Slot) - 1 \in Nat
    BY <1>1, <2>1
  <2>3. \A n, m \in Nat : n * m \in Nat
    OBVIOUS
  <2>4. (Cardinality(Slot) - 1) * LargestTrade \in Nat
    BY <1>2, <2>2, <2>3
  <2> QED
    BY <1>2, <1>4, <2>4 DEF Bound
<1> QED
  BY <1>3, <1>4

\* The others' stakes, when a handler has none of its own.
LEMMA OthersStakes ==
    ASSUME Typing, BudgetInv, NEW w, NEW s \in Slot, Stakes(w)[s] = 0
    PROVE  SumFunctionOnSet(Stakes(w), Slot) <= (Cardinality(Slot) - 1) * LargestTrade
<1> DEFINE f == Stakes(w)
           R == Slot \ {s}
<1>1. IsFiniteSet(R) /\ Cardinality(R) = Cardinality(Slot) - 1
  BY Finite, FS_RemoveElement
<1>2. \A x \in Slot : f[x] \in Nat
  BY StakesType
<1>3. \A x \in R : f[x] <= LargestTrade
  <2>1. \A x \in Slot : trades[x] \in Trade /\ Stake(trades[x]) <= LargestTrade
    BY DEF BudgetInv, Typing, TypeOK
  <2>2. LargestTrade \in Nat
    BY PolicyBounds
  <2> QED
    BY <2>1, <2>2 DEF Stakes, StakeAt
<1>4. SumFunctionOnSet(f, Slot) = f[s] + SumFunctionOnSet(f, R)
  BY <1>2, Finite, SumTake
<1>5. SumFunctionOnSet(f, R) <= Cardinality(R) * LargestTrade /\ SumFunctionOnSet(f, R) \in Nat
  <2>1. \A x \in R : f[x] \in Nat
    BY <1>2
  <2> HIDE DEF f, R
  <2> QED
    BY <1>1, <1>3, <2>1, PolicyBounds, SumBound, SumType
<1> QED
  BY <1>1, <1>4, <1>5

\* A handler that goes on changes the stakes by its own.
LEMMA PutStake ==
    ASSUME Typing, NEW s \in Slot, NEW t \in Trade, PutTrade(s, t), NEW w
    PROVE  /\ SumFunctionOnSet(Stakes(w), Slot) \in Nat
           /\ SumFunctionOnSet(Stakes(w)', Slot) \in Nat
           /\ SumFunctionOnSet(Stakes(w)', Slot) + StakeAt(trades[s], w)
              = SumFunctionOnSet(Stakes(w), Slot) + StakeAt(t, w)
<1> DEFINE f == Stakes(w)
           h == Stakes(w)'
<1>1. trades'[s] = t /\ \A x \in Slot \ {s} : trades'[x] = trades[x]
  BY DEF PutTrade, Typing, TypeOK
<1>2. /\ f[s] = StakeAt(trades[s], w) /\ h[s] = StakeAt(t, w)
      /\ \A x \in Slot \ {s} : f[x] = h[x]
  BY <1>1 DEF Stakes
<1>3. \A x \in Slot : f[x] \in Nat
  BY StakesType
<1>4. \A x \in Slot : h[x] \in Nat
  BY <1>2, <1>3, StakeType
<1> HIDE DEF f, h
<1>5. /\ SumFunctionOnSet(f, Slot) \in Nat /\ SumFunctionOnSet(h, Slot) \in Nat
      /\ SumFunctionOnSet(h, Slot) + f[s] = SumFunctionOnSet(f, Slot) + h[s]
  BY <1>2, <1>3, <1>4, Finite, SumChange
<1> QED
  BY <1>2, <1>5 DEF f, h

\* Nothing is at stake when the signer starts.
LEMMA BudgetInit == Init => BudgetInv
<1> SUFFICES ASSUME Init PROVE BudgetInv
  OBVIOUS
<1>1. \A s \in Slot : Stake(trades[s]) = 0
  BY DEF Init, Stake, NoTrade
<1>2. ASSUME NEW w \in Wallet
      PROVE  records[w].spent + SumFunctionOnSet(Stakes(w), Slot) <= Bound
  <2>1. \A s \in Slot : Stakes(w)[s] = 0
    BY <1>1 DEF Stakes, StakeAt
  <2>2. SumFunctionOnSet(Stakes(w), Slot) = 0
    BY <2>1, Finite, SumZero
  <2>3. records[w].spent = 0
    BY DEF Init
  <2> QED
    BY <2>2, <2>3, BoundType
<1> QED
  BY <1>1, <1>2, PolicyBounds DEF BudgetInv

\* A handler that risks no more than it did, while no budget is charged.
LEMMA LessAtStake ==
    ASSUME Typing, BudgetInv, NEW s \in Slot, NEW t \in Trade, PutTrade(s, t),
           Stake(t) = 0 \/ (t.wallet = trades[s].wallet /\ Stake(t) <= Stake(trades[s])),
           records' = records
    PROVE  BudgetInv'
<1>1. trades[s] \in Trade /\ trades'[s] = t /\ \A x \in Slot \ {s} : trades'[x] = trades[x]
  BY DEF PutTrade, Typing, TypeOK
<1>2. \A x \in Slot : Stake(trades'[x]) <= LargestTrade
  <2>1. Stake(trades[s]) <= LargestTrade /\ Stake(trades[s]) \in Nat /\ Stake(t) \in Nat
        /\ LargestTrade \in Nat
    BY <1>1, StakeType, PolicyBounds DEF BudgetInv
  <2>2. Stake(t) <= LargestTrade
    BY <2>1
  <2> QED
    BY <1>1, <2>2 DEF BudgetInv
<1>3. ASSUME NEW w \in Wallet
      PROVE  records'[w].spent + SumFunctionOnSet(Stakes(w)', Slot) <= Bound
  <2>1. StakeAt(t, w) <= StakeAt(trades[s], w)
    BY <1>1, StakeType DEF StakeAt
  <2>2. /\ SumFunctionOnSet(Stakes(w), Slot) \in Nat
        /\ SumFunctionOnSet(Stakes(w)', Slot) \in Nat
        /\ SumFunctionOnSet(Stakes(w)', Slot) + StakeAt(trades[s], w)
           = SumFunctionOnSet(Stakes(w), Slot) + StakeAt(t, w)
    BY PutStake
  <2>3. StakeAt(t, w) \in Nat /\ StakeAt(trades[s], w) \in Nat
    BY <1>1, StakeType
  <2>4. SumFunctionOnSet(Stakes(w)', Slot) <= SumFunctionOnSet(Stakes(w), Slot)
    BY <2>1, <2>2, <2>3
  <2>5. records[w].spent \in Nat
    BY DEF Typing, TypeOK, Record
  <2>6. records[w].spent + SumFunctionOnSet(Stakes(w), Slot) <= Bound
    BY DEF BudgetInv
  <2> QED
    BY <2>2, <2>4, <2>5, <2>6, BoundType
<1> QED
  BY <1>2, <1>3 DEF BudgetInv, Bound

\* A budget that is not charged, and nothing new at stake.
LEMMA LessSpent ==
    ASSUME Typing, Typing', BudgetInv, trades' = trades,
           \A w \in Wallet : records'[w].spent <= records[w].spent
    PROVE  BudgetInv'
<1>1. \A s \in Slot : Stake(trades'[s]) <= LargestTrade
  BY DEF BudgetInv
<1>2. ASSUME NEW w \in Wallet
      PROVE  records'[w].spent + SumFunctionOnSet(Stakes(w)', Slot) <= Bound
  <2>1. Stakes(w)' = Stakes(w)
    BY DEF Stakes
  <2>2. records[w].spent \in Nat /\ records'[w].spent \in Nat
    BY DEF Typing, TypeOK, Record
  <2>3. SumFunctionOnSet(Stakes(w), Slot) \in Nat
    BY StakesType
  <2>4. records[w].spent + SumFunctionOnSet(Stakes(w), Slot) <= Bound
    BY DEF BudgetInv
  <2> QED
    BY <2>1, <2>2, <2>3, <2>4, BoundType
<1> QED
  BY <1>1, <1>2 DEF BudgetInv, Bound

\* Spending of another day is not counted.
LEMMA RolledOverSpent ==
    ASSUME Typing, Exists
    PROVE  /\ SpentToday(records[current]) \in Nat
           /\ SpentToday(records[current]) <= records[current].spent
           /\ \A w \in Wallet :
                 [records EXCEPT ![current] = RolledOver(records[current])][w].spent
                 <= records[w].spent
<1>1. \A w \in Wallet : records[w].spent \in Nat
  BY DEF Typing, TypeOK, Record
<1>2. current \in Wallet /\ records[current] \in Record
      /\ SpentToday(records[current]) \in Nat
      /\ RolledOver(records[current]).spent = SpentToday(records[current])
  BY RolledOverType
<1>3. SpentToday(records[current]) <= records[current].spent
  BY <1>1, <1>2 DEF SpentToday
<1> QED
  BY <1>1, <1>2, <1>3 DEF Typing, TypeOK

\* A swap that is asked for has at stake what is left of the day, if anything is.
LEMMA BudgetSubmit ==
    ASSUME Typing, Typing', BudgetInv, NEW s \in Slot, NEW kind \in Kind,
           NEW size \in Sizes, Submit(s, kind, size)
    PROVE  BudgetInv'
<1> DEFINE r == records[current]
           t == [phase |-> "ordering", wallet |-> current, kind |-> kind,
                 token |-> r.session,
                 size |-> IF kind = "buy" THEN size ELSE 0,
                 notional |-> r.policy.maxNotional,
                 remaining |-> AtLeast(0, r.policy.maxDaily - SpentToday(r)),
                 ts |-> now, value |-> 0, landed |-> FALSE]
           m == Stake(t)
<1>1. /\ Exists /\ PutTrade(s, t) /\ trades[s].phase = "idle"
      /\ records' = [records EXCEPT ![current] = RolledOver(r)]
  BY DEF Submit
<1>2. /\ current \in Wallet /\ r \in Record /\ SpentToday(r) \in Nat
      /\ RolledOver(r).spent = SpentToday(r)
  BY <1>1, RolledOverType
<1>3. /\ r.policy.maxNotional \in Nat /\ r.policy.maxDaily \in Nat
      /\ r.policy.maxNotional <= LargestTrade /\ r.policy.maxDaily <= LargestDay
      /\ LargestTrade \in Nat /\ LargestDay \in Nat
  BY <1>2, PolicyBounds DEF Record, PolicyType
<1>4. m \in Nat /\ m <= LargestTrade /\ (m = 0 \/ SpentToday(r) + m <= LargestDay)
  <2> DEFINE n == r.policy.maxNotional
             q == AtLeast(0, r.policy.maxDaily - SpentToday(r))
  <2>1. m = IF n <= q THEN n ELSE q
    BY DEF Stake
  <2>2. q = IF r.policy.maxDaily - SpentToday(r) < 0 THEN 0
            ELSE r.policy.maxDaily - SpentToday(r)
    BY DEF AtLeast
  <2> HIDE DEF m, q, r
  <2> QED
    BY <1>2, <1>3, <2>1, <2>2
<1>5. t.phase = "ordering" /\ t.wallet = current
  OBVIOUS
<1>6. trades'[s] = t /\ \A x \in Slot \ {s} : trades'[x] = trades[x]
  <2> HIDE DEF t
  <2> QED
    BY <1>1 DEF PutTrade, Typing, TypeOK
<1>7. t \in Trade /\ trades[s] \in Trade
  <2> HIDE DEF t
  <2> QED
    BY <1>6 DEF Typing, TypeOK
<1> HIDE DEF t
<1>8. \A x \in Slot : Stake(trades'[x]) <= LargestTrade
  BY <1>4, <1>6 DEF BudgetInv
<1>9. ASSUME NEW w \in Wallet
      PROVE  records'[w].spent + SumFunctionOnSet(Stakes(w)', Slot) <= Bound
  <2> DEFINE old == SumFunctionOnSet(Stakes(w), Slot)
             new == SumFunctionOnSet(Stakes(w)', Slot)
  <2> SUFFICES records'[w].spent + new <= Bound
    OBVIOUS
  <2>1. StakeAt(trades[s], w) = 0 /\ Stakes(w)[s] = 0
    BY <1>1 DEF Stakes, StakeAt, Stake
  <2>2. StakeAt(t, w) = IF current = w THEN m ELSE 0
    BY <1>5 DEF StakeAt
  <2>3. old \in Nat /\ new \in Nat /\ new = old + StakeAt(t, w)
    <3>1. StakeAt(t, w) \in Nat
      BY <1>7, StakeType
    <3>2. old \in Nat /\ new \in Nat /\ new + 0 = old + StakeAt(t, w)
      BY <1>1, <1>7, <2>1, PutStake
    <3> QED
      BY <3>1, <3>2
  <2>4. /\ records'[w].spent \in Nat /\ records[w].spent \in Nat
        /\ records'[w].spent <= records[w].spent
    BY <1>1, RolledOverSpent DEF Typing, TypeOK, Record
  <2>5. records[w].spent + old <= Bound
    BY DEF BudgetInv
  <2>6. CASE StakeAt(t, w) = 0
    <3> HIDE DEF old, new
    <3> QED
      BY <2>3, <2>4, <2>5, <2>6, BoundType
  <2>7. CASE StakeAt(t, w) # 0
    <3>1. w = current /\ StakeAt(t, w) = m /\ m # 0
      BY <2>2, <2>7
    <3>2. records'[w].spent = SpentToday(r)
      BY <1>1, <1>2, <3>1 DEF Typing, TypeOK
    <3>3. old <= (Cardinality(Slot) - 1) * LargestTrade
      BY <2>1, OthersStakes
    <3>4. (Cardinality(Slot) - 1) * LargestTrade \in Nat
      BY BoundType
    <3> DEFINE others == (Cardinality(Slot) - 1) * LargestTrade
    <3>5. Bound = LargestDay + others
      BY DEF Bound
    <3>6. others \in Nat /\ old <= others
      BY <3>3, <3>4
    <3> HIDE DEF old, new, others, m, r
    <3> QED
      BY <1>2, <1>3, <1>4, <2>3, <3>1, <3>2, <3>5, <3>6
  <2> QED
    BY <2>6, <2>7
<1> QED
  BY <1>8, <1>9 DEF BudgetInv, Bound

\* A swap that settles is charged what it had at stake.
LEMMA BudgetSettle ==
    ASSUME Typing, Typing', BudgetInv, NEW s \in Slot, Settle(s)
    PROVE  BudgetInv'
<1> DEFINE t == trades[s]
           r == records[t.wallet]
           settled == [r EXCEPT !.spent = @ + t.value, !.lastTrade = t.ts]
<1>1. /\ t.phase = "executing" /\ PutTrade(s, NoTrade)
      /\ records' = [records EXCEPT ![t.wallet] = settled]
  BY DEF Settle
<1>2. t \in Trade /\ t.wallet \in Wallet /\ r \in Record /\ t.value \in Nat
  BY <1>1 DEF Typing, TypeOK, Busy, Trade
<1>3. settled.spent = r.spent + t.value
  BY <1>2 DEF Record
<1>4. trades'[s] = NoTrade /\ \A x \in Slot \ {s} : trades'[x] = trades[x]
  BY <1>1 DEF PutTrade, Typing, TypeOK
<1>5. Stake(NoTrade) = 0 /\ Stake(t) = t.value
  BY <1>1 DEF Stake, NoTrade
<1>6. \A x \in Slot : Stake(trades'[x]) <= LargestTrade
  BY <1>4, <1>5, PolicyBounds DEF BudgetInv
<1>7. ASSUME NEW w \in Wallet
      PROVE  records'[w].spent + SumFunctionOnSet(Stakes(w)', Slot) <= Bound
  <2> DEFINE old == SumFunctionOnSet(Stakes(w), Slot)
             new == SumFunctionOnSet(Stakes(w)', Slot)
  <2>1. records'[w].spent = records[w].spent + StakeAt(t, w)
    <3>1. records[w].spent \in Nat
      BY DEF Typing, TypeOK, Record
    <3> HIDE DEF settled
    <3>2. CASE w = t.wallet
      BY <1>1, <1>2, <1>3, <1>5, <3>2 DEF StakeAt, Typing, TypeOK
    <3>3. CASE w # t.wallet
      BY <1>1, <3>1, <3>3 DEF StakeAt, Typing, TypeOK
    <3> QED
      BY <3>2, <3>3
  <2>2. StakeAt(NoTrade, w) = 0 /\ StakeAt(t, w) \in Nat
    BY <1>2, <1>5, StakeType DEF StakeAt
  <2>3. old \in Nat /\ new \in Nat /\ new + StakeAt(t, w) = old
    BY <1>1, <2>2, Idle, PutStake
  <2>4. records[w].spent \in Nat /\ records[w].spent + old <= Bound
    BY DEF Typing, TypeOK, Record, BudgetInv
  <2> HIDE DEF old, new, t
  <2> QED
    BY <2>1, <2>2, <2>3, <2>4 DEF new
<1> QED
  BY <1>6, <1>7 DEF BudgetInv, Bound

\* Spending and stakes stay within the bound.
LEMMA BudgetStep == Typing /\ BudgetInv /\ [Next]_vars => BudgetInv'
<1> SUFFICES ASSUME Typing, BudgetInv, [Next]_vars PROVE BudgetInv'
  OBVIOUS
<1>1. Typing'
  BY TypingStep
<1>2. \A s \in Slot : trades[s] \in Trade /\ trades'[s] \in Trade
  BY <1>1 DEF Typing, TypeOK
<1>3. \A w \in Wallet : records[w].spent \in Nat
  BY DEF Typing, TypeOK, Record
<1>4. ASSUME NEW p \in Policies, Provision(p) PROVE BudgetInv'
  <2>1. \A w \in Wallet : records'[w].spent <= records[w].spent
    BY <1>3, <1>4 DEF Provision, Typing, TypeOK
  <2> QED
    BY <1>1, <1>4, <2>1, LessSpent DEF Provision
<1>5. ASSUME NEW p \in Policies, SetPolicy(p) PROVE BudgetInv'
  <2>1. \A w \in Wallet : records'[w].spent = records[w].spent
    BY <1>5, RolledOverType DEF SetPolicy, Typing, TypeOK, Record
  <2> QED
    BY <1>1, <1>3, <1>5, <2>1, LessSpent DEF SetPolicy
<1>6. CASE OpenSession
  <2>1. \A w \in Wallet : records'[w].spent = records[w].spent
    BY <1>6, RolledOverType DEF OpenSession, Typing, TypeOK, Record
  <2> QED
    BY <1>1, <1>3, <1>6, <2>1, LessSpent DEF OpenSession
<1>7. ASSUME NEW size \in Sizes, Refused(size) PROVE BudgetInv'
  BY <1>1, <1>7, RolledOverSpent, LessSpent DEF Refused
<1>8. ASSUME NEW s \in Slot, NEW kind \in Kind, NEW size \in Sizes, Submit(s, kind, size)
      PROVE  BudgetInv'
  BY <1>1, <1>8, BudgetSubmit
<1>9. ASSUME NEW s \in Slot, NEW quote \in Sizes, OrderArrives(s, quote) PROVE BudgetInv'
  <2> DEFINE t == [trades[s] EXCEPT !.phase = "executing", !.value = quote]
  <2>1. PutTrade(s, t) /\ trades[s].phase = "ordering" /\ records' = records
        /\ quote <= trades[s].notional /\ quote <= trades[s].remaining
    BY <1>9 DEF OrderArrives
  <2>2. t.wallet = trades[s].wallet /\ Stake(t) = quote
    BY <1>2 DEF Stake, Trade
  <2>3. Stake(t) <= Stake(trades[s])
    BY <2>1, <2>2 DEF Stake
  <2> HIDE DEF t
  <2>4. t \in Trade
    BY <1>2, <2>1 DEF PutTrade, Typing, TypeOK
  <2> QED
    BY <2>1, <2>2, <2>3, <2>4, LessAtStake
<1>10. ASSUME NEW s \in Slot, OrderFails(s) \/ ExecuteFails(s) \/ Expires(s) PROVE BudgetInv'
  <2>1. PutTrade(s, NoTrade) /\ records' = records /\ Stake(NoTrade) = 0
    BY <1>10 DEF OrderFails, ExecuteFails, Expires, Stake, NoTrade
  <2> QED
    BY <2>1, Idle, LessAtStake
<1>11. ASSUME NEW s \in Slot, Settle(s) PROVE BudgetInv'
  BY <1>1, <1>11, BudgetSettle
<1>12. ASSUME NEW s \in Slot, AnswerLost(s) PROVE BudgetInv'
  <2> DEFINE t == IF trades[s].landed THEN NoTrade ELSE [trades[s] EXCEPT !.phase = "lost"]
  <2>1. PutTrade(s, t) /\ records' = records
    BY <1>12 DEF AnswerLost
  <2>2. Stake(t) = 0
    BY <1>2 DEF Stake, NoTrade, Trade
  <2> HIDE DEF t
  <2>3. t \in Trade
    BY <1>2, <2>1 DEF PutTrade, Typing, TypeOK
  <2> QED
    BY <2>1, <2>2, <2>3, LessAtStake
<1>13. ASSUME NEW s \in Slot, Lands(s) PROVE BudgetInv'
  <2> DEFINE t == IF trades[s].phase = "lost" THEN NoTrade
                  ELSE [trades[s] EXCEPT !.landed = TRUE]
  <2>1. PutTrade(s, t) /\ records' = records
    BY <1>13 DEF Lands
  <2>2. Stake(t) = 0 \/ (t.wallet = trades[s].wallet /\ Stake(t) = Stake(trades[s]))
    BY <1>2 DEF Stake, NoTrade, Trade
  <2>3. Stake(trades[s]) \in Nat
    BY <1>2, StakeType
  <2> HIDE DEF t
  <2>4. t \in Trade
    BY <1>2, <2>1 DEF PutTrade, Typing, TypeOK
  <2>5. Stake(t) = 0 \/ (t.wallet = trades[s].wallet /\ Stake(t) <= Stake(trades[s]))
    BY <2>2, <2>3
  <2> QED
    BY <2>1, <2>4, <2>5, LessAtStake
<1>14. CASE Crash
  <2> DEFINE after(t) == IF t.phase \in {"executing", "lost"} /\ ~t.landed
                         THEN [t EXCEPT !.phase = "lost"] ELSE NoTrade
  <2>1. trades' = [s \in Slot |-> after(trades[s])] /\ records' = records
    BY <1>14 DEF Crash
  <2>2. \A s \in Slot : Stake(after(trades[s])) = 0
    BY <1>2 DEF Stake, NoTrade, Trade
  <2>3. \A s \in Slot : Stake(trades'[s]) = 0
    <3> HIDE DEF after
    <3> QED
      BY <2>1, <2>2
  <2>4. ASSUME NEW w \in Wallet
        PROVE  records'[w].spent + SumFunctionOnSet(Stakes(w)', Slot) <= Bound
    <3> DEFINE h == Stakes(w)'
    <3>1. \A s \in Slot : h[s] = 0
      BY <2>3 DEF Stakes, StakeAt
    <3>2. SumFunctionOnSet(h, Slot) = 0
      <4> HIDE DEF h
      <4> QED
        BY <3>1, Finite, SumZero
    <3>3. records[w].spent + SumFunctionOnSet(Stakes(w), Slot) <= Bound
          /\ SumFunctionOnSet(Stakes(w), Slot) \in Nat
      BY StakesType DEF BudgetInv
    <3> HIDE DEF h
    <3>4. records'[w].spent + SumFunctionOnSet(h, Slot) <= Bound
      BY <1>3, <2>1, <3>2, <3>3, BoundType
    <3> QED
      BY <3>4 DEF h
  <2> QED
    BY <2>3, <2>4, PolicyBounds DEF BudgetInv, Bound
<1>15. CASE UNCHANGED <<records, trades>>
  BY <1>1, <1>3, <1>15, LessSpent
<1>16. ASSUME NEW d \in Destroyer,
              DestroyAsked(d) \/ ReadBalances(d) \/ ReadFails(d) \/ DestroyDecides(d)
       PROVE  UNCHANGED <<records, trades>>
  BY <1>16 DEF DestroyAsked, ReadBalances, ReadFails, DestroyDecides
<1>17. CASE Deposit \/ Sweep \/ Tick \/ UNCHANGED vars
  BY <1>15, <1>17 DEF Deposit, Sweep, Tick, vars
<1> QED
  BY <1>4, <1>5, <1>6, <1>7, <1>8, <1>9, <1>10, <1>11, <1>12, <1>13, <1>14, <1>15,
     <1>16, <1>17 DEF Next

\* However many swaps overlap, a budget is charged at most the day cap and one
\* trade for each other handler.
THEOREM OverspendIsBounded == Spec => []OverspendBounded
<1>1. Init => Typing /\ BudgetInv
  BY TypingInit, BudgetInit
<1>2. Typing /\ BudgetInv /\ [Next]_vars => Typing' /\ BudgetInv'
  BY TypingStep, BudgetStep
<1>3. Typing /\ BudgetInv => OverspendBounded
  <2> SUFFICES ASSUME Typing, BudgetInv, NEW w \in Wallet
               PROVE  records[w].spent <= Bound
    BY DEF OverspendBounded, Bound
  <2>1. records[w].spent + SumFunctionOnSet(Stakes(w), Slot) <= Bound
    BY DEF BudgetInv
  <2>2. records[w].spent \in Nat /\ SumFunctionOnSet(Stakes(w), Slot) \in Nat
    BY StakesType DEF Typing, TypeOK, Record
  <2> QED
    BY <2>1, <2>2, BoundType
<1> QED
  BY <1>1, <1>2, <1>3, PTL DEF Spec

-----------------------------------------------------------------------------
(* A wallet is wiped only if it is empty. Nobody pays into a wallet that is   *)
(* being destroyed, so what a destroy handler read to be nothing is nothing   *)
(* still, unless a swap landed.                                               *)

StillEmpty(r) ==
    ~r.landed =>
        /\ r.phase \in {"tokens", "verdict"} /\ r.sol = 0 => sol[r.wallet] = 0
        /\ r.phase = "verdict" /\ r.lots = 0 => lots[r.wallet] = 0

ReadsHold == \A d \in Destroyer : StillEmpty(destroys[d])

\* No balance is read when the signer starts.
LEMMA ReadsInit == Init => ReadsHold
  BY DEF Init, ReadsHold, StillEmpty, NoDestruction

\* What was read to be nothing stays nothing.
LEMMA ReadsStep == Typing /\ ReadsHold /\ [Next]_vars => ReadsHold'
<1> SUFFICES ASSUME Typing, ReadsHold, [Next]_vars PROVE ReadsHold'
  OBVIOUS
<1> USE DEF Typing
<1>1. \A d \in Destroyer : /\ destroys[d] \in Destruction /\ StillEmpty(destroys[d])
                           /\ destroys[d].phase # "idle" => destroys[d].wallet \in Wallet
  BY DEF ReadsHold, TypeOK, Busy
<1>2. CASE UNCHANGED <<destroys, sol, lots>>
  BY <1>2 DEF ReadsHold, StillEmpty
<1>3. ASSUME NEW d \in Destroyer, NEW r, PutDestroy(d, r), StillEmpty(r),
             UNCHANGED <<sol, lots>>
      PROVE  ReadsHold'
  BY <1>3 DEF ReadsHold, StillEmpty, PutDestroy, TypeOK
<1>4. StillEmpty(NoDestruction)
  BY DEF StillEmpty, NoDestruction
<1>5. ASSUME NEW d \in Destroyer, DestroyAsked(d) PROVE ReadsHold'
  <2> DEFINE r == [NoDestruction EXCEPT !.phase = "balance", !.wallet = current]
  <2>1. r.phase = "balance"
    BY DEF NoDestruction
  <2>2. StillEmpty(r)
    BY <2>1 DEF StillEmpty
  <2> HIDE DEF r
  <2> QED
    BY <1>3, <1>5, <2>2 DEF DestroyAsked, chain, r
<1>6. ASSUME NEW d \in Destroyer, ReadBalances(d) PROVE ReadsHold'
  <2> DEFINE r == destroys[d]
             a == [r EXCEPT !.phase = "tokens", !.sol = sol[r.wallet]]
             b == [r EXCEPT !.phase = "verdict", !.lots = lots[r.wallet]]
  <2>1. \/ r.phase = "balance" /\ PutDestroy(d, a)
        \/ r.phase = "tokens" /\ PutDestroy(d, b)
    BY <1>6 DEF ReadBalances
  <2>2. r \in Destruction /\ StillEmpty(r)
    BY <1>1
  <2>3. /\ a.wallet = r.wallet /\ a.sol = sol[r.wallet] /\ a.phase = "tokens"
        /\ b.wallet = r.wallet /\ b.sol = r.sol /\ b.lots = lots[r.wallet]
        /\ b.landed = r.landed
    BY <2>2 DEF Destruction
  <2>4. StillEmpty(a) /\ (r.phase = "tokens" => StillEmpty(b))
    BY <2>2, <2>3 DEF StillEmpty
  <2> HIDE DEF a, b
  <2> QED
    BY <1>3, <1>6, <2>1, <2>4 DEF ReadBalances, chain
<1>7. ASSUME NEW d \in Destroyer, ReadFails(d) \/ DestroyDecides(d) PROVE ReadsHold'
  BY <1>3, <1>4, <1>7 DEF ReadFails, DestroyDecides, chain
<1>8. ASSUME NEW s \in Slot, Lands(s) PROVE ReadsHold'
  <2> DEFINE w == trades[s].wallet
  <2>1. /\ destroys' = [d \in Destroyer |->
              [destroys[d] EXCEPT !.landed = @ \/ (destroys[d].wallet = w)]]
        /\ \A v \in Wallet : v # w => sol'[v] = sol[v] /\ lots'[v] = lots[v]
    BY <1>8 DEF Lands, TypeOK
  <2>2. ASSUME NEW d \in Destroyer PROVE StillEmpty(destroys[d])'
    <3>1. /\ destroys'[d].phase = destroys[d].phase /\ destroys'[d].sol = destroys[d].sol
          /\ destroys'[d].lots = destroys[d].lots
          /\ destroys'[d].wallet = destroys[d].wallet
          /\ destroys'[d].landed = (destroys[d].landed \/ (destroys[d].wallet = w))
      BY <1>1, <2>1 DEF Destruction
    <3> HIDE DEF w
    <3> QED
      BY <1>1, <2>1, <3>1 DEF StillEmpty
  <2> QED
    BY <2>2 DEF ReadsHold
<1>9. CASE Deposit
  <2>1. destroys' = destroys /\ lots' = lots
        /\ \A d \in Destroyer : destroys[d].wallet # current
        /\ sol' = [sol EXCEPT ![current] = @ + 1]
    BY <1>9 DEF Deposit
  <2>2. \A d \in Destroyer : destroys[d].phase # "idle" =>
            sol'[destroys[d].wallet] = sol[destroys[d].wallet]
    BY <1>1, <2>1 DEF TypeOK
  <2> QED
    BY <1>1, <2>1, <2>2 DEF ReadsHold, StillEmpty
<1>10. CASE Sweep
  <2>1. destroys' = destroys /\ lots' = lots /\ sol' = [sol EXCEPT ![current] = 0]
    BY <1>10 DEF Sweep
  <2>2. \A d \in Destroyer : destroys[d].phase # "idle" =>
            sol'[destroys[d].wallet] = sol[destroys[d].wallet]
            \/ sol'[destroys[d].wallet] = 0
    BY <1>1, <2>1 DEF TypeOK
  <2> QED
    BY <1>1, <2>1, <2>2 DEF ReadsHold, StillEmpty
<1>11. CASE Crash
  <2>1. destroys' = [d \in Destroyer |-> NoDestruction]
    BY <1>11 DEF Crash
  <2> QED
    BY <2>1 DEF ReadsHold, StillEmpty, NoDestruction
<1>12. ASSUME NEW p \in Policies, Provision(p) \/ SetPolicy(p)
       PROVE  UNCHANGED <<destroys, sol, lots>>
  BY <1>12 DEF Provision, SetPolicy, chain
<1>13. ASSUME NEW s \in Slot,
              \/ \E kind \in Kind, size \in Sizes : Submit(s, kind, size)
              \/ \E quote \in Sizes : OrderArrives(s, quote)
              \/ OrderFails(s) \/ Settle(s) \/ ExecuteFails(s) \/ AnswerLost(s) \/ Expires(s)
       PROVE  UNCHANGED <<destroys, sol, lots>>
  BY <1>13 DEF Submit, OrderArrives, OrderFails, Settle, ExecuteFails, AnswerLost,
               Expires, chain
<1>14. ASSUME NEW size \in Sizes, Refused(size) PROVE UNCHANGED <<destroys, sol, lots>>
  BY <1>14 DEF Refused, chain
<1>15. CASE OpenSession \/ Tick \/ UNCHANGED vars
  BY <1>2, <1>15 DEF OpenSession, Tick, vars, chain
<1> QED
  BY <1>2, <1>5, <1>6, <1>7, <1>8, <1>9, <1>10, <1>11, <1>12, <1>13, <1>14, <1>15
     DEF Next

\* The key that is wiped is that of a wallet with nothing in it, unless a swap
\* landed while its balances were read or the id has another wallet now.
THEOREM WipedIsEmpty == Spec => WipedEmpty
<1> DEFINE Wipes ==
      \A w \in wiped' \ wiped :
        \/ sol[w] = 0 /\ lots[w] = 0
        \/ \E d \in Destroyer :
            /\ destroys[d].phase = "verdict" /\ destroys'[d].phase = "idle"
            /\ destroys[d].landed \/ destroys[d].wallet # w
<1>1. Init => Typing /\ ReadsHold
  BY TypingInit, ReadsInit
<1>2. Typing /\ ReadsHold /\ [Next]_vars => Typing' /\ ReadsHold'
  BY TypingStep, ReadsStep
<1>3. Typing /\ ReadsHold /\ [Next]_vars => [Wipes]_vars
  <2> SUFFICES ASSUME Typing, ReadsHold, [Next]_vars, NEW w \in wiped' \ wiped
               PROVE  \/ sol[w] = 0 /\ lots[w] = 0
                      \/ \E d \in Destroyer :
                          /\ destroys[d].phase = "verdict" /\ destroys'[d].phase = "idle"
                          /\ destroys[d].landed \/ destroys[d].wallet # w
    OBVIOUS
  <2>1. PICK d \in Destroyer : DestroyDecides(d)
    BY DEF Next, Provision, SetPolicy, OpenSession, Submit, OrderArrives, OrderFails,
           Settle, ExecuteFails, AnswerLost, Lands, Expires, Refused, DestroyAsked,
           ReadBalances, ReadFails, Deposit, Sweep, Crash, Tick, vars
  <2>2. /\ destroys[d].phase = "verdict" /\ destroys[d].sol = 0 /\ destroys[d].lots = 0
        /\ w = current
    BY <2>1 DEF DestroyDecides
  <2>3. destroys'[d].phase = "idle"
    BY <2>1, Idle DEF DestroyDecides, PutDestroy, Typing, TypeOK
  <2>4. StillEmpty(destroys[d])
    BY DEF ReadsHold
  <2> QED
    BY <2>2, <2>3, <2>4 DEF StillEmpty
<1> QED
  BY <1>1, <1>2, <1>3, PTL DEF Spec, WipedEmpty
=============================================================================
