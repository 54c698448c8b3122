----------------------- MODULE StoreOperators_proofs -----------------------
(***************************************************************************)
(* Lemmas about the operators the console's database is modelled with:     *)
(* sums over finite sets, backup files and their retention, calendar       *)
(* buckets, tables and their deletion and refilling, the rebuilding of a   *)
(* range, prepared windows and the chart of a day.  Each is stated for all *)
(* arguments and for every value of the constants; ConsoleStore_proofs     *)
(* rests on them.                                                          *)
(*                                                                         *)
(* Sums, maxima and folds are defined recursively.  What holds of them for *)
(* every finite set or sequence is proved by induction over a set of good  *)
(* instances (SubsetInduction, InsertionInduction, StepInduction), or by   *)
(* showing that a function with the recursive equation exists (SumExists,  *)
(* FoldExists) and that any such function has the property.                *)
(***************************************************************************)
EXTENDS TrafficPyramid, SqliteBackups, FiniteSetTheorems, TLAPS

(***************************************************************************)
(* Induction over the subsets of a finite set, and over the naturals, for  *)
(* a set of instances in the place of a predicate.                         *)
(***************************************************************************)
LEMMA SubsetInduction ==
  ASSUME NEW S, IsFiniteSet(S), NEW good,
         \A T \in SUBSET S : (\A U \in SUBSET T : U # T => U \in good) => T \in good
  PROVE  SUBSET S \subseteq good
<1> DEFINE bad == {T \in SUBSET S : T \notin good}
<1>1. SUFFICES ASSUME bad # {} PROVE FALSE
  OBVIOUS
<1>2. IsWellFoundedOn(StrictSubsetOrdering(S), SUBSET S)
  BY FS_StrictSubsetOrderingWellFounded, FS_FiniteSubsetsOfFinite
<1>3. PICK T \in bad : \A U \in bad : ~(<<U, T>> \in StrictSubsetOrdering(S))
  <2> HIDE DEF bad
  <2>1. bad \subseteq SUBSET S BY DEF bad
  <2> QED BY <1>1, <1>2, <2>1, WFMin
<1>4. \A U \in SUBSET T : U # T => U \in good
  BY <1>3 DEF StrictSubsetOrdering
<1> QED BY <1>3, <1>4

LEMMA InsertionInduction ==
  ASSUME NEW S, IsFiniteSet(S), NEW good, {} \in good,
         \A T \in SUBSET S : \A x \in S \ T : T \in good => T \cup {x} \in good
  PROVE  S \in good
<1>1. ASSUME NEW T \in SUBSET S, \A U \in SUBSET T : U # T => U \in good
      PROVE  T \in good
  <2>1. CASE T = {} BY <2>1
  <2>2. CASE T # {}
    <3>1. PICK x \in T : TRUE BY <2>2
    <3>2. T \ {x} \in good BY <1>1, <3>1
    <3>3. (T \ {x}) \cup {x} \in good BY <3>1, <3>2
    <3>4. (T \ {x}) \cup {x} = T BY <3>1
    <3> QED BY <3>3, <3>4
  <2> QED BY <2>1, <2>2
<1>2. SUBSET S \subseteq good
  <2> HIDE DEF IsFiniteSet
  <2> QED BY <1>1, SubsetInduction
<1> QED BY <1>2

LEMMA StepInduction ==
  ASSUME NEW good, 0 \in good, \A n \in Nat : n \in good => n + 1 \in good
  PROVE  Nat \subseteq good
<1> DEFINE bad == {n \in Nat : n \notin good}
<1>1. SUFFICES ASSUME bad # {} PROVE FALSE
  OBVIOUS
<1>2. PICK n \in bad : \A m \in bad : ~(<<m, n>> \in OpToRel(<, Nat))
  <2> HIDE DEF bad
  <2>1. bad \subseteq Nat BY DEF bad
  <2> QED BY <1>1, <2>1, WFMin, NatLessThanWellFounded
<1>3. n \in Nat /\ n # 0 /\ n \notin good
  OBVIOUS
<1>4. <<n - 1, n>> \in OpToRel(<, Nat)
  BY <1>3 DEF OpToRel
<1>5. n - 1 \in Nat
  BY <1>3
<1>6. n - 1 \in good
  BY <1>2, <1>4, <1>5, Zenon
<1>7. (n - 1) + 1 = n
  BY <1>3
<1> QED BY <1>3, <1>5, <1>6, <1>7

-----------------------------------------------------------------------------
(***************************************************************************)
(* Sums.  F gives the sum of f over every subset of S.                     *)
(***************************************************************************)
IsSum(F, f, S) ==
  /\ F \in [SUBSET S -> Int] /\ F[{}] = 0
  /\ \A s \in SUBSET S : \A x \in s : F[s] = f[x] + F[s \ {x}]

LEMMA SumExists ==
  ASSUME NEW S, IsFiniteSet(S), NEW f, \A x \in S : f[x] \in Int
  PROVE  \E F : IsSum(F, f, S)
<1> DEFINE good == {T \in SUBSET S : \E F : IsSum(F, f, T)}
<1>1. {} \in good
  <2>1. IsSum([s \in SUBSET {} |-> 0], f, {}) BY DEF IsSum
  <2> QED BY <2>1
<1>2. ASSUME NEW T \in SUBSET S, NEW x \in S \ T, T \in good
      PROVE  T \cup {x} \in good
  <2>1. PICK F : IsSum(F, f, T) BY <1>2
  <2> DEFINE G == [s \in SUBSET (T \cup {x}) |->
                     IF x \in s THEN f[x] + F[s \ {x}] ELSE F[s]]
  <2>2. G \in [SUBSET (T \cup {x}) -> Int] BY <2>1 DEF IsSum
  <2>3. G[{}] = 0 BY <2>1 DEF IsSum
  <2>4. ASSUME NEW s \in SUBSET (T \cup {x}), NEW y \in s
        PROVE  G[s] = f[y] + G[s \ {y}]
    <3>1. CASE y = x
      BY <3>1, <2>1 DEF IsSum
    <3>2. CASE y # x /\ x \notin s
      BY <3>2, <2>1 DEF IsSum
    <3>3. CASE y # x /\ x \in s
      <4>1. G[s] = f[x] + F[s \ {x}] BY <3>3
      <4>2. G[s \ {y}] = f[x] + F[(s \ {y}) \ {x}] BY <3>3
      <4>3. F[s \ {x}] = f[y] + F[(s \ {x}) \ {y}] BY <2>1, <3>3 DEF IsSum
      <4>4. (s \ {x}) \ {y} = (s \ {y}) \ {x} OBVIOUS
      <4>5. F[(s \ {x}) \ {y}] \in Int BY <2>1, <3>3 DEF IsSum
      <4>6. f[x] \in Int /\ f[y] \in Int OBVIOUS
      <4>7. f[x] + (f[y] + F[(s \ {x}) \ {y}]) = f[y] + (f[x] + F[(s \ {x}) \ {y}])
        BY <4>5, <4>6
      <4> HIDE DEF G
      <4> QED BY <4>1, <4>2, <4>3, <4>4, <4>7
    <3> QED BY <3>1, <3>2, <3>3
  <2>5. IsSum(G, f, T \cup {x}) BY <2>2, <2>3, <2>4 DEF IsSum
  <2> QED BY <2>5
<1> HIDE DEF good
<1>3. S \in good BY <1>1, <1>2, InsertionInduction
<1> QED BY <1>3 DEF good

\* h adds up f over every subset of S, as the library's folds do: some element
\* first, then the rest.
Iterates(h, f, S) ==
  h = [s \in SUBSET S |-> IF s = {} THEN 0
         ELSE f[CHOOSE x \in s : TRUE] + h[s \ {CHOOSE x \in s : TRUE}]]

LEMMA IterationIsSum ==
  ASSUME NEW S, IsFiniteSet(S), NEW f, NEW F, IsSum(F, f, S), NEW h, Iterates(h, f, S)
  PROVE  h[S] = F[S]
<1> DEFINE good == {T \in SUBSET S : h[T] = F[T]}
<1>1. ASSUME NEW T \in SUBSET S, \A U \in SUBSET T : U # T => U \in good
      PROVE  T \in good
  <2>1. CASE T = {} BY <2>1 DEF IsSum, Iterates
  <2>2. CASE T # {}
    <3> DEFINE y == CHOOSE x \in T : TRUE
    <3>1. y \in T BY <2>2
    <3>2. h[T] = f[y] + h[T \ {y}] BY <2>2 DEF Iterates
    <3>3. F[T] = f[y] + F[T \ {y}] BY <3>1 DEF IsSum
    <3>4. T \ {y} \in good BY <1>1, <3>1
    <3> HIDE DEF y
    <3> QED BY <3>2, <3>3, <3>4
  <2> QED BY <2>1, <2>2
<1> HIDE DEF good
<1>2. SUBSET S \subseteq good BY <1>1, SubsetInduction
<1> QED BY <1>2 DEF good

LEMMA SumIterates ==
  ASSUME NEW S, NEW f, NEW F, IsSum(F, f, S)
  PROVE  Iterates(F, f, S)
<1>1. ASSUME NEW s \in SUBSET S
      PROVE  F[s] = IF s = {} THEN 0
                ELSE f[CHOOSE x \in s : TRUE] + F[s \ {CHOOSE x \in s : TRUE}]
  <2>1. CASE s = {} BY <2>1 DEF IsSum
  <2>2. CASE s # {}
    <3>1. (CHOOSE x \in s : TRUE) \in s BY <2>2
    <3> QED BY <2>2, <3>1 DEF IsSum
  <2> QED BY <2>1, <2>2
<1>2. F = [s \in SUBSET S |-> F[s]] BY DEF IsSum
<1> QED BY <1>1, <1>2 DEF Iterates

LEMMA SumOfAll ==
  ASSUME NEW S, IsFiniteSet(S), NEW f, NEW F, IsSum(F, f, S)
  PROVE  SumFunctionOnSet(f, S) = F[S]
<1>1. Iterates(CHOOSE h : Iterates(h, f, S), f, S)
  BY SumIterates, Zenon
<1>2. (CHOOSE h : Iterates(h, f, S))[S] = F[S]
  BY <1>1, IterationIsSum
<1>3. SumFunctionOnSet(f, S) = (CHOOSE h : Iterates(h, f, S))[S]
  BY Zenon DEF SumFunctionOnSet, FoldFunctionOnSet, MapThenFoldSet, Iterates
<1> QED BY <1>2, <1>3

LEMMA SumOfSubsets ==
  ASSUME NEW S, IsFiniteSet(S), NEW f, NEW F, IsSum(F, f, S)
  PROVE  \A s \in SUBSET S : SumFunctionOnSet(f, s) = F[s]
<1> SUFFICES ASSUME NEW s \in SUBSET S PROVE SumFunctionOnSet(f, s) = F[s]
  OBVIOUS
<1> DEFINE G == [t \in SUBSET s |-> F[t]]
<1>1. IsSum(G, f, s) BY DEF IsSum
<1>2. IsFiniteSet(s) BY FS_Subset
<1>3. G[s] = F[s] OBVIOUS
<1> HIDE DEF G
<1> QED BY <1>1, <1>2, <1>3, SumOfAll

LEMMA SumsExist ==
  ASSUME NEW S, IsFiniteSet(S), NEW f, \A x \in S : f[x] \in Int
  PROVE  \E F : IsSum(F, f, S) /\ \A s \in SUBSET S : SumFunctionOnSet(f, s) = F[s]
<1>1. PICK F : IsSum(F, f, S) BY SumExists
<1> QED BY <1>1, SumOfSubsets

(***************************************************************************)
(* What a sum is: a number, nothing for no rows, and a row more than the   *)
(* sum of the others.                                                      *)
(***************************************************************************)
LEMMA SumEmpty ==
  ASSUME NEW f
  PROVE  SumFunctionOnSet(f, {}) = 0
<1>1. IsFiniteSet({}) /\ \A x \in {} : f[x] \in Int BY FS_EmptySet
<1>2. PICK F : IsSum(F, f, {}) /\ \A s \in SUBSET {} : SumFunctionOnSet(f, s) = F[s]
  BY <1>1, SumsExist
<1> QED BY <1>2 DEF IsSum

LEMMA SumTakeOut ==
  ASSUME NEW S, IsFiniteSet(S), NEW f, \A x \in S : f[x] \in Int
  PROVE  /\ SumFunctionOnSet(f, S) \in Int
         /\ \A x \in S : SumFunctionOnSet(f, S) = f[x] + SumFunctionOnSet(f, S \ {x})
<1>1. PICK F : IsSum(F, f, S) /\ \A s \in SUBSET S : SumFunctionOnSet(f, s) = F[s]
  BY SumsExist
<1>2. S \in SUBSET S /\ \A x \in S : S \ {x} \in SUBSET S OBVIOUS
<1> QED BY <1>1, <1>2 DEF IsSum

LEMMA SumAdd ==
  ASSUME NEW S, IsFiniteSet(S), NEW f, NEW x, x \notin S, f[x] \in Int,
         \A y \in S : f[y] \in Int
  PROVE  SumFunctionOnSet(f, S \cup {x}) = f[x] + SumFunctionOnSet(f, S)
<1>1. IsFiniteSet(S \cup {x}) BY FS_AddElement
<1>2. (S \cup {x}) \ {x} = S OBVIOUS
<1>3. \A y \in S \cup {x} : f[y] \in Int OBVIOUS
<1>4. x \in S \cup {x} OBVIOUS
<1> QED BY <1>1, <1>2, <1>3, <1>4, SumTakeOut

LEMMA SumSame ==
  ASSUME NEW S, IsFiniteSet(S), NEW f, NEW g, \A x \in S : f[x] \in Int /\ g[x] = f[x]
  PROVE  SumFunctionOnSet(g, S) = SumFunctionOnSet(f, S)
<1>1. PICK F : IsSum(F, f, S) /\ \A s \in SUBSET S : SumFunctionOnSet(f, s) = F[s]
  BY SumsExist
<1>2. IsSum(F, g, S) BY <1>1 DEF IsSum
<1>3. S \in SUBSET S OBVIOUS
<1> QED BY <1>1, <1>2, <1>3, SumOfAll

LEMMA SumNotNegative ==
  ASSUME NEW S, IsFiniteSet(S), NEW f, \A x \in S : f[x] \in Nat
  PROVE  SumFunctionOnSet(f, S) \in Nat
<1> DEFINE good == {T \in SUBSET S : SumFunctionOnSet(f, T) \in Nat}
<1>1. {} \in good BY SumEmpty
<1>2. ASSUME NEW T \in SUBSET S, NEW x \in S \ T, T \in good PROVE T \cup {x} \in good
  <2>1. IsFiniteSet(T) BY FS_Subset
  <2>0. f[x] \in Int /\ \A y \in T : f[y] \in Int OBVIOUS
  <2>2. SumFunctionOnSet(f, T \cup {x}) = f[x] + SumFunctionOnSet(f, T)
    BY <2>0, <2>1, SumAdd
  <2>3. f[x] \in Nat /\ SumFunctionOnSet(f, T) \in Nat BY <1>2
  <2>4. f[x] + SumFunctionOnSet(f, T) \in Nat BY <2>3
  <2> QED BY <2>2, <2>4
<1> HIDE DEF good
<1>3. S \in good BY <1>1, <1>2, InsertionInduction
<1> QED BY <1>3 DEF good

\* A sum of rows each of which holds something holds something.
LEMMA SumPositive ==
  ASSUME NEW S, IsFiniteSet(S), S # {}, NEW f, \A x \in S : f[x] \in Nat \ {0}
  PROVE  SumFunctionOnSet(f, S) \in Nat \ {0}
<1>1. PICK x \in S : TRUE OBVIOUS
<1>2. SumFunctionOnSet(f, S) = f[x] + SumFunctionOnSet(f, S \ {x}) BY SumTakeOut
<1>3. IsFiniteSet(S \ {x}) BY FS_RemoveElement
<1>4. SumFunctionOnSet(f, S \ {x}) \in Nat BY <1>3, SumNotNegative
<1> QED BY <1>2, <1>4

LEMMA SumUnion ==
  ASSUME NEW S, IsFiniteSet(S), NEW U, IsFiniteSet(U), S \cap U = {}, NEW f,
         \A x \in S \cup U : f[x] \in Int
  PROVE  SumFunctionOnSet(f, S \cup U) = SumFunctionOnSet(f, S) + SumFunctionOnSet(f, U)
<1> DEFINE good == {T \in SUBSET S :
      SumFunctionOnSet(f, T \cup U) = SumFunctionOnSet(f, T) + SumFunctionOnSet(f, U)}
<1>0. SumFunctionOnSet(f, U) \in Int BY SumTakeOut
<1>1. {} \in good
  <2>1. {} \cup U = U OBVIOUS
  <2> QED BY <1>0, <2>1, SumEmpty
<1>2. ASSUME NEW T \in SUBSET S, NEW x \in S \ T, T \in good PROVE T \cup {x} \in good
  <2>1. IsFiniteSet(T) /\ IsFiniteSet(T \cup U) BY FS_Subset, FS_Union
  <2>2. SumFunctionOnSet(f, T \cup {x}) = f[x] + SumFunctionOnSet(f, T)
    BY <2>1, SumAdd
  <2>3. SumFunctionOnSet(f, (T \cup U) \cup {x}) = f[x] + SumFunctionOnSet(f, T \cup U)
    BY <2>1, SumAdd
  <2>4. (T \cup U) \cup {x} = (T \cup {x}) \cup U OBVIOUS
  <2>5. SumFunctionOnSet(f, T) \in Int
    BY <2>1, SumTakeOut
  <2>6. SumFunctionOnSet(f, T \cup U) = SumFunctionOnSet(f, T) + SumFunctionOnSet(f, U)
    BY <1>2
  <2>7. f[x] + (SumFunctionOnSet(f, T) + SumFunctionOnSet(f, U))
          = (f[x] + SumFunctionOnSet(f, T)) + SumFunctionOnSet(f, U)
    BY <1>0, <2>5
  <2> QED BY <2>2, <2>3, <2>4, <2>6, <2>7
<1> HIDE DEF good
<1>3. S \in good BY <1>1, <1>2, InsertionInduction
<1> QED BY <1>3 DEF good

\* Adding up by groups: parts[k] is the part of S that belongs to k.
LEMMA SumByGroups ==
  ASSUME NEW K, IsFiniteSet(K), NEW S, IsFiniteSet(S), NEW f, \A x \in S : f[x] \in Int,
         NEW parts, \A x \in S : \E k \in K : x \in parts[k],
         \A k \in K : parts[k] \subseteq S,
         \A k, m \in K : k # m => parts[k] \cap parts[m] = {},
         NEW g, \A k \in K : g[k] = SumFunctionOnSet(f, parts[k])
  PROVE  SumFunctionOnSet(g, K) = SumFunctionOnSet(f, S)
<1> DEFINE Covered(L) == {x \in S : \E k \in L : x \in parts[k]}
           good == {L \in SUBSET K : SumFunctionOnSet(g, L) = SumFunctionOnSet(f, Covered(L))}
<1>0. ASSUME NEW L \in SUBSET K
      PROVE  IsFiniteSet(L) /\ IsFiniteSet(Covered(L)) /\ \A k \in L : IsFiniteSet(parts[k])
  BY FS_Subset
<1>1. {} \in good
  <2>1. Covered({}) = {} OBVIOUS
  <2> HIDE DEF Covered
  <2> QED BY <2>1, SumEmpty
<1>2. ASSUME NEW L \in SUBSET K, NEW k \in K \ L, L \in good PROVE L \cup {k} \in good
  <2>1. IsFiniteSet(L) /\ IsFiniteSet(Covered(L)) BY <1>0
  <2>2. IsFiniteSet(parts[k]) BY FS_Subset
  <2>3. \A m \in K : g[m] \in Int
    <3> SUFFICES ASSUME NEW m \in K PROVE g[m] \in Int
      OBVIOUS
    <3>1. IsFiniteSet(parts[m]) BY FS_Subset
    <3>2. \A x \in parts[m] : f[x] \in Int OBVIOUS
    <3> QED BY <3>1, <3>2, SumTakeOut
  <2>4. SumFunctionOnSet(g, L \cup {k}) = g[k] + SumFunctionOnSet(g, L)
    <3> HIDE DEF good
    <3> QED BY <2>1, <2>3, SumAdd
  <2>5. Covered(L \cup {k}) = parts[k] \cup Covered(L) OBVIOUS
  <2>6. parts[k] \cap Covered(L) = {} OBVIOUS
  <2>7. \A x \in parts[k] \cup Covered(L) : f[x] \in Int OBVIOUS
  <2>8. L \cup {k} \in SUBSET K OBVIOUS
  <2>9. SumFunctionOnSet(g, L) = SumFunctionOnSet(f, Covered(L)) BY <1>2
  <2> HIDE DEF Covered
  <2>10. SumFunctionOnSet(f, parts[k] \cup Covered(L))
           = SumFunctionOnSet(f, parts[k]) + SumFunctionOnSet(f, Covered(L))
    BY <2>1, <2>2, <2>6, <2>7, SumUnion
  <2> QED BY <2>4, <2>5, <2>8, <2>9, <2>10
<1>3. Covered(K) = S OBVIOUS
<1> HIDE DEF good
<1>4. K \in good
  <2> HIDE DEF Covered
  <2> QED BY <1>1, <1>2, InsertionInduction
<1> HIDE DEF Covered
<1> QED BY <1>3, <1>4 DEF good

-----------------------------------------------------------------------------
(***************************************************************************)
(* The greatest number of a set, and folds over a sequence.                *)
(***************************************************************************)
LEMMA MaxOfFinite ==
  ASSUME NEW S, IsFiniteSet(S), S # {}, S \subseteq Int
  PROVE  Max(S) \in S /\ \A x \in S : x <= Max(S)
<1> DEFINE good == {T \in SUBSET S : T = {} \/ \E m \in T : \A x \in T : x <= m}
<1>1. {} \in good OBVIOUS
<1>2. ASSUME NEW T \in SUBSET S, NEW x \in S \ T, T \in good PROVE T \cup {x} \in good
  <2>1. CASE T = {} BY <2>1
  <2>2. CASE T # {}
    <3>1. PICK m \in T : \A y \in T : y <= m BY <1>2, <2>2
    <3>2. CASE x <= m BY <3>1, <3>2
    <3>3. CASE ~(x <= m)
      <4>1. \A y \in T \cup {x} : y <= x BY <3>1, <3>3
      <4> QED BY <4>1
    <3> QED BY <3>2, <3>3
  <2> QED BY <2>1, <2>2
<1> HIDE DEF good
<1>3. S \in good BY <1>1, <1>2, InsertionInduction
<1>4. \E m \in S : \A x \in S : m >= x BY <1>3 DEF good
<1> QED BY <1>4 DEF Max

LEMMA MaxIs ==
  ASSUME NEW S, S \subseteq Int, NEW m \in S, \A x \in S : x <= m
  PROVE  Max(S) = m
<1>1. \E y \in S : \A x \in S : y >= x OBVIOUS
<1>2. Max(S) \in S /\ \A x \in S : Max(S) >= x BY <1>1 DEF Max
<1>3. Max(S) \in Int /\ m \in Int /\ Max(S) >= m /\ Max(S) <= m BY <1>2
<1> QED BY <1>3

\* h folds G over every set of the first m places, the last place last.
FoldsOver(h, m, V, b, G) ==
  /\ h \in [SUBSET (1..m) -> V]
  /\ \A s \in SUBSET (1..m) :
       h[s] = IF s = {} THEN b ELSE G[<<h[s \ {Max(s)}], Max(s)>>]

LEMMA FoldExists ==
  ASSUME NEW n \in Nat, NEW V, NEW b \in V, NEW G \in [V \X (1..n) -> V]
  PROVE  \E h : FoldsOver(h, n, V, b, G)
<1> DEFINE Folds(h, m) == FoldsOver(h, m, V, b, G)
    good == {m \in Nat : m <= n => \E h : Folds(h, m)}
<1> USE DEF FoldsOver
<1>1. 0 \in good
  <2>1. 1..0 = {} OBVIOUS
  <2>2. Folds([s \in SUBSET (1..0) |-> b], 0) BY <2>1
  <2> QED BY <2>2
<1>2. ASSUME NEW m \in Nat, m \in good PROVE m + 1 \in good
  <2> HIDE DEF Folds
  <2>1. SUFFICES ASSUME m + 1 <= n PROVE \E h : Folds(h, m + 1)
    OBVIOUS
  <2>2. PICK h : Folds(h, m) BY <1>2, <2>1
  <2> USE DEF Folds
  <2> DEFINE k == m + 1
             g == [s \in SUBSET (1..k) |-> IF k \in s THEN G[<<h[s \ {k}], k>>] ELSE h[s]]
  <2>3. k \in 1..n /\ k \in Nat BY <2>1
  <2>4. ASSUME NEW s \in SUBSET (1..k), k \in s
        PROVE  Max(s) = k /\ s \ {k} \in SUBSET (1..m) /\ s # {}
    <3>1. \A x \in s : x <= k OBVIOUS
    <3>2. s \subseteq Int BY <2>3
    <3>3. Max(s) = k BY <2>4, <3>1, <3>2, MaxIs
    <3> QED BY <2>4, <3>3
  <2>5. ASSUME NEW s \in SUBSET (1..k), k \notin s PROVE s \in SUBSET (1..m)
    BY <2>5
  <2>6. ASSUME NEW s \in SUBSET (1..k), k \notin s, s # {}
        PROVE  Max(s) \in s
    <3>1. IsFiniteSet(1..k) BY FS_Interval
    <3>2. IsFiniteSet(s) BY <3>1, FS_Subset
    <3>3. s \subseteq Int BY <2>3
    <3> QED BY <2>6, <3>2, <3>3, MaxOfFinite
  <2> HIDE DEF k
  <2>7. g \in [SUBSET (1..k) -> V]
    BY <2>2, <2>3, <2>4, <2>5
  <2>8. ASSUME NEW s \in SUBSET (1..k)
        PROVE  g[s] = IF s = {} THEN b ELSE G[<<g[s \ {Max(s)}], Max(s)>>]
    <3>1. CASE k \in s
      <4>1. g[s \ {k}] = h[s \ {k}] OBVIOUS
      <4> QED BY <3>1, <4>1, <2>4
    <3>2. CASE k \notin s
      <4>1. g[s] = h[s] /\ g[s \ {Max(s)}] = h[s \ {Max(s)}] BY <3>2
      <4> HIDE DEF g
      <4> QED BY <3>2, <4>1, <2>2, <2>5
    <3> QED BY <3>1, <3>2
  <2>9. Folds(g, k) BY <2>7, <2>8
  <2> QED BY <2>9 DEF k
<1> HIDE DEF good
<1>3. n \in good BY <1>1, <1>2, StepInduction
<1>4. PICK h : Folds(h, n)
  <2> HIDE DEF Folds
  <2> QED BY <1>3 DEF good
<1> QED BY <1>4

\* A sequence of the elements of a finite set in an order that is total.
LEMMA SortedExists ==
  ASSUME NEW S, IsFiniteSet(S), NEW R,
         \A x, y \in S : <<x, y>> \in R \/ <<y, x>> \in R,
         \A x, y, z \in S : <<x, y>> \in R /\ <<y, z>> \in R => <<x, z>> \in R
  PROVE  \E q \in SetToSeqs(S) : \A i, j \in DOMAIN q : i < j => <<q[i], q[j]>> \in R
<1> DEFINE Sorted(T) ==
      \E q \in SetToSeqs(T) : \A i, j \in DOMAIN q : i < j => <<q[i], q[j]>> \in R
    capped == {T \in SUBSET S : T = {} \/ \E m \in T : \A y \in T : <<y, m>> \in R}
    good == {T \in SUBSET S : Sorted(T)}
<1>1. ASSUME NEW U \in SUBSET S PROVE U \in capped
  <2>1. {} \in capped OBVIOUS
  <2>2. ASSUME NEW T \in SUBSET U, NEW x \in U \ T, T \in capped PROVE T \cup {x} \in capped
    <3>1. CASE T = {} BY <3>1
    <3>2. CASE T # {}
      <4>1. PICK m \in T : \A y \in T : <<y, m>> \in R BY <2>2, <3>2
      <4>2. CASE <<x, m>> \in R BY <4>1, <4>2
      <4>3. CASE <<m, x>> \in R
        <5>1. \A y \in T \cup {x} : <<y, x>> \in R BY <4>1, <4>3
        <5> QED BY <5>1
      <4> QED BY <4>2, <4>3
    <3> QED BY <3>1, <3>2
  <2>3. IsFiniteSet(U) BY FS_Subset
  <2> HIDE DEF capped
  <2> QED BY <2>1, <2>2, <2>3, InsertionInduction
<1>2. ASSUME NEW T \in SUBSET S, \A U \in SUBSET T : U # T => U \in good
      PROVE  T \in good
  <2>1. CASE T = {}
    <3>1. Cardinality(T) = 0 BY <2>1, FS_EmptySet
    <3> DEFINE q == [i \in 1..0 |-> 0]
    <3>2. q \in SetToSeqs(T) BY <3>1 DEF SetToSeqs
    <3>3. DOMAIN q = {} OBVIOUS
    <3> HIDE DEF q
    <3> QED BY <3>2, <3>3
  <2>2. CASE T # {}
    <3>1. PICK m \in T : \A y \in T : <<y, m>> \in R BY <1>1, <2>2
    <3>2. Sorted(T \ {m}) BY <1>2, <3>1
    <3>3. PICK q \in SetToSeqs(T \ {m}) : \A i, j \in DOMAIN q : i < j => <<q[i], q[j]>> \in R
      BY <3>2
    <3> DEFINE n == Cardinality(T)
               p == [i \in 1..n |-> IF i = n THEN m ELSE q[i]]
    <3>4. n \in Nat \ {0} /\ Cardinality(T \ {m}) = n - 1
      <4>1. IsFiniteSet(T) BY FS_Subset
      <4> QED BY <4>1, <2>2, FS_CardinalityType, FS_EmptySet, FS_RemoveElement
    <3> HIDE DEF n
    <3>5. /\ q \in [1..(n-1) -> T \ {m}]
          /\ \A i, j \in 1..(n-1) : i # j => q[i] # q[j]
      BY <3>3, <3>4 DEF SetToSeqs
    <3>6. p \in [1..n -> T] BY <3>4, <3>5
    <3>7. \A i, j \in 1..n : i # j => p[i] # p[j] BY <3>4, <3>5
    <3>8. p \in SetToSeqs(T) BY <3>6, <3>7 DEF SetToSeqs, n
    <3>9. \A i, j \in DOMAIN p : i < j => <<p[i], p[j]>> \in R
      BY <3>1, <3>3, <3>4, <3>5
    <3> HIDE DEF p
    <3> QED BY <3>8, <3>9
  <2> QED BY <2>1, <2>2
<1> HIDE DEF good, Sorted
<1>3. SUBSET S \subseteq good BY <1>2, SubsetInduction
<1> QED BY <1>3 DEF good, Sorted

-----------------------------------------------------------------------------
(***************************************************************************)
(* Backups.  A file's time and size are numbers.                           *)
(***************************************************************************)
Files(S) == IsFiniteSet(S) /\ \A f \in S : f.at \in Int /\ f.size \in Nat /\ f.managed \in BOOLEAN

LEMMA TotalSizeIsSum ==
  ASSUME NEW S, Files(S)
  PROVE  TotalSize(S) = SumFunctionOnSet([f \in S |-> f.size], S)
<1> DEFINE g == [f \in S |-> f.size]
           Adds(h) == h = [s \in SUBSET S |-> IF s = {} THEN 0
                ELSE (CHOOSE x \in s : TRUE).size + h[s \ {CHOOSE x \in s : TRUE}]]
<1>1. PICK F : IsSum(F, g, S) /\ \A s \in SUBSET S : SumFunctionOnSet(g, s) = F[s]
  <2>1. IsFiniteSet(S) /\ \A x \in S : g[x] \in Int BY DEF Files
  <2> HIDE DEF g
  <2> QED BY <2>1, SumsExist
<1>2. ASSUME NEW s \in SUBSET S, s # {}
      PROVE  g[CHOOSE x \in s : TRUE] = (CHOOSE x \in s : TRUE).size
  <2>1. (CHOOSE x \in s : TRUE) \in s BY <1>2
  <2> QED BY <2>1
<1> HIDE DEF g
<1>3. ASSUME NEW h PROVE Adds(h) <=> Iterates(h, g, S)
  BY <1>2 DEF Iterates
<1>4. Iterates(F, g, S) BY <1>1, SumIterates
<1>5. Adds(CHOOSE h : Adds(h))
  <2>1. Adds(F) BY <1>3, <1>4
  <2> QED BY <2>1, Zenon
<1>6. TotalSize(S) = (CHOOSE h : Adds(h))[S]
  BY Zenon DEF TotalSize, MapThenSumSet, MapThenFoldSet
<1> HIDE DEF Adds
<1>7. (CHOOSE h : Adds(h))[S] = F[S]
  BY <1>1, <1>3, <1>5, IterationIsSum DEF Files
<1>8. S \in SUBSET S OBVIOUS
<1> QED BY <1>1, <1>6, <1>7, <1>8 DEF g

LEMMA SumOfPart ==
  ASSUME NEW S, IsFiniteSet(S), NEW f, \A x \in S : f[x] \in Nat, NEW T \in SUBSET S
  PROVE  SumFunctionOnSet(f, T) <= SumFunctionOnSet(f, S)
<1>1. IsFiniteSet(T) /\ IsFiniteSet(S \ T) BY FS_Subset, FS_Difference
<1>2. T \cup (S \ T) = S /\ T \cap (S \ T) = {} OBVIOUS
<1>3. \A x \in T \cup (S \ T) : f[x] \in Int OBVIOUS
<1>4. SumFunctionOnSet(f, S) = SumFunctionOnSet(f, T) + SumFunctionOnSet(f, S \ T)
  BY <1>1, <1>2, <1>3, SumUnion
<1>5. SumFunctionOnSet(f, T) \in Nat /\ SumFunctionOnSet(f, S \ T) \in Nat
  BY <1>1, SumNotNegative
<1> QED BY <1>4, <1>5

LEMMA TotalSizeFacts ==
  ASSUME NEW S, Files(S)
  PROVE  /\ TotalSize(S) \in Nat
         /\ \A T \in SUBSET S : Files(T) /\ TotalSize(T) <= TotalSize(S)
<1> DEFINE g == [f \in S |-> f.size]
<1>1. \A f \in S : g[f] \in Nat BY DEF Files
<1>2. TotalSize(S) \in Nat
  <2> HIDE DEF g
  <2>1. TotalSize(S) = SumFunctionOnSet(g, S) BY TotalSizeIsSum DEF g
  <2> QED BY <1>1, <2>1, SumNotNegative DEF Files
<1>3. ASSUME NEW T \in SUBSET S
      PROVE  Files(T) /\ TotalSize(T) <= TotalSize(S)
  <2>1. Files(T) BY FS_Subset DEF Files
  <2>2. TotalSize(T) = SumFunctionOnSet([f \in T |-> f.size], T) BY <2>1, TotalSizeIsSum
  <2>3. SumFunctionOnSet([f \in T |-> f.size], T) = SumFunctionOnSet(g, T)
    <3> DEFINE k == [f \in T |-> f.size]
    <3>1. \A f \in T : g[f] \in Int /\ k[f] = g[f] BY DEF Files
    <3> HIDE DEF k, g
    <3>2. SumFunctionOnSet(k, T) = SumFunctionOnSet(g, T) BY <2>1, <3>1, SumSame DEF Files
    <3> QED BY <3>2 DEF k
  <2>4. TotalSize(S) = SumFunctionOnSet(g, S) BY TotalSizeIsSum
  <2> HIDE DEF g
  <2>5. SumFunctionOnSet(g, T) <= SumFunctionOnSet(g, S) BY <1>1, SumOfPart DEF Files
  <2> QED BY <2>1, <2>2, <2>3, <2>4, <2>5
<1> QED BY <1>2, <1>3

LEMMA TotalSizeAdd ==
  ASSUME NEW S, NEW x, Files(S \cup {x})
  PROVE  TotalSize(S \cup {x}) <= TotalSize(S) + x.size
<1>1. CASE x \in S
  <2>1. S \cup {x} = S /\ x.size \in Nat BY <1>1 DEF Files
  <2> QED BY <2>1, TotalSizeFacts
<1>2. CASE x \notin S
  <2> DEFINE g == [f \in S \cup {x} |-> f.size]
             k == [f \in S |-> f.size]
  <2>1. Files(S) BY FS_Subset DEF Files
  <2>2. g[x] = x.size /\ g[x] \in Int /\ \A f \in S : g[f] \in Int /\ k[f] = g[f] BY DEF Files
  <2>3. TotalSize(S \cup {x}) = SumFunctionOnSet(g, S \cup {x}) BY TotalSizeIsSum
  <2>4. TotalSize(S) = SumFunctionOnSet(k, S) BY <2>1, TotalSizeIsSum
  <2> HIDE DEF g, k
  <2>5. SumFunctionOnSet(k, S) = SumFunctionOnSet(g, S) BY <2>1, <2>2, SumSame DEF Files
  <2>6. SumFunctionOnSet(g, S \cup {x}) = g[x] + SumFunctionOnSet(g, S)
    BY <1>2, <2>1, <2>2, SumAdd DEF Files
  <2>7. TotalSize(S) \in Nat BY <2>1, TotalSizeFacts
  <2> QED BY <2>2, <2>3, <2>4, <2>5, <2>6, <2>7
<1> QED BY <1>1, <1>2

LEMMA TotalSizeEmpty == TotalSize({}) = 0
<1>1. Files({}) BY FS_EmptySet DEF Files
<1> QED BY <1>1, TotalSizeIsSum, SumEmpty

KeepAll(q) == FoldLeft(Keep, {}, q)

\* Going through the n files of q: R[k] is what is kept of the first k.
KeepsOver(R, n, S, q) ==
  /\ R \in [0..n -> SUBSET S]
  /\ R[0] = {} /\ R[n] = KeepAll(q)
  /\ \A k \in 1..n : R[k] = Keep(R[k-1], q[k])

LEMMA KeepPrefixes ==
  ASSUME NEW S, NEW n \in Nat, NEW q \in [1..n -> S]
  PROVE  \E R : KeepsOver(R, n, S, q)
<1> DEFINE G == [p \in (SUBSET S) \X (1..n) |-> Keep(p[1], q[p[2]])]
           Folds(h) == h = [s \in SUBSET (1..n) |-> IF s = {} THEN {}
                              ELSE Keep(h[s \ {Max(s)}], q[Max(s)])]
           H == CHOOSE h : Folds(h)
           R == [k \in 0..n |-> H[1..k]]
<1>1. G \in [(SUBSET S) \X (1..n) -> SUBSET S] BY DEF Keep
<1>2. ASSUME NEW s \in SUBSET (1..n), s # {} PROVE Max(s) \in s
  <2>1. IsFiniteSet(1..n) BY FS_Interval
  <2>2. IsFiniteSet(s) BY <2>1, FS_Subset
  <2>3. s \subseteq Int OBVIOUS
  <2> QED BY <1>2, <2>2, <2>3, MaxOfFinite
<1>3. PICK h : FoldsOver(h, n, SUBSET S, {}, G)
  <2>1. {} \in SUBSET S OBVIOUS
  <2> HIDE DEF G
  <2> QED BY <1>1, <2>1, FoldExists
<1>4. ASSUME NEW s \in SUBSET (1..n)
      PROVE  h[s] = IF s = {} THEN {} ELSE Keep(h[s \ {Max(s)}], q[Max(s)])
  BY <1>2, <1>3 DEF FoldsOver
<1>5. Folds(h)
  <2>1. h = [s \in SUBSET (1..n) |-> h[s]] BY <1>3 DEF FoldsOver
  <2> QED BY <1>4, <2>1
<1>6. Folds(H) BY <1>5, Zenon
<1>7. R[0] = {}
  <2>1. 1..0 = {} /\ {} \in SUBSET (1..n) /\ 0 \in 0..n OBVIOUS
  <2> HIDE DEF H
  <2> QED BY <1>6, <2>1
<1>8. ASSUME NEW k \in 1..n PROVE R[k] = Keep(R[k-1], q[k])
  <2>1. Max(1..k) = k
    <3>1. 1..k \subseteq Int /\ k \in 1..k /\ \A x \in 1..k : x <= k OBVIOUS
    <3> QED BY <3>1, MaxIs
  <2>2. (1..k) \ {k} = 1..(k-1) /\ 1..k # {} /\ 1..k \in SUBSET (1..n) /\ k \in 0..n /\ k-1 \in 0..n
    OBVIOUS
  <2> HIDE DEF H
  <2>3. H[1..k] = Keep(H[(1..k) \ {Max(1..k)}], q[Max(1..k)]) BY <1>6, <2>2
  <2> QED BY <2>1, <2>2, <2>3
<1>9. R[n] = KeepAll(q)
  <2>1. DOMAIN q = 1..n OBVIOUS
  <2>2. KeepAll(q) = H[DOMAIN q]
    BY <2>1, Zenon DEF KeepAll, FoldLeft, MapThenFoldSet
  <2> HIDE DEF H
  <2> QED BY <2>1, <2>2
<1>10. R \in [0..n -> SUBSET S]
  <2> DEFINE good == {k \in Nat : k <= n => R[k] \in SUBSET S}
  <2> HIDE DEF R
  <2>1. 0 \in good BY <1>7
  <2>2. ASSUME NEW k \in Nat, k \in good PROVE k + 1 \in good
    <3>1. ASSUME k + 1 <= n PROVE R[k + 1] \in SUBSET S
      <4>1. k + 1 \in 1..n /\ (k + 1) - 1 = k /\ k <= n BY <3>1
      <4>2. R[k] \in SUBSET S BY <2>2, <4>1
      <4>3. R[k + 1] = Keep(R[k], q[k + 1]) BY <1>8, <4>1
      <4> QED BY <4>1, <4>2, <4>3 DEF Keep
    <3> QED BY <3>1
  <2> HIDE DEF good
  <2>3. Nat \subseteq good BY <2>1, <2>2, StepInduction
  <2>4. \A k \in 0..n : R[k] \in SUBSET S BY <2>3 DEF good
  <2> QED BY <2>4 DEF R
<1> HIDE DEF R
<1> QED BY <1>7, <1>8, <1>9, <1>10 DEF KeepsOver

LEMMA NewestFirstExists ==
  ASSUME NEW S, Files(S)
  PROVE  /\ NewestFirst(S) \in [1..Cardinality(S) -> S]
         /\ Cardinality(S) \in Nat
         /\ \A f \in S : \E i \in 1..Cardinality(S) : NewestFirst(S)[i] = f
         /\ \A i, j \in 1..Cardinality(S) :
              i < j => NewestFirst(S)[i].at >= NewestFirst(S)[j].at
<1> DEFINE R == {p \in S \X S : ListedFirst(p[1], p[2])}
           n == Cardinality(S)
           q == NewestFirst(S)
<1>1. /\ \A x, y \in S : <<x, y>> \in R <=> ListedFirst(x, y)
      /\ \A x, y \in S : <<x, y>> \in R \/ <<y, x>> \in R
      /\ \A x, y, z \in S : <<x, y>> \in R /\ <<y, z>> \in R => <<x, z>> \in R
  BY DEF ListedFirst, Files
<1>2. \A s \in SetToSeqs(S) : DOMAIN s = 1..n /\ s \in [1..n -> S]
  BY DEF SetToSeqs
<1> HIDE DEF R
<1>3. \E s \in SetToSeqs(S) : \A i, j \in DOMAIN s : i < j => <<s[i], s[j]>> \in R
  BY <1>1, SortedExists DEF Files
<1>4. \E s \in SetToSeqs(S) : \A i, j \in DOMAIN s : i < j => ListedFirst(s[i], s[j])
  BY <1>1, <1>2, <1>3
<1>5. q \in SetToSeqs(S) /\ \A i, j \in DOMAIN q : i < j => ListedFirst(q[i], q[j])
  BY <1>4 DEF NewestFirst
<1>6. n \in Nat /\ IsFiniteSet(S) BY FS_CardinalityType DEF Files
<1>7. q \in [1..n -> S] /\ \A i, j \in 1..n : i # j => q[i] # q[j]
  BY <1>5 DEF SetToSeqs
<1>8. \A f \in S : \E i \in 1..n : q[i] = f
  <2>1. q \in Injection(1..n, S) BY <1>7 DEF Injection, IsInjective
  <2>2. Cardinality(1..n) = n /\ IsFiniteSet(1..n) BY <1>6, FS_Interval
  <2>3. q \in Surjection(1..n, S) BY <1>6, <2>1, <2>2, FS_Injection
  <2> QED BY <2>3 DEF Surjection
<1>9. \A i, j \in 1..n : i < j => q[i].at >= q[j].at
  <2>1. \A i, j \in 1..n : i < j => ListedFirst(q[i], q[j]) BY <1>5, <1>7
  <2>2. \A i \in 1..n : q[i].at \in Int BY <1>7 DEF Files
  <2> QED BY <2>1, <2>2 DEF ListedFirst
<1> HIDE DEF q, n
<1>10. QED BY <1>6, <1>7, <1>8, <1>9 DEF q, n

\* What pruneSqliteBackups keeps of any backup files (sqlite-backups.mjs, the walk
\* from the newest to the oldest) is within the limit on files and the one on bytes.
THEOREM KeptIsBounded ==
  ASSUME NEW S, Files(S)
  PROVE  LET kept == KeepAll(NewestFirst(S)) IN
         /\ kept \subseteq S /\ Files(kept)
         /\ Cardinality(kept) <= MaxFiles /\ TotalSize(kept) <= MaxBytes
<1> DEFINE n == Cardinality(S)
           q == NewestFirst(S)
<1>1. n \in Nat /\ q \in [1..n -> S] BY NewestFirstExists
<1> HIDE DEF n, q
<1>2. PICK R : KeepsOver(R, n, S, q)
  BY <1>1, KeepPrefixes
<1> USE DEF KeepsOver
<1> DEFINE Within(T) == T \subseteq S /\ Cardinality(T) <= MaxFiles /\ TotalSize(T) <= MaxBytes
           good == {k \in Nat : k <= n => Within(R[k])}
<1>3. 0 \in good
  <2>1. MaxFiles \in Nat /\ MaxBytes \in Nat BY BackupAssumption
  <2>2. Cardinality({}) = 0 BY FS_EmptySet
  <2>3. Within({}) BY <2>1, <2>2, TotalSizeEmpty
  <2>4. R[0] = {} BY <1>2
  <2> HIDE DEF Within
  <2> QED BY <2>3, <2>4
<1>4. ASSUME NEW k \in Nat, k \in good PROVE k + 1 \in good
  <2>1. ASSUME k + 1 <= n PROVE Within(R[k + 1])
    <3>1. k + 1 \in 1..n /\ (k + 1) - 1 = k /\ k <= n BY <1>1, <2>1
    <3>2. Within(R[k]) BY <1>4, <3>1
    <3>3. R[k + 1] = Keep(R[k], q[k + 1]) BY <1>2, <3>1
    <3>4. q[k + 1] \in S BY <1>1, <3>1
    <3>5. CASE R[k + 1] = R[k] BY <3>2, <3>5
    <3>6. CASE R[k + 1] # R[k]
      <4>1. /\ R[k + 1] = R[k] \cup {q[k + 1]}
            /\ Cardinality(R[k]) + 1 <= MaxFiles
            /\ TotalSize(R[k]) + q[k + 1].size <= MaxBytes
        BY <3>3, <3>6 DEF Keep
      <4>2. R[k + 1] \subseteq S BY <3>2, <3>4, <4>1
      <4>3. Files(R[k]) /\ Files(R[k + 1]) BY <3>2, <4>2, TotalSizeFacts
      <4>4. TotalSize(R[k + 1]) <= TotalSize(R[k]) + q[k + 1].size
        BY <4>1, <4>3, TotalSizeAdd
      <4>5. Cardinality(R[k + 1]) = Cardinality(R[k]) + 1
        <5>1. q[k + 1] \notin R[k] BY <3>6, <4>1
        <5> QED BY <4>1, <4>3, <5>1, FS_AddElement DEF Files
      <4>6. TotalSize(R[k]) \in Nat /\ TotalSize(R[k + 1]) \in Nat /\ q[k + 1].size \in Nat
        BY <3>4, <4>3, TotalSizeFacts DEF Files
      <4>7. MaxBytes \in Nat BY BackupAssumption
      <4>8. TotalSize(R[k + 1]) <= MaxBytes BY <4>1, <4>4, <4>6, <4>7
      <4> QED BY <4>1, <4>2, <4>5, <4>8
    <3> QED BY <3>5, <3>6
  <2> HIDE DEF Within
  <2> QED BY <2>1
<1> HIDE DEF good
<1>5. n \in good BY <1>1, <1>3, <1>4, StepInduction
<1>6. Within(R[n])
  <2> HIDE DEF Within
  <2> QED BY <1>1, <1>5 DEF good
<1>7. Files(R[n]) BY <1>6, TotalSizeFacts
<1> QED BY <1>2, <1>6, <1>7 DEF q

\* Of the files that would fit alone, none is dropped but for one at least as new.
LEMMA NewestIsKept ==
  ASSUME NEW S, Files(S), NEW f \in S, f.size <= MaxBytes
  PROVE  \E g \in KeepAll(NewestFirst(S)) : g.at >= f.at
<1> DEFINE n == Cardinality(S)
           q == NewestFirst(S)
<1>1. n \in Nat /\ q \in [1..n -> S] /\ \A i, j \in 1..n : i < j => q[i].at >= q[j].at
  BY NewestFirstExists
<1>2. PICK i \in 1..n : q[i] = f BY NewestFirstExists
<1> HIDE DEF n, q
<1>3. PICK R : KeepsOver(R, n, S, q)
  BY <1>1, KeepPrefixes
<1> USE DEF KeepsOver
<1> DEFINE good == {k \in Nat : k <= n =>
             /\ \A g \in R[k] : k < i => g.at >= f.at
             /\ i <= k => \E g \in R[k] : g.at >= f.at}
<1>4. 0 \in good BY <1>3
<1>5. ASSUME NEW k \in Nat, k \in good PROVE k + 1 \in good
  <2>1. ASSUME k + 1 <= n
        PROVE  /\ \A g \in R[k + 1] : k + 1 < i => g.at >= f.at
               /\ i <= k + 1 => \E g \in R[k + 1] : g.at >= f.at
    <3>1. k + 1 \in 1..n /\ (k + 1) - 1 = k /\ k <= n BY <1>1, <2>1
    <3>2. R[k + 1] = Keep(R[k], q[k + 1]) BY <1>3, <3>1
    <3>3. R[k] \subseteq R[k + 1] /\ R[k + 1] \subseteq R[k] \cup {q[k + 1]}
      BY <3>2 DEF Keep
    <3>4. /\ \A g \in R[k] : k < i => g.at >= f.at
          /\ i <= k => \E g \in R[k] : g.at >= f.at
      BY <1>5, <3>1
    <3>5. CASE k + 1 < i
      <4>1. q[k + 1].at >= f.at BY <1>1, <1>2, <3>1, <3>5
      <4> QED BY <3>3, <3>4, <3>5, <4>1
    <3>6. CASE k + 1 = i
      <4>1. CASE R[k] = {}
        <5>1. MaxFiles \in Nat \ {0} /\ MaxBytes \in Nat BY BackupAssumption
        <5>2. Cardinality({}) = 0 BY FS_EmptySet
        <5>3. f.size \in Nat /\ f.at \in Int BY DEF Files
        <5>4. Cardinality(R[k]) + 1 <= MaxFiles /\ TotalSize(R[k]) + f.size <= MaxBytes
          BY <4>1, <5>1, <5>2, <5>3, TotalSizeEmpty
        <5>5. f \in R[k + 1] BY <1>2, <3>2, <3>6, <5>4 DEF Keep
        <5> QED BY <3>6, <5>3, <5>5
      <4>2. CASE R[k] # {}
        <5>1. PICK g \in R[k] : TRUE BY <4>2
        <5>2. g.at >= f.at BY <3>4, <3>6, <5>1
        <5> QED BY <3>3, <3>6, <5>1, <5>2
      <4> QED BY <4>1, <4>2
    <3>7. CASE i <= k BY <3>3, <3>4, <3>7
    <3> QED BY <3>5, <3>6, <3>7
  <2> QED BY <2>1
<1> HIDE DEF good
<1>6. n \in good BY <1>1, <1>4, <1>5, StepInduction
<1> QED BY <1>1, <1>2, <1>3, <1>6 DEF good, q

-----------------------------------------------------------------------------
(***************************************************************************)
(* Calendar buckets.                                                       *)
(***************************************************************************)
LEMMA Quotient ==
  ASSUME NEW t \in Int, NEW n \in Nat \ {0}
  PROVE  /\ t \div n \in Int
         /\ (t \div n) * n <= t /\ t < (t \div n) * n + n
OBVIOUS

LEMMA QuotientIs ==
  ASSUME NEW t \in Int, NEW n \in Nat \ {0}, NEW q \in Int, q * n <= t, t < q * n + n
  PROVE  t \div n = q
OBVIOUS

LEMMA Remainder ==
  ASSUME NEW t \in Int, NEW n \in Nat \ {0}
  PROVE  /\ t % n \in 0..(n-1)
         /\ t = (t \div n) * n + (t % n)
OBVIOUS

LEMMA LengthFacts ==
  ASSUME NEW l \in Layers
  PROVE  Length[l] \in Nat \ {0}
<1>1. /\ BucketTicks \in Nat \ {0} /\ HourTicks \in Nat \ {0} /\ DayTicks \in Nat \ {0}
      /\ WeekDays \in Nat \ {0} /\ MonthDays \in Nat \ {0}
  BY PyramidAssumption
<1>2. WeekDays * DayTicks \in Nat \ {0} /\ MonthDays * DayTicks \in Nat \ {0}
  BY <1>1
<1> QED BY <1>1, <1>2 DEF Layers, Length

LEMMA FloorFacts ==
  ASSUME NEW t \in Int, NEW n \in Nat \ {0}
  PROVE  /\ Floor(t, n) \in Int /\ Floor(t, n) <= t /\ t < Floor(t, n) + n
         /\ \A x \in Int : Floor(t, n) <= x /\ x < Floor(t, n) + n => Floor(x, n) = Floor(t, n)
<1>1. t \div n \in Int /\ (t \div n) * n <= t /\ t < (t \div n) * n + n
  BY Quotient
<1>2. ASSUME NEW x \in Int, Floor(t, n) <= x, x < Floor(t, n) + n
      PROVE  Floor(x, n) = Floor(t, n)
  BY <1>1, <1>2, QuotientIs DEF Floor
<1>3. (t \div n) * n \in Int BY <1>1
<1> QED BY <1>1, <1>2, <1>3 DEF Floor

Multiple(p, n) == \E k \in Int : p = k * n

LEMMA MultipleOfMultiple ==
  ASSUME NEW n \in Int, NEW m, NEW p, Multiple(m, n), Multiple(p, m)
  PROVE  Multiple(p, n)
<1>1. PICK k \in Int : m = k * n BY DEF Multiple
<1>2. PICK q \in Int : p = q * m BY DEF Multiple
<1>3. q * k \in Int /\ (q * k) * n = q * (k * n) OBVIOUS
<1>4. p = (q * k) * n BY <1>1, <1>2, <1>3
<1> QED BY <1>3, <1>4 DEF Multiple

LEMMA FloorOfMultiple ==
  ASSUME NEW n \in Nat \ {0}, NEW p, Multiple(p, n)
  PROVE  Floor(p, n) = p
<1>1. PICK k \in Int : p = k * n BY DEF Multiple
<1>2. p \in Int /\ k * n <= p /\ p < k * n + n
  <2>1. k * n \in Int OBVIOUS
  <2> QED BY <1>1, <2>1
<1>3. p \div n = k BY <1>2, QuotientIs
<1> QED BY <1>1, <1>3 DEF Floor

LEMMA FloorIsMultiple ==
  ASSUME NEW t \in Int, NEW n \in Nat \ {0}
  PROVE  Multiple(Floor(t, n), n)
BY Quotient DEF Multiple, Floor

LEMMA WeekFacts ==
  ASSUME NEW t \in Int
  PROVE  LET n == WeekDays * DayTicks IN
         /\ WeekStart(t) \in Int /\ WeekStart(t) <= t /\ t < WeekStart(t) + n
         /\ \E w \in Int : WeekStart(t) = w * DayTicks
         /\ \A x \in Int : WeekStart(t) <= x /\ x < WeekStart(t) + n
              => WeekStart(x) = WeekStart(t)
<1> DEFINE d == t \div DayTicks
           w == d - ((d + WeekShift) % WeekDays)
<1>1. /\ DayTicks \in Nat \ {0} /\ WeekDays \in Nat \ {0}
      /\ WeekShift \in 0..WeekDays-1 /\ WeekShift \in Nat
  BY PyramidAssumption
<1>2. d \in Int /\ d * DayTicks <= t /\ t < d * DayTicks + DayTicks
  BY <1>1, Quotient
<1> DEFINE q == (d + WeekShift) \div WeekDays
<1>3. /\ q \in Int /\ (d + WeekShift) % WeekDays \in 0..(WeekDays-1)
      /\ d + WeekShift = q * WeekDays + ((d + WeekShift) % WeekDays)
  BY <1>1, <1>2, Quotient, Remainder
<1>4. WeekStart(t) = w * DayTicks
  BY DEF WeekStart
<1> HIDE DEF d, q
<1>5. w \in Int /\ w <= d /\ d < w + WeekDays /\ w + WeekShift = q * WeekDays
  <2> DEFINE r == (d + WeekShift) % WeekDays
             m == q * WeekDays
  <2>1. r \in Int /\ 0 <= r /\ r < WeekDays /\ d + WeekShift = m + r BY <1>1, <1>3
  <2>2. m \in Int BY <1>1, <1>3
  <2> HIDE DEF r, m
  <2>3. d - r \in Int /\ d - r <= d /\ d < (d - r) + WeekDays /\ (d - r) + WeekShift = m
    BY <1>1, <1>2, <2>1, <2>2
  <2> QED BY <2>3 DEF r, m
<1> HIDE DEF w
<1>6. w * DayTicks <= d * DayTicks /\ d * DayTicks + DayTicks <= w * DayTicks + WeekDays * DayTicks
  <2>1. d * DayTicks + DayTicks = (d + 1) * DayTicks BY <1>1, <1>2
  <2>2. w * DayTicks + WeekDays * DayTicks = (w + WeekDays) * DayTicks BY <1>1, <1>5
  <2>3. d + 1 <= w + WeekDays BY <1>1, <1>2, <1>5
  <2>4. \A a, b \in Int : a <= b => a * DayTicks <= b * DayTicks BY <1>1
  <2>5. w + WeekDays \in Int /\ d + 1 \in Int BY <1>1, <1>2, <1>5
  <2> QED BY <1>2, <1>5, <2>1, <2>2, <2>3, <2>4, <2>5
<1>7. ASSUME NEW x \in Int, w * DayTicks <= x, x < w * DayTicks + WeekDays * DayTicks
      PROVE  WeekStart(x) = w * DayTicks
  <2> DEFINE e == x \div DayTicks
  <2>1. e \in Int /\ e * DayTicks <= x /\ x < e * DayTicks + DayTicks
    BY <1>1, Quotient
  <2> HIDE DEF e
  <2>2. w <= e
    <3>1. w * DayTicks < (e + 1) * DayTicks BY <1>1, <1>5, <1>7, <2>1
    <3>2. ~(e + 1 <= w)
      <4>1. \A a, b \in Int : a <= b => a * DayTicks <= b * DayTicks BY <1>1
      <4>2. (e + 1) * DayTicks \in Int /\ w * DayTicks \in Int BY <1>1, <1>5, <2>1
      <4> QED BY <1>5, <2>1, <3>1, <4>1, <4>2
    <3> QED BY <1>5, <2>1, <3>2
  <2>3. e < w + WeekDays
    <3>1. e * DayTicks < (w + WeekDays) * DayTicks BY <1>1, <1>5, <1>7, <2>1
    <3>2. ~(w + WeekDays <= e)
      <4>1. \A a, b \in Int : a <= b => a * DayTicks <= b * DayTicks BY <1>1
      <4>2. e * DayTicks \in Int /\ (w + WeekDays) * DayTicks \in Int BY <1>1, <1>5, <2>1
      <4> QED BY <1>1, <1>5, <2>1, <3>1, <4>1, <4>2
    <3> QED BY <1>1, <1>5, <2>1, <3>2
  <2>4. (e + WeekShift) \div WeekDays = q
    <3> DEFINE m == q * WeekDays
    <3>1. m \in Int /\ w + WeekShift = m BY <1>1, <1>3, <1>5
    <3>2. m <= e + WeekShift /\ e + WeekShift < m + WeekDays /\ e + WeekShift \in Int
      <4> HIDE DEF m
      <4> QED BY <1>1, <1>5, <2>1, <2>2, <2>3, <3>1
    <3> QED BY <1>1, <1>3, <3>2, QuotientIs
  <2>5. /\ e + WeekShift = q * WeekDays + ((e + WeekShift) % WeekDays)
        /\ (e + WeekShift) % WeekDays \in Int
    <3> DEFINE u == e + WeekShift
    <3>1. u \in Int BY <1>1, <2>1
    <3> HIDE DEF u
    <3>2. u % WeekDays \in 0..(WeekDays-1) /\ u = (u \div WeekDays) * WeekDays + (u % WeekDays)
      BY <1>1, <3>1, Remainder
    <3> QED BY <2>4, <3>2 DEF u
  <2>6. e - ((e + WeekShift) % WeekDays) = w
    <3> DEFINE r == (e + WeekShift) % WeekDays
               m == q * WeekDays
    <3>1. e + WeekShift = m + r /\ r \in Int /\ m \in Int /\ w + WeekShift = m
      BY <1>1, <1>3, <1>5, <2>5
    <3> HIDE DEF r, m
    <3>2. e - r = w BY <1>1, <1>5, <2>1, <3>1
    <3> QED BY <3>2 DEF r
  <2> QED BY <2>6 DEF WeekStart, e
<1>8. WeekStart(t) \in Int BY <1>1, <1>4, <1>5
<1>9. WeekStart(t) <= t /\ t < WeekStart(t) + WeekDays * DayTicks
  <2>1. d * DayTicks \in Int /\ WeekDays * DayTicks \in Int BY <1>1, <1>2
  <2> QED BY <1>1, <1>2, <1>4, <1>6, <1>8, <2>1
<1> QED BY <1>4, <1>5, <1>7, <1>8, <1>9

\* Every layer's buckets: a moment lies in the bucket that it names, and every
\* moment of a bucket names the same one.
LEMMA BucketFacts ==
  ASSUME NEW l \in Layers, NEW t \in Int
  PROVE  /\ BucketStart(t, l) \in Int
         /\ BucketStart(t, l) <= t /\ t < BucketStart(t, l) + Length[l]
         /\ \A x \in Int : BucketStart(t, l) <= x /\ x < BucketStart(t, l) + Length[l]
              => BucketStart(x, l) = BucketStart(t, l)
<1>1. /\ BucketTicks \in Nat \ {0} /\ HourTicks \in Nat \ {0} /\ DayTicks \in Nat \ {0}
      /\ WeekDays \in Nat \ {0} /\ MonthDays \in Nat \ {0}
  BY PyramidAssumption
<1>2. MonthDays * DayTicks \in Nat \ {0} BY <1>1
<1>3. CASE l = "fine" BY <1>1, <1>3, FloorFacts DEF BucketStart, Length, Layers
<1>4. CASE l = "hour" BY <1>1, <1>4, FloorFacts DEF BucketStart, Length, Layers
<1>5. CASE l = "day" BY <1>1, <1>5, FloorFacts DEF BucketStart, DayStart, Length, Layers
<1>6. CASE l = "month" BY <1>2, <1>6, FloorFacts DEF BucketStart, MonthStart, Length, Layers
<1>7. CASE l = "week"
  <2>1. Length[l] = WeekDays * DayTicks /\ \A x \in Int : BucketStart(x, l) = WeekStart(x)
    BY <1>7 DEF BucketStart, Length, Layers
  <2>2. BucketStart(t, l) = WeekStart(t) BY <2>1
  <2> QED BY <2>1, <2>2, WeekFacts
<1> QED BY <1>3, <1>4, <1>5, <1>6, <1>7 DEF Layers

LEMMA BucketIdempotent ==
  ASSUME NEW l \in Layers, NEW t \in Int
  PROVE  BucketStart(BucketStart(t, l), l) = BucketStart(t, l)
<1>1. Length[l] \in Nat \ {0} BY LengthFacts
<1> QED BY <1>1, BucketFacts

LEMMA BucketMonotone ==
  ASSUME NEW l \in Layers, NEW t \in Int, NEW u \in Int, t <= u
  PROVE  BucketStart(t, l) <= BucketStart(u, l)
<1>1. Length[l] \in Nat \ {0} BY LengthFacts
<1>2. /\ BucketStart(t, l) \in Int /\ BucketStart(u, l) \in Int
      /\ BucketStart(t, l) <= t /\ u < BucketStart(u, l) + Length[l]
  BY BucketFacts
<1>3. CASE BucketStart(u, l) <= t
  <2>1. t < BucketStart(u, l) + Length[l] BY <1>1, <1>2
  <2>2. BucketStart(t, l) = BucketStart(u, l) BY <1>3, <2>1, BucketFacts
  <2> QED BY <1>2, <2>2
<1>4. CASE ~(BucketStart(u, l) <= t) BY <1>2, <1>4
<1> QED BY <1>3, <1>4

LEMMA BucketsNest ==
  ASSUME NEW k \in Layers, NEW l \in Layers, <<k, l>> \in Filled, NEW t \in Int
  PROVE  /\ BucketStart(BucketStart(t, l), k) = BucketStart(t, l)
         /\ BucketStart(BucketStart(t, k), l) = BucketStart(t, l)
<1>1. /\ BucketTicks \in Nat \ {0} /\ HourTicks \in Nat \ {0} /\ DayTicks \in Nat \ {0}
      /\ WeekDays \in Nat \ {0} /\ MonthDays \in Nat \ {0}
  BY PyramidAssumption
<1>2. ASSUME NEW n \in Nat \ {0}, NEW m \in Nat \ {0}, m % n = 0
      PROVE  Multiple(m, n)
  <2>1. m = (m \div n) * n + (m % n) /\ m \div n \in Int BY Remainder, Quotient
  <2>2. (m \div n) * n \in Int BY <2>1
  <2>3. m = (m \div n) * n BY <1>2, <2>1, <2>2
  <2> QED BY <2>1, <2>3 DEF Multiple
<1>3. BucketStart(BucketStart(t, l), k) = BucketStart(t, l)
  <2>1. CASE k = "fine" /\ l = "hour"
    <3>1. Multiple(HourTicks, BucketTicks) BY <1>1, <1>2, PyramidAssumption
    <3>2. Multiple(Floor(t, HourTicks), BucketTicks)
      BY <1>1, <3>1, FloorIsMultiple, MultipleOfMultiple
    <3> QED BY <1>1, <2>1, <3>2, FloorOfMultiple DEF BucketStart
  <2>2. CASE k = "hour" /\ l = "day"
    <3>1. Multiple(DayTicks, HourTicks) BY <1>1, <1>2, PyramidAssumption
    <3>2. Multiple(Floor(t, DayTicks), HourTicks)
      BY <1>1, <3>1, FloorIsMultiple, MultipleOfMultiple
    <3> QED BY <1>1, <2>2, <3>2, FloorOfMultiple DEF BucketStart, DayStart
  <2>3. CASE k = "day" /\ l = "week"
    <3>1. Multiple(WeekStart(t), DayTicks) BY WeekFacts DEF Multiple
    <3> QED BY <1>1, <2>3, <3>1, FloorOfMultiple DEF BucketStart, DayStart
  <2>4. CASE k = "day" /\ l = "month"
    <3> DEFINE m == MonthDays * DayTicks
    <3>1. m \in Nat \ {0} /\ Multiple(m, DayTicks) BY <1>1 DEF Multiple
    <3>2. BucketStart(t, l) = Floor(t, m) BY <2>4 DEF BucketStart, MonthStart
    <3> HIDE DEF m
    <3>3. Multiple(Floor(t, m), DayTicks)
      BY <1>1, <3>1, FloorIsMultiple, MultipleOfMultiple
    <3> QED BY <1>1, <2>4, <3>2, <3>3, FloorOfMultiple DEF BucketStart, DayStart
  <2> QED BY <2>1, <2>2, <2>3, <2>4 DEF Filled
<1>4. BucketStart(BucketStart(t, k), l) = BucketStart(t, l)
  <2>1. /\ BucketStart(t, l) \in Int /\ BucketStart(t, l) <= t
        /\ t < BucketStart(t, l) + Length[l]
        /\ \A x \in Int : BucketStart(t, l) <= x /\ x < BucketStart(t, l) + Length[l]
              => BucketStart(x, l) = BucketStart(t, l)
    BY BucketFacts
  <2>2. BucketStart(t, k) \in Int /\ BucketStart(t, k) <= t BY BucketFacts
  <2>3. BucketStart(BucketStart(t, l), k) <= BucketStart(t, k) BY <2>1, BucketMonotone
  <2>4. Length[l] \in Nat BY LengthFacts
  <2> QED BY <1>3, <2>1, <2>2, <2>3, <2>4
<1> QED BY <1>3, <1>4

-----------------------------------------------------------------------------
(***************************************************************************)
(* Traffic tables: finitely many rows, each of which holds something.      *)
(***************************************************************************)
Table(f) ==
  /\ f = [b \in DOMAIN f |-> f[b]]
  /\ DOMAIN f \subseteq Int /\ IsFiniteSet(DOMAIN f)
  /\ \A b \in DOMAIN f : f[b] \in Nat \ {0}

Span(f, lo, hi) == SumFunctionOnSet(f, Between(f, lo, hi))

LEMMA ImageFinite ==
  ASSUME NEW S, IsFiniteSet(S), NEW f, DOMAIN f = S
  PROVE  IsFiniteSet({f[x] : x \in S})
<1> DEFINE T == {f[x] : x \in S}
           g == [x \in S |-> f[x]]
<1>1. g \in Surjection(S, T) BY DEF Surjection
<1> HIDE DEF T, g
<1>2. IsFiniteSet(T) BY <1>1, FS_Surjection
<1> QED BY <1>2 DEF T

LEMMA BetweenFacts ==
  ASSUME NEW f, Table(f), NEW lo, NEW hi
  PROVE  /\ Between(f, lo, hi) \subseteq DOMAIN f /\ IsFiniteSet(Between(f, lo, hi))
         /\ Span(f, lo, hi) \in Nat
         /\ \A T \in SUBSET DOMAIN f : IsFiniteSet(T) /\ SumFunctionOnSet(f, T) \in Nat
<1>1. ASSUME NEW T \in SUBSET DOMAIN f
      PROVE  IsFiniteSet(T) /\ SumFunctionOnSet(f, T) \in Nat
  <2>1. IsFiniteSet(T) BY FS_Subset DEF Table
  <2>2. \A b \in T : f[b] \in Nat BY DEF Table
  <2> QED BY <2>1, <2>2, SumNotNegative
<1>2. Between(f, lo, hi) \in SUBSET DOMAIN f BY DEF Between
<1> QED BY <1>1, <1>2 DEF Span

\* A span that is cut in two.
LEMMA SpanSplit ==
  ASSUME NEW f, Table(f), NEW lo \in Int, NEW mid \in Int, NEW hi \in Int,
         lo <= mid, mid <= hi
  PROVE  Span(f, lo, hi) = Span(f, lo, mid) + Span(f, mid, hi)
<1>1. /\ Between(f, lo, hi) = Between(f, lo, mid) \cup Between(f, mid, hi)
      /\ Between(f, lo, mid) \cap Between(f, mid, hi) = {}
  BY DEF Between, Table
<1>2. IsFiniteSet(Between(f, lo, mid)) /\ IsFiniteSet(Between(f, mid, hi))
  BY BetweenFacts
<1>3. \A b \in Between(f, lo, mid) \cup Between(f, mid, hi) : f[b] \in Int
  BY DEF Between, Table
<1> QED BY <1>1, <1>2, <1>3, SumUnion DEF Span

LEMMA SpanEmpty ==
  ASSUME NEW f, NEW lo \in Int, NEW hi \in Int, \A b \in DOMAIN f : b \in Int /\ ~(lo <= b /\ b < hi)
  PROVE  Span(f, lo, hi) = 0
<1>1. Between(f, lo, hi) = {} BY DEF Between
<1> QED BY <1>1, SumEmpty DEF Span

\* Spans of tables that agree there.
LEMMA SpanSame ==
  ASSUME NEW f, Table(f), NEW g, Table(g), NEW lo \in Int, NEW hi \in Int,
         \A b \in Int : lo <= b /\ b < hi => Row(g, b) = Row(f, b)
  PROVE  Span(g, lo, hi) = Span(f, lo, hi)
<1>1. ASSUME NEW b \in Int, lo <= b, b < hi
      PROVE  (b \in DOMAIN g <=> b \in DOMAIN f) /\ (b \in DOMAIN f => g[b] = f[b])
  BY <1>1 DEF Row, Table
<1>2. Between(g, lo, hi) = Between(f, lo, hi) BY <1>1 DEF Between, Table
<1>3. \A b \in Between(f, lo, hi) : f[b] \in Int /\ g[b] = f[b]
  BY <1>1 DEF Between, Table
<1>4. IsFiniteSet(Between(f, lo, hi)) BY BetweenFacts
<1> QED BY <1>2, <1>3, <1>4, SumSame DEF Span

PartOf(src, l, lo, hi, g) == {b \in Between(src, lo, hi) : BucketStart(b, l) = g}

IsRollup(r, src, l, lo, hi) ==
  /\ Table(r)
  /\ DOMAIN r = {BucketStart(b, l) : b \in Between(src, lo, hi)}
  /\ \A g \in DOMAIN r : r[g] = SumFunctionOnSet(src, PartOf(src, l, lo, hi, g))

LEMMA RollupFacts ==
  ASSUME NEW src, Table(src), NEW l \in Layers, NEW lo \in Int, NEW hi \in Int
  PROVE  IsRollup(Rollup(src, l, lo, hi), src, l, lo, hi)
<1> DEFINE used == Between(src, lo, hi)
           Part(g) == {b \in used : BucketStart(b, l) = g}
           r == Rollup(src, l, lo, hi)
           D == {BucketStart(b, l) : b \in used}
<1>1. r = [g \in D |-> SumFunctionOnSet(src, Part(g))]
  BY Zenon DEF Rollup
<1>2. used \subseteq DOMAIN src /\ IsFiniteSet(used) BY BetweenFacts
<1>3. IsFiniteSet(D)
  <2> DEFINE f == [b \in used |-> BucketStart(b, l)]
  <2>1. IsFiniteSet({f[b] : b \in used})
    <3>1. DOMAIN f = used OBVIOUS
    <3> HIDE DEF f, used
    <3> QED BY <1>2, <3>1, ImageFinite
  <2>2. {f[b] : b \in used} = D OBVIOUS
  <2> QED BY <2>1, <2>2
<1>4. D \subseteq Int
  <2>1. \A b \in used : b \in Int BY <1>2 DEF Table
  <2> HIDE DEF used
  <2> QED BY <2>1, BucketFacts
<1> HIDE DEF used
<1>5. ASSUME NEW g \in D PROVE SumFunctionOnSet(src, Part(g)) \in Nat \ {0}
  <2>1. Part(g) # {} OBVIOUS
  <2>2. Part(g) \in SUBSET used OBVIOUS
  <2>3. IsFiniteSet(Part(g)) BY <1>2, <2>2, FS_Subset
  <2>4. \A b \in Part(g) : src[b] \in Nat \ {0} BY <1>2 DEF Table
  <2> HIDE DEF Part
  <2> QED BY <2>1, <2>3, <2>4, SumPositive
<1> HIDE DEF Part, D
<1>6. DOMAIN r = D /\ \A g \in D : r[g] = SumFunctionOnSet(src, Part(g))
  <2> HIDE DEF r
  <2> QED BY <1>1
<1>7. Table(r)
  <2> HIDE DEF r
  <2> QED BY <1>1, <1>3, <1>4, <1>5, <1>6 DEF Table
<1> HIDE DEF r
<1> QED BY <1>6, <1>7 DEF D, Part, PartOf, used, r, IsRollup

IsOutside(o, f, lo, hi) ==
  /\ Table(o)
  /\ DOMAIN o \subseteq DOMAIN f
  /\ \A b \in Int : Row(o, b) = IF lo <= b /\ b < hi THEN 0 ELSE Row(f, b)

LEMMA OutsideFacts ==
  ASSUME NEW f, Table(f), NEW lo \in Int, NEW hi \in Int
  PROVE  IsOutside(Outside(f, lo, hi), f, lo, hi)
<1> DEFINE D == {b \in DOMAIN f : b < lo \/ b >= hi}
           o == Outside(f, lo, hi)
<1>1. o = [b \in D |-> f[b]] BY DEF Outside, Restrict
<1>2. IsFiniteSet(D) /\ D \subseteq DOMAIN f BY FS_Subset DEF Table
<1> HIDE DEF o
<1>3. DOMAIN o = D /\ \A b \in D : o[b] = f[b] BY <1>1
<1>4. Table(o) BY <1>1, <1>2, <1>3 DEF Table
<1>5. \A b \in Int : Row(o, b) = IF lo <= b /\ b < hi THEN 0 ELSE Row(f, b)
  BY <1>3 DEF Row
<1>6. IsOutside(o, f, lo, hi) BY <1>2, <1>3, <1>4, <1>5 DEF IsOutside
<1> QED BY <1>6 DEF o

IsInsert(h, f, g) ==
  /\ Table(h)
  /\ DOMAIN h = DOMAIN f \cup DOMAIN g
  /\ \A b \in Int : Row(h, b) = IF b \in DOMAIN f THEN f[b] ELSE Row(g, b)

LEMMA InsertFacts ==
  ASSUME NEW f, Table(f), NEW g, Table(g)
  PROVE  IsInsert(Insert(f, g), f, g)
<1> DEFINE D == DOMAIN f \cup DOMAIN g
           i == Insert(f, g)
<1>1. i = [b \in D |-> IF b \in DOMAIN f THEN f[b] ELSE g[b]] BY DEF Insert
<1>2. IsFiniteSet(D) /\ D \subseteq Int BY FS_Union DEF Table
<1> HIDE DEF i
<1>3. DOMAIN i = D /\ \A b \in D : i[b] = IF b \in DOMAIN f THEN f[b] ELSE g[b] BY <1>1
<1>4. \A b \in D : i[b] \in Nat \ {0} BY <1>3 DEF Table
<1>5. Table(i) BY <1>1, <1>2, <1>3, <1>4 DEF Table
<1>6. \A b \in Int : Row(i, b) = IF b \in DOMAIN f THEN f[b] ELSE Row(g, b)
  BY <1>3 DEF Row
<1>7. IsInsert(i, f, g) BY <1>3, <1>5, <1>6 DEF IsInsert
<1> QED BY <1>7 DEF i

\* Two tables with the same rows are the same.
LEMMA SameTable ==
  ASSUME NEW f, Table(f), NEW g, Table(g), \A b \in Int : Row(f, b) = Row(g, b)
  PROVE  f = g
<1>1. ASSUME NEW b \in Int
      PROVE  (b \in DOMAIN f <=> b \in DOMAIN g) /\ (b \in DOMAIN f => f[b] = g[b])
  BY DEF Row, Table
<1>2. DOMAIN f = DOMAIN g BY <1>1 DEF Table
<1>3. \A b \in DOMAIN f : f[b] = g[b] BY <1>1 DEF Table
<1>4. f = [b \in DOMAIN f |-> f[b]] /\ g = [b \in DOMAIN g |-> g[b]] BY DEF Table
<1> QED BY <1>2, <1>3, <1>4

Aligned(t, l) == t \in Int /\ BucketStart(t, l) = t

\* A bucket lies within an aligned range or outside of it.
LEMMA AlignedRange ==
  ASSUME NEW l \in Layers, NEW lo, Aligned(lo, l), NEW hi, Aligned(hi, l), NEW b \in Int
  PROVE  /\ lo <= b <=> lo <= BucketStart(b, l)
         /\ b < hi <=> BucketStart(b, l) < hi
         /\ BucketStart(b, l) < hi => BucketStart(b, l) + Length[l] <= hi
<1>1. /\ BucketStart(b, l) \in Int /\ BucketStart(b, l) <= b
      /\ b < BucketStart(b, l) + Length[l]
      /\ \A x \in Int : BucketStart(b, l) <= x /\ x < BucketStart(b, l) + Length[l]
              => BucketStart(x, l) = BucketStart(b, l)
  BY BucketFacts
<1>2. Length[l] \in Nat \ {0} BY LengthFacts
<1>3. lo <= b => lo <= BucketStart(b, l) BY BucketMonotone DEF Aligned
<1>4. BucketStart(b, l) < hi => BucketStart(b, l) + Length[l] <= hi
  BY <1>1, <1>2 DEF Aligned
<1> QED BY <1>1, <1>2, <1>3, <1>4 DEF Aligned

\* A bucket begins at a border, and the next one begins where it ends.
LEMMA NextBucket ==
  ASSUME NEW l \in Layers, NEW t \in Int
  PROVE  Aligned(BucketStart(t, l), l) /\ Aligned(BucketStart(t, l) + Length[l], l)
<1> DEFINE s == BucketStart(t, l)
<1>1. /\ s \in Int /\ s <= t /\ t < s + Length[l]
      /\ \A x \in Int : s <= x /\ x < s + Length[l] => BucketStart(x, l) = s
  BY BucketFacts
<1>2. Length[l] \in Nat \ {0} BY LengthFacts
<1>4. Aligned(s, l) BY <1>1, BucketIdempotent DEF Aligned
<1>5. Aligned(s + Length[l], l)
  <2> DEFINE e == s + Length[l]
             c == BucketStart(e, l)
  <2>1. e \in Int BY <1>1, <1>2
  <2>2. /\ c \in Int /\ c <= e /\ e < c + Length[l]
        /\ \A x \in Int : c <= x /\ x < c + Length[l] => BucketStart(x, l) = c
    BY <2>1, BucketFacts
  <2>3. CASE c < e
    <3>1. e - 1 \in Int /\ s <= e - 1 /\ e - 1 < s + Length[l] /\ c <= e - 1 /\ e - 1 < c + Length[l]
      BY <1>1, <1>2, <2>1, <2>2, <2>3
    <3> HIDE DEF c, e
    <3>2. c = s BY <1>1, <2>2, <3>1
    <3> QED BY <1>1, <1>2, <2>2, <3>2 DEF e
  <2>4. CASE c = e BY <2>1, <2>4 DEF Aligned
  <2> QED BY <2>1, <2>2, <2>3, <2>4
<1> QED BY <1>4, <1>5

\* What is deleted of a layer above the five-minute one: whole buckets, up to
\* the end of the range and less than a bucket further.
LEMMA RangeEnd ==
  ASSUME NEW l \in Layers, NEW to \in Int
  PROVE  LET hi == BucketRangeEnd(to, l) IN
         /\ Aligned(hi, l) /\ to <= hi
         /\ \A b \in Int : Aligned(b, l) /\ to <= b => hi <= b
<1> DEFINE s == BucketStart(to, l)
<1>1. /\ s \in Int /\ s <= to /\ to < s + Length[l]
      /\ \A x \in Int : s <= x /\ x < s + Length[l] => BucketStart(x, l) = s
  BY BucketFacts
<1>2. Length[l] \in Nat \ {0} BY LengthFacts
<1>3. BucketRangeEnd(to, l) = IF s = to THEN to ELSE s + Length[l] BY DEF BucketRangeEnd
<1>4. Aligned(s, l) BY <1>1, BucketIdempotent DEF Aligned
<1>5. Aligned(s + Length[l], l) BY NextBucket
<1>6. ASSUME NEW b \in Int, Aligned(b, l), to <= b, s # to PROVE s + Length[l] <= b
  BY <1>1, <1>2, <1>6 DEF Aligned
<1> HIDE DEF s
<1> QED BY <1>1, <1>2, <1>3, <1>4, <1>5, <1>6

BucketBytes(src, g, l) == IF Aligned(g, l) THEN Span(src, g, g + Length[l]) ELSE 0

\* The row that a bucket gets: what the rows of the layer below hold in it.
LEMMA RollupRow ==
  ASSUME NEW src, Table(src), NEW l \in Layers, NEW lo \in Int, NEW hi \in Int,
         NEW g \in Int,
         \A b \in DOMAIN src : BucketStart(b, l) = g => lo <= b /\ b < hi
  PROVE  Row(Rollup(src, l, lo, hi), g) = BucketBytes(src, g, l)
<1> DEFINE r == Rollup(src, l, lo, hi)
           Part == PartOf(src, l, lo, hi, g)
<1>1. /\ Table(r) /\ DOMAIN r = {BucketStart(b, l) : b \in Between(src, lo, hi)}
      /\ \A d \in DOMAIN r : r[d] = SumFunctionOnSet(src, PartOf(src, l, lo, hi, d))
  <2> HIDE DEF r
  <2>1. IsRollup(r, src, l, lo, hi) BY RollupFacts DEF r
  <2> QED BY <2>1 DEF IsRollup
<1> HIDE DEF r
<1>2. ASSUME NEW b \in DOMAIN src PROVE b \in Int /\ BucketStart(b, l) \in Int
  BY BucketFacts DEF Table
<1>3. CASE Aligned(g, l)
  <2>1. ASSUME NEW b \in DOMAIN src
        PROVE  BucketStart(b, l) = g <=> g <= b /\ b < g + Length[l]
    <3>1. g <= b /\ b < g + Length[l] => BucketStart(b, l) = g
      BY <1>2, <1>3, BucketFacts DEF Aligned
    <3>2. BucketStart(b, l) = g => g <= b /\ b < g + Length[l]
      BY <1>2, BucketFacts
    <3> QED BY <3>1, <3>2
  <2>2. Part = Between(src, g, g + Length[l]) BY <1>2, <2>1 DEF Between, PartOf
  <2>3. CASE g \in DOMAIN r
    <3>1. r[g] = SumFunctionOnSet(src, Part) BY <1>1, <2>3
    <3> QED BY <1>3, <2>2, <2>3, <3>1 DEF Row, r, BucketBytes, Span
  <2>4. CASE g \notin DOMAIN r
    <3>1. Part = {} BY <1>1, <2>4 DEF PartOf
    <3>2. Span(src, g, g + Length[l]) = 0 BY <2>2, <3>1, SumEmpty DEF Span
    <3> QED BY <1>3, <2>4, <3>2 DEF Row, r, BucketBytes
  <2> QED BY <2>3, <2>4
<1>4. CASE ~Aligned(g, l)
  <2>1. \A b \in Between(src, lo, hi) : BucketStart(b, l) # g
    BY <1>2, <1>4, BucketIdempotent DEF Aligned, Between
  <2>2. g \notin DOMAIN r BY <1>1, <2>1
  <2> QED BY <1>4, <2>2 DEF Row, r, BucketBytes
<1> QED BY <1>3, <1>4

\* A layer whose range was deleted and filled again from the layer below.
Refill(t, src, l, lo, hi) == Insert(Rollup(src, l, lo, hi), Outside(t, lo, hi))

IsRefill(f, t, src, l, lo, hi) ==
  /\ Table(f)
  /\ DOMAIN f \subseteq DOMAIN t \cup {BucketStart(b, l) : b \in DOMAIN src}
  /\ \A g \in Int : Row(f, g) = IF lo <= g /\ g < hi THEN BucketBytes(src, g, l)
                                                     ELSE Row(t, g)

LEMMA RefillFacts ==
  ASSUME NEW t, Table(t), NEW src, Table(src), NEW l \in Layers,
         NEW lo, Aligned(lo, l), NEW hi, Aligned(hi, l)
  PROVE  IsRefill(Refill(t, src, l, lo, hi), t, src, l, lo, hi)
<1> DEFINE r == Rollup(src, l, lo, hi)
           o == Outside(t, lo, hi)
           f == Refill(t, src, l, lo, hi)
<1>0. lo \in Int /\ hi \in Int BY DEF Aligned
<1>1. /\ Table(r)
      /\ DOMAIN r = {BucketStart(b, l) : b \in Between(src, lo, hi)}
  <2>1. IsRollup(Rollup(src, l, lo, hi), src, l, lo, hi) BY <1>0, RollupFacts
  <2> QED BY <2>1 DEF IsRollup
<1>2. /\ Table(o) /\ DOMAIN o \subseteq DOMAIN t
      /\ \A b \in Int : Row(o, b) = IF lo <= b /\ b < hi THEN 0 ELSE Row(t, b)
  BY <1>0, OutsideFacts DEF IsOutside
<1>3. /\ Table(f) /\ DOMAIN f = DOMAIN r \cup DOMAIN o
      /\ \A b \in Int : Row(f, b) = IF b \in DOMAIN r THEN r[b] ELSE Row(o, b)
  <2>1. f = Insert(r, o) BY DEF Refill
  <2> HIDE DEF f, r, o
  <2>2. IsInsert(Insert(r, o), r, o) BY <1>1, <1>2, InsertFacts
  <2> QED BY <2>1, <2>2 DEF IsInsert
<1>4. ASSUME NEW b \in DOMAIN src
      PROVE  b \in Int /\ (lo <= b /\ b < hi <=> lo <= BucketStart(b, l) /\ BucketStart(b, l) < hi)
  BY AlignedRange DEF Table
<1>5. ASSUME NEW g \in DOMAIN r PROVE g \in Int /\ lo <= g /\ g < hi
  BY <1>0, <1>1, <1>4, BucketFacts DEF Between
<1>6. ASSUME NEW g \in Int, lo <= g, g < hi PROVE Row(r, g) = BucketBytes(src, g, l)
  BY <1>0, <1>4, <1>6, RollupRow
<1>7. ASSUME NEW g \in Int
      PROVE  Row(f, g) = IF lo <= g /\ g < hi THEN BucketBytes(src, g, l) ELSE Row(t, g)
  <2> HIDE DEF f, o, r
  <2>1. CASE lo <= g /\ g < hi
    <3>1. Row(f, g) = Row(r, g) BY <1>2, <1>3, <2>1 DEF Row
    <3> QED BY <1>6, <2>1, <3>1
  <2>2. CASE ~(lo <= g /\ g < hi)
    <3>1. g \notin DOMAIN r BY <1>5, <2>2
    <3> QED BY <1>2, <1>3, <2>2, <3>1
  <2> QED BY <2>1, <2>2
<1>8. DOMAIN f \subseteq DOMAIN t \cup {BucketStart(b, l) : b \in DOMAIN src}
  BY <1>1, <1>2, <1>3 DEF Between
<1> HIDE DEF f
<1> QED BY <1>3, <1>7, <1>8 DEF f, IsRefill

\* A bucket that held the sum of the rows below it does so again when the range
\* has been filled from rows that differ from the former ones in that range only.
LEMMA RefillAgrees ==
  ASSUME NEW t, Table(t), NEW old, Table(old), NEW src, Table(src), NEW l \in Layers,
         NEW lo, Aligned(lo, l), NEW hi, Aligned(hi, l), NEW f, IsRefill(f, t, src, l, lo, hi),
         \A b \in Int : ~(lo <= b /\ b < hi) => Row(src, b) = Row(old, b),
         NEW g \in Int, ~(lo <= g /\ g < hi) => Row(t, g) = BucketBytes(old, g, l)
  PROVE  Row(f, g) = BucketBytes(src, g, l)
<1>1. \A h \in Int : Row(f, h) = IF lo <= h /\ h < hi THEN BucketBytes(src, h, l)
                                                      ELSE Row(t, h)
  BY DEF IsRefill
<1>2. CASE lo <= g /\ g < hi BY <1>1, <1>2
<1>3. CASE ~(lo <= g /\ g < hi)
  <2>1. Row(f, g) = BucketBytes(old, g, l) BY <1>1, <1>3
  <2>2. BucketBytes(old, g, l) = BucketBytes(src, g, l)
    <3>1. CASE ~Aligned(g, l) BY <3>1 DEF BucketBytes
    <3>2. CASE Aligned(g, l)
      <4>1. Length[l] \in Nat \ {0} BY LengthFacts
      <4>2. ASSUME NEW b \in Int, g <= b, b < g + Length[l]
            PROVE  ~(lo <= b /\ b < hi)
        <5>1. BucketStart(b, l) = g BY <3>2, <4>2, BucketFacts DEF Aligned
        <5> QED BY <1>3, <5>1, AlignedRange
      <4>3. Span(src, g, g + Length[l]) = Span(old, g, g + Length[l])
        BY <4>1, <4>2, SpanSame
      <4> QED BY <3>2, <4>3 DEF BucketBytes
    <3> QED BY <3>1, <3>2
  <2> QED BY <2>1, <2>2
<1> QED BY <1>2, <1>3

-----------------------------------------------------------------------------
(***************************************************************************)
(* Samples and the five-minute rows that are made of them.                 *)
(***************************************************************************)
Samples(S) == IsFiniteSet(S) /\ \A s \in S : s.at \in Int /\ s.bytes \in Nat

LEMMA NewestExists ==
  ASSUME NEW S, Samples(S), S # {}
  PROVE  \E s \in S : \A o \in S : o.at <= s.at
<1> DEFINE good == {T \in SUBSET S : T = {} \/ \E m \in T : \A x \in T : x.at <= m.at}
<1>1. {} \in good OBVIOUS
<1>2. ASSUME NEW T \in SUBSET S, NEW x \in S \ T, T \in good PROVE T \cup {x} \in good
  <2>1. \A y \in S : y.at \in Int BY DEF Samples
  <2>2. CASE T = {} BY <2>1, <2>2
  <2>3. CASE T # {}
    <3>1. PICK m \in T : \A y \in T : y.at <= m.at BY <1>2, <2>3
    <3>2. CASE x.at <= m.at BY <3>1, <3>2
    <3>3. CASE ~(x.at <= m.at)
      <4>1. \A y \in T \cup {x} : y.at <= x.at BY <2>1, <3>1, <3>3
      <4> QED BY <4>1
    <3> QED BY <3>2, <3>3
  <2> QED BY <2>2, <2>3
<1> HIDE DEF good
<1>3. S \in good BY <1>1, <1>2, InsertionInduction DEF Samples
<1> QED BY <1>3 DEF good

LEMMA AtLeastNothing ==
  ASSUME NEW x \in Int
  PROVE  Max({0, x}) \in Nat /\ Max({0, x}) = IF x <= 0 THEN 0 ELSE x
<1>1. CASE x <= 0 BY <1>1, MaxIs
<1>2. CASE ~(x <= 0) BY <1>2, MaxIs
<1> QED BY <1>1, <1>2

LEMMA DeltasFacts ==
  ASSUME NEW S, Samples(S)
  PROVE  /\ Samples(Deltas(S))
         /\ \A d \in Deltas(S) : \E s \in S : d.at = s.at
         /\ \A s \in S : S = {s} => Deltas(S) = {[at |-> s.at, bytes |-> s.bytes]}
<1> DEFINE Before(s) == {p \in S : p.at < s.at}
           Previous(s) == CHOOSE p \in Before(s) : \A q \in Before(s) : q.at <= p.at
           Gain(s) == IF Before(s) = {} THEN s.bytes
                                        ELSE Max({0, s.bytes - Previous(s).bytes})
           D == {[at |-> s.at, bytes |-> Gain(s)] : s \in S}
<1>1. Deltas(S) = D BY Zenon DEF Deltas
<1>2. ASSUME NEW s \in S PROVE Gain(s) \in Nat
  <2>1. CASE Before(s) = {} BY <2>1 DEF Samples
  <2>2. CASE Before(s) # {}
    <3>1. Samples(Before(s)) BY FS_Subset DEF Samples
    <3> DEFINE B == Before(s)
    <3> HIDE DEF B
    <3>2. \E p \in B : \A q \in B : q.at <= p.at BY <2>2, <3>1, NewestExists DEF B
    <3>3. Previous(s) \in Before(s) BY <3>2 DEF B
    <3>4. Previous(s).bytes \in Nat /\ s.bytes \in Nat BY <3>3 DEF Samples
    <3> HIDE DEF Previous
    <3>5. s.bytes - Previous(s).bytes \in Int BY <3>4
    <3>6. Max({0, s.bytes - Previous(s).bytes}) \in Nat BY <3>5, AtLeastNothing
    <3> QED BY <2>2, <3>6
  <2> QED BY <2>1, <2>2
<1> HIDE DEF Gain
<1>3. IsFiniteSet(D)
  <2> DEFINE f == [s \in S |-> [at |-> s.at, bytes |-> Gain(s)]]
  <2>1. IsFiniteSet({f[s] : s \in S})
    <3>1. DOMAIN f = S OBVIOUS
    <3> HIDE DEF f
    <3> QED BY <3>1, ImageFinite DEF Samples
  <2>2. {f[s] : s \in S} = D OBVIOUS
  <2> QED BY <2>1, <2>2
<1>4. \A d \in D : \E s \in S : d.at = s.at /\ d.bytes = Gain(s) OBVIOUS
<1>5. Samples(D) BY <1>2, <1>3, <1>4 DEF Samples
<1>6. ASSUME NEW s \in S, S = {s} PROVE D = {[at |-> s.at, bytes |-> s.bytes]}
  <2>1. s.at \in Int BY DEF Samples
  <2>2. Before(s) = {} BY <1>6, <2>1
  <2>3. Gain(s) = s.bytes BY <2>2 DEF Gain
  <2> QED BY <1>6, <2>3
<1> HIDE DEF D
<1> QED BY <1>1, <1>4, <1>5, <1>6

LEMMA GainedIsSum ==
  ASSUME NEW S, Samples(S)
  PROVE  Gained(S) = SumFunctionOnSet([s \in S |-> s.bytes], S)
<1> DEFINE g == [f \in S |-> f.bytes]
           Adds(h) == h = [s \in SUBSET S |-> IF s = {} THEN 0
                ELSE (CHOOSE x \in s : TRUE).bytes + h[s \ {CHOOSE x \in s : TRUE}]]
<1>1. PICK F : IsSum(F, g, S) /\ \A s \in SUBSET S : SumFunctionOnSet(g, s) = F[s]
  BY SumsExist DEF Samples
<1>2. ASSUME NEW s \in SUBSET S, s # {}
      PROVE  g[CHOOSE x \in s : TRUE] = (CHOOSE x \in s : TRUE).bytes
  <2>1. (CHOOSE x \in s : TRUE) \in s BY <1>2
  <2> QED BY <2>1
<1> HIDE DEF g
<1>3. ASSUME NEW h PROVE Adds(h) <=> Iterates(h, g, S)
  BY <1>2 DEF Iterates
<1>4. Iterates(F, g, S) BY <1>1, SumIterates
<1>5. Adds(CHOOSE h : Adds(h))
  <2>1. Adds(F) BY <1>3, <1>4
  <2> QED BY <2>1, Zenon
<1>6. Gained(S) = (CHOOSE h : Adds(h))[S]
  BY Zenon DEF Gained, MapThenSumSet, MapThenFoldSet
<1> HIDE DEF Adds
<1>7. (CHOOSE h : Adds(h))[S] = F[S]
  BY <1>1, <1>3, <1>5, IterationIsSum DEF Samples
<1>8. S \in SUBSET S OBVIOUS
<1> QED BY <1>1, <1>6, <1>7, <1>8 DEF g

LEMMA FineRowsFacts ==
  ASSUME NEW S, Samples(S)
  PROVE  /\ Table(FineRows(S))
         /\ \A b \in DOMAIN FineRows(S) : \E s \in S : b = BucketStart(s.at, "fine")
<1> DEFINE gained == {d \in Deltas(S) : d.bytes > 0}
           Part(g) == {d \in gained : BucketStart(d.at, "fine") = g}
           D == {BucketStart(d.at, "fine") : d \in gained}
           r == FineRows(S)
<1>1. r = [g \in D |-> Gained(Part(g))] BY Zenon DEF FineRows
<1>2. Samples(gained) /\ \A d \in gained : d.bytes \in Nat \ {0}
  BY DeltasFacts, FS_Subset DEF Samples
<1>3. \A d \in gained : \E s \in S : d.at = s.at BY DeltasFacts
<1> HIDE DEF gained
<1>4. IsFiniteSet(D)
  <2> DEFINE f == [d \in gained |-> BucketStart(d.at, "fine")]
  <2>1. IsFiniteSet({f[d] : d \in gained})
    <3>1. DOMAIN f = gained OBVIOUS
    <3> HIDE DEF f
    <3> QED BY <1>2, <3>1, ImageFinite DEF Samples
  <2>2. {f[d] : d \in gained} = D OBVIOUS
  <2> QED BY <2>1, <2>2
<1>5. D \subseteq Int
  <2>1. "fine" \in Layers BY DEF Layers
  <2>2. \A d \in gained : d.at \in Int BY <1>2 DEF Samples
  <2> QED BY <2>1, <2>2, BucketFacts
<1>6. ASSUME NEW g \in D PROVE Gained(Part(g)) \in Nat \ {0}
  <2>1. Part(g) # {} /\ Part(g) \in SUBSET gained OBVIOUS
  <2>2. Samples(Part(g)) BY <1>2, <2>1, FS_Subset DEF Samples
  <2> DEFINE f == [d \in Part(g) |-> d.bytes]
             p == Part(g)
  <2>3. \A d \in p : f[d] \in Nat \ {0} BY <1>2
  <2>4. Gained(p) = SumFunctionOnSet(f, p) BY <2>2, GainedIsSum
  <2>5. IsFiniteSet(p) /\ p # {} BY <2>1, <2>2 DEF Samples
  <2> HIDE DEF f, p
  <2>6. SumFunctionOnSet(f, p) \in Nat \ {0} BY <2>3, <2>5, SumPositive
  <2> QED BY <2>4, <2>6 DEF p
<1> HIDE DEF Part
<1>7. \A b \in D : \E s \in S : b = BucketStart(s.at, "fine") BY <1>3
<1> HIDE DEF D, r
<1>8. DOMAIN r = D /\ \A g \in D : r[g] = Gained(Part(g)) BY <1>1
<1>9. Table(r) BY <1>1, <1>4, <1>5, <1>6, <1>8 DEF Table
<1> QED BY <1>7, <1>8, <1>9 DEF r

\* A single sample gives its own bucket all that it has counted.
LEMMA FineRowsOfOne ==
  ASSUME NEW s, Samples({s}), NEW b \in Int
  PROVE  Row(FineRows({s}), b) = IF b = BucketStart(s.at, "fine") THEN s.bytes ELSE 0
<1> DEFINE d == [at |-> s.at, bytes |-> s.bytes]
           gained == {e \in Deltas({s}) : e.bytes > 0}
           Part(g) == {e \in gained : BucketStart(e.at, "fine") = g}
           D == {BucketStart(e.at, "fine") : e \in gained}
           r == FineRows({s})
<1>1. r = [g \in D |-> Gained(Part(g))] BY Zenon DEF FineRows
<1>2. Deltas({s}) = {d} BY DeltasFacts
<1>3. s.bytes \in Nat BY DEF Samples
<1> HIDE DEF r
<1>4. CASE s.bytes = 0
  <2>1. D = {} BY <1>2, <1>4
  <2>2. DOMAIN r = {} BY <1>1, <2>1
  <2> QED BY <1>4, <2>2 DEF Row, r
<1>5. CASE s.bytes # 0
  <2>0. d.at = s.at /\ d.bytes = s.bytes /\ s.at \in Int BY DEF Samples
  <2>1. gained = {d} BY <1>2, <1>3, <1>5
  <2> HIDE DEF d, gained
  <2>2. D = {BucketStart(s.at, "fine")} BY <2>0, <2>1
  <2>3. Part(BucketStart(s.at, "fine")) = {d} BY <2>0, <2>1
  <2>4. Samples({d})
    <3>1. IsFiniteSet({d}) BY FS_Singleton
    <3> QED BY <1>3, <2>0, <3>1 DEF Samples
  <2> DEFINE f == [e \in {d} |-> e.bytes]
  <2>5. Gained({d}) = SumFunctionOnSet(f, {d}) BY <2>4, GainedIsSum
  <2>6. f[d] = s.bytes BY <2>0
  <2> HIDE DEF f
  <2>7. SumFunctionOnSet(f, {} \cup {d}) = f[d] + SumFunctionOnSet(f, {})
    <3>1. f[d] \in Int BY <1>3, <2>6
    <3>2. d \notin {} /\ \A y \in {} : f[y] \in Int OBVIOUS
    <3> QED BY <3>1, <3>2, FS_EmptySet, SumAdd
  <2>8. {} \cup {d} = {d} OBVIOUS
  <2>9. Gained({d}) = s.bytes BY <1>3, <2>5, <2>6, <2>7, <2>8, SumEmpty
  <2> HIDE DEF Part, D
  <2>10. DOMAIN r = {BucketStart(s.at, "fine")} /\ \A g \in DOMAIN r : r[g] = Gained(Part(g))
    BY <1>1, <2>2
  <2> QED BY <2>3, <2>9, <2>10 DEF Row, r
<1> QED BY <1>4, <1>5

-----------------------------------------------------------------------------
(***************************************************************************)
(* Rebuilding a range of every layer.                                      *)
(***************************************************************************)
Tables(t) == t = [l \in Layers |-> t[l]] /\ \A l \in Layers : Table(t[l])

\* The instants up to which rows of the three lower layers may have expired.
Cuts(c) == c.fine \in Int /\ c.hour \in Int /\ c.day \in Int

\* Every row of a layer is the sum of the rows below it, from where both layers
\* are kept.
Agree(t, c) ==
  /\ \A g \in Int : g >= c.fine /\ g >= c.hour => Row(t.hour, g) = BucketBytes(t.fine, g, "hour")
  /\ \A g \in Int : g >= c.hour /\ g >= c.day => Row(t.day, g) = BucketBytes(t.hour, g, "day")
  /\ \A g \in Int : g >= c.day => Row(t.week, g) = BucketBytes(t.day, g, "week")
  /\ \A g \in Int : g >= c.day => Row(t.month, g) = BucketBytes(t.day, g, "month")

\* The three lower layers hold nothing that is older than the clock's first
\* tick or newer than c.
Past(t, c) == \A l \in {"fine", "hour", "day"} : \A b \in DOMAIN t[l] : 0 <= b /\ b <= c

LEMMA RangesNest ==
  ASSUME NEW k \in Layers, NEW l \in Layers, <<k, l>> \in Filled,
         NEW from \in Int, NEW to \in Int
  PROVE  /\ BucketStart(from, l) <= BucketStart(from, k)
         /\ BucketRangeEnd(to, k) <= BucketRangeEnd(to, l)
<1>1. BucketStart(from, l) <= BucketStart(from, k)
  <2>1. BucketStart(BucketStart(from, l), k) = BucketStart(from, l) BY BucketsNest
  <2>2. BucketStart(from, l) \in Int /\ BucketStart(from, l) <= from BY BucketFacts
  <2> QED BY <2>1, <2>2, BucketMonotone
<1>2. BucketRangeEnd(to, k) <= BucketRangeEnd(to, l)
  <2> DEFINE e == BucketRangeEnd(to, l)
  <2>1. Aligned(e, l) /\ to <= e BY RangeEnd
  <2>2. e \in Int /\ BucketStart(e, l) = e BY <2>1 DEF Aligned
  <2> HIDE DEF e
  <2>3. BucketStart(BucketStart(e, l), k) = BucketStart(e, l) BY <2>2, BucketsNest
  <2>4. Aligned(e, k) BY <2>2, <2>3 DEF Aligned
  <2>5. \A b \in Int : Aligned(b, k) /\ to <= b => BucketRangeEnd(to, k) <= b BY RangeEnd
  <2> QED BY <2>1, <2>2, <2>4, <2>5 DEF e
<1> QED BY <1>1, <1>2

IsRebuilt(n, t, S, from, to) ==
  /\ n = [l \in Layers |-> n[l]]
  /\ n.fine = Insert(FineRows(InRange(S, from, to)),
                     Outside(t.fine, BucketStart(from, "fine"), to))
  /\ n.hour = Refill(t.hour, n.fine, "hour", BucketStart(from, "hour"), BucketRangeEnd(to, "hour"))
  /\ n.day = Refill(t.day, n.hour, "day", BucketStart(from, "day"), BucketRangeEnd(to, "day"))
  /\ n.week = Refill(t.week, n.day, "week", BucketStart(from, "week"), BucketRangeEnd(to, "week"))
  /\ n.month = Refill(t.month, n.day, "month", BucketStart(from, "month"),
                      BucketRangeEnd(to, "month"))

LEMMA RebuildIsRebuilt ==
  ASSUME NEW t, NEW S, NEW from, NEW to
  PROVE  IsRebuilt(RebuildRange(t, S, from, to), t, S, from, to)
BY Zenon DEF IsRebuilt, RebuildRange, Refill, Layers
\* The range of the next layer covers that of the layer it is filled from.
IsRange(lo, hi, l) == Aligned(lo, l) /\ Aligned(hi, l)

LEMMA RangesAligned ==
  ASSUME NEW l \in Layers, NEW from \in Int, NEW to \in Int
  PROVE  IsRange(BucketStart(from, l), BucketRangeEnd(to, l), l)
<1>1. Aligned(BucketStart(from, l), l)
  BY BucketFacts, BucketIdempotent DEF Aligned
<1>2. Aligned(BucketRangeEnd(to, l), l) BY RangeEnd
<1> QED BY <1>1, <1>2 DEF IsRange

\* What a rebuild of [from, to) makes of each layer.
RebuildsTo(n, t, S, from, to) ==
  /\ Tables(n)
  /\ \A b \in Int : Row(n.fine, b) =
       IF BucketStart(from, "fine") <= b /\ b < to THEN Row(FineRows(InRange(S, from, to)), b)
                                                   ELSE Row(t.fine, b)
  /\ \A b \in DOMAIN n.fine :
       b \in DOMAIN t.fine \/ \E s \in InRange(S, from, to) : b = BucketStart(s.at, "fine")
  /\ IsRefill(n.hour, t.hour, n.fine, "hour", BucketStart(from, "hour"), BucketRangeEnd(to, "hour"))
  /\ IsRefill(n.day, t.day, n.hour, "day", BucketStart(from, "day"), BucketRangeEnd(to, "day"))
  /\ IsRefill(n.week, t.week, n.day, "week", BucketStart(from, "week"), BucketRangeEnd(to, "week"))
  /\ IsRefill(n.month, t.month, n.day, "month", BucketStart(from, "month"),
              BucketRangeEnd(to, "month"))

LEMMA RefillOfRange ==
  ASSUME NEW t, Table(t), NEW src, Table(src), NEW l \in Layers,
         NEW from \in Int, NEW to \in Int, NEW f,
         f = Refill(t, src, l, BucketStart(from, l), BucketRangeEnd(to, l))
  PROVE  Table(f) /\ IsRefill(f, t, src, l, BucketStart(from, l), BucketRangeEnd(to, l))
<1> DEFINE lo == BucketStart(from, l)
           hi == BucketRangeEnd(to, l)
<1>1. IsRange(lo, hi, l) BY RangesAligned
<1> HIDE DEF lo, hi
<1>2. Aligned(lo, l) /\ Aligned(hi, l) BY <1>1 DEF IsRange
<1>3. IsRefill(Refill(t, src, l, lo, hi), t, src, l, lo, hi) BY <1>2, RefillFacts
<1>4. IsRefill(f, t, src, l, lo, hi) BY <1>3 DEF lo, hi
<1>5. Table(f) BY <1>4 DEF IsRefill
<1> QED BY <1>4, <1>5 DEF lo, hi

LEMMA RebuildFacts ==
  ASSUME NEW t, Tables(t), NEW S, Samples(S), NEW from \in Int, NEW to \in Int
  PROVE  RebuildsTo(RebuildRange(t, S, from, to), t, S, from, to)
<1> DEFINE n == RebuildRange(t, S, from, to)
           I == InRange(S, from, to)
           F == FineRows(I)
           lo == BucketStart(from, "fine")
           o == Outside(t.fine, lo, to)
<1>1. IsRebuilt(n, t, S, from, to) BY RebuildIsRebuilt
<1> HIDE DEF n
<1>2. Samples(I)
  <2>1. I \subseteq S BY DEF InRange
  <2>2. IsFiniteSet(I) BY <2>1, FS_Subset DEF Samples
  <2> QED BY <2>1, <2>2 DEF Samples
<1>3. /\ Table(t.fine) /\ Table(t.hour) /\ Table(t.day) /\ Table(t.week) /\ Table(t.month)
      /\ {"fine", "hour", "day", "week", "month"} = Layers
  BY DEF Tables, Layers
<1>4. Table(F) /\ \A b \in DOMAIN F : \E s \in I : b = BucketStart(s.at, "fine")
  <2> HIDE DEF I
  <2> QED BY <1>2, FineRowsFacts
<1>5. lo \in Int BY BucketFacts, <1>3
<1>6. /\ Table(o) /\ DOMAIN o \subseteq DOMAIN t.fine
      /\ \A b \in Int : Row(o, b) = IF lo <= b /\ b < to THEN 0 ELSE Row(t.fine, b)
  <2> HIDE DEF lo
  <2> QED BY <1>3, <1>5, OutsideFacts DEF IsOutside
<1>7. n.fine = Insert(F, o) BY <1>1 DEF IsRebuilt
<1>8. \A s \in I : s.at \in Int /\ from <= s.at /\ s.at < to BY <1>2 DEF InRange, Samples
<1>9. \A b \in DOMAIN F : b \in Int /\ lo <= b /\ b < to
  <2>1. ASSUME NEW s \in I
        PROVE  /\ BucketStart(s.at, "fine") \in Int
               /\ lo <= BucketStart(s.at, "fine") /\ BucketStart(s.at, "fine") < to
    <3>1. s.at \in Int /\ from <= s.at /\ s.at < to BY <1>8
    <3>2. BucketStart(s.at, "fine") \in Int /\ BucketStart(s.at, "fine") <= s.at
      BY <1>3, <3>1, BucketFacts
    <3>3. lo <= BucketStart(s.at, "fine") BY <1>3, <3>1, BucketMonotone
    <3> QED BY <3>1, <3>2, <3>3
  <2> HIDE DEF F, lo, I
  <2> QED BY <1>4, <2>1
<1> HIDE DEF F, lo, o
<1>10. /\ Table(n.fine) /\ DOMAIN n.fine = DOMAIN F \cup DOMAIN o
       /\ \A b \in Int : Row(n.fine, b) = IF b \in DOMAIN F THEN F[b] ELSE Row(o, b)
  <2>1. Table(F) /\ Table(o) BY <1>4, <1>6
  <2>2. IsInsert(Insert(F, o), F, o) BY <2>1, InsertFacts
  <2> QED BY <1>7, <2>2 DEF IsInsert
<1>11. \A b \in Int : Row(n.fine, b) = IF lo <= b /\ b < to THEN Row(F, b) ELSE Row(t.fine, b)
  BY <1>6, <1>9, <1>10 DEF Row
<1>12. \A b \in DOMAIN n.fine : b \in DOMAIN t.fine \/ \E s \in I : b = BucketStart(s.at, "fine")
  BY <1>4, <1>6, <1>10
<1>13. /\ Table(n.hour)
       /\ IsRefill(n.hour, t.hour, n.fine, "hour", BucketStart(from, "hour"), BucketRangeEnd(to, "hour"))
  <2>1. n.hour = Refill(t.hour, n.fine, "hour", BucketStart(from, "hour"), BucketRangeEnd(to, "hour"))
    BY <1>1 DEF IsRebuilt
  <2> QED BY <1>3, <1>10, <2>1, RefillOfRange
<1>14. /\ Table(n.day)
       /\ IsRefill(n.day, t.day, n.hour, "day", BucketStart(from, "day"), BucketRangeEnd(to, "day"))
  <2>1. n.day = Refill(t.day, n.hour, "day", BucketStart(from, "day"), BucketRangeEnd(to, "day"))
    BY <1>1 DEF IsRebuilt
  <2> QED BY <1>3, <1>13, <2>1, RefillOfRange
<1>15. /\ Table(n.week)
       /\ IsRefill(n.week, t.week, n.day, "week", BucketStart(from, "week"), BucketRangeEnd(to, "week"))
  <2>1. n.week = Refill(t.week, n.day, "week", BucketStart(from, "week"), BucketRangeEnd(to, "week"))
    BY <1>1 DEF IsRebuilt
  <2> QED BY <1>3, <1>14, <2>1, RefillOfRange
<1>16. /\ Table(n.month)
       /\ IsRefill(n.month, t.month, n.day, "month", BucketStart(from, "month"), BucketRangeEnd(to, "month"))
  <2>1. n.month = Refill(t.month, n.day, "month", BucketStart(from, "month"), BucketRangeEnd(to, "month"))
    BY <1>1 DEF IsRebuilt
  <2> QED BY <1>3, <1>14, <2>1, RefillOfRange
<1>17. Tables(n)
  <2>1. n = [l \in Layers |-> n[l]] BY <1>1 DEF IsRebuilt
  <2>2. \A l \in Layers : Table(n[l])
    BY <1>10, <1>13, <1>14, <1>15, <1>16 DEF Layers
  <2> QED BY <2>1, <2>2 DEF Tables
<1>18. RebuildsTo(n, t, S, from, to)
  BY <1>11, <1>12, <1>13, <1>14, <1>15, <1>16, <1>17 DEF RebuildsTo, F, lo, I
<1> QED BY <1>18 DEF n
\* A bucket that held the sum of the rows below it does so after a rebuild.
LEMMA RangeAgrees ==
  ASSUME NEW t, Table(t), NEW old, Table(old), NEW src, Table(src),
         NEW k \in Layers, NEW l \in Layers, <<k, l>> \in Filled,
         NEW from \in Int, NEW to \in Int, NEW f,
         IsRefill(f, t, src, l, BucketStart(from, l), BucketRangeEnd(to, l)),
         \A b \in Int : ~(BucketStart(from, k) <= b /\ b < BucketRangeEnd(to, k))
                          => Row(src, b) = Row(old, b),
         NEW g \in Int, Row(t, g) = BucketBytes(old, g, l)
  PROVE  Row(f, g) = BucketBytes(src, g, l)
<1> DEFINE lo == BucketStart(from, l)
           hi == BucketRangeEnd(to, l)
<1>1. IsRange(lo, hi, l) BY RangesAligned
<1>2. IsRange(BucketStart(from, k), BucketRangeEnd(to, k), k) BY RangesAligned
<1>3. lo <= BucketStart(from, k) /\ BucketRangeEnd(to, k) <= hi BY RangesNest
<1>4. \A b \in Int : ~(lo <= b /\ b < hi) => Row(src, b) = Row(old, b)
  <2> HIDE DEF lo, hi
  <2>1. lo \in Int /\ hi \in Int BY <1>1 DEF IsRange, Aligned
  <2>2. BucketStart(from, k) \in Int /\ BucketRangeEnd(to, k) \in Int
    BY <1>2 DEF IsRange, Aligned
  <2> QED BY <1>3, <2>1, <2>2
<1>5. IsRefill(f, t, src, l, lo, hi) OBVIOUS
<1> HIDE DEF lo, hi
<1> QED BY <1>1, <1>4, <1>5, RefillAgrees DEF IsRange

\* A rebuild of any range keeps the layers in agreement: where hourly, daily, weekly
\* and monthly rows agreed with the rows they are made of, from where these are kept,
\* they still do after rebuildTrafficAggregates, inside the range and outside it.
THEOREM RebuildAgrees ==
  ASSUME NEW t, Tables(t), NEW S, NEW from \in Int, NEW to \in Int,
         NEW n, RebuildsTo(n, t, S, from, to), NEW c, Agree(t, c)
  PROVE  Agree(n, c)
<1>1. /\ Table(t.fine) /\ Table(t.hour) /\ Table(t.day) /\ Table(t.week) /\ Table(t.month)
      /\ {"fine", "hour", "day", "week", "month"} = Layers
  BY DEF Tables, Layers
<1>2. Table(n.fine) /\ Table(n.hour) /\ Table(n.day) /\ Table(n.week) /\ Table(n.month)
  BY DEF RebuildsTo, Tables, Layers
<1>3. \A b \in Int : ~(BucketStart(from, "fine") <= b /\ b < BucketRangeEnd(to, "fine"))
                       => Row(n.fine, b) = Row(t.fine, b)
  <2> DEFINE lo == BucketStart(from, "fine")
             hi == BucketRangeEnd(to, "fine")
  <2>1. \A b \in Int : ~(lo <= b /\ b < to) => Row(n.fine, b) = Row(t.fine, b)
    BY DEF RebuildsTo
  <2>2. Aligned(hi, "fine") /\ to <= hi BY <1>1, RangeEnd
  <2>3. hi \in Int BY <2>2 DEF Aligned
  <2>4. lo \in Int BY <1>1, BucketFacts
  <2> HIDE DEF lo, hi
  <2>5. ASSUME NEW b \in Int, ~(lo <= b /\ b < hi) PROVE ~(lo <= b /\ b < to)
    BY <2>2, <2>3, <2>4, <2>5
  <2> QED BY <2>1, <2>5 DEF lo, hi
<1>4. IsRefill(n.hour, t.hour, n.fine, "hour", BucketStart(from, "hour"), BucketRangeEnd(to, "hour"))
  BY DEF RebuildsTo
<1>5. IsRefill(n.day, t.day, n.hour, "day", BucketStart(from, "day"), BucketRangeEnd(to, "day"))
  BY DEF RebuildsTo
<1>6. /\ IsRefill(n.week, t.week, n.day, "week", BucketStart(from, "week"), BucketRangeEnd(to, "week"))
      /\ IsRefill(n.month, t.month, n.day, "month", BucketStart(from, "month"), BucketRangeEnd(to, "month"))
  BY DEF RebuildsTo
<1>7. \A b \in Int : ~(BucketStart(from, "hour") <= b /\ b < BucketRangeEnd(to, "hour"))
                       => Row(n.hour, b) = Row(t.hour, b)
  BY <1>4 DEF IsRefill
<1>8. \A b \in Int : ~(BucketStart(from, "day") <= b /\ b < BucketRangeEnd(to, "day"))
                       => Row(n.day, b) = Row(t.day, b)
  BY <1>5 DEF IsRefill
<1>9. ASSUME NEW g \in Int, g >= c.fine, g >= c.hour
      PROVE  Row(n.hour, g) = BucketBytes(n.fine, g, "hour")
  <2>1. Row(t.hour, g) = BucketBytes(t.fine, g, "hour") BY <1>9 DEF Agree
  <2>2. "fine" \in Layers /\ "hour" \in Layers /\ <<"fine", "hour">> \in Filled BY DEF Layers, Filled
  <2> QED BY <1>1, <1>2, <1>3, <1>4, <2>1, <2>2, RangeAgrees
<1>10. ASSUME NEW g \in Int, g >= c.hour, g >= c.day
       PROVE  Row(n.day, g) = BucketBytes(n.hour, g, "day")
  <2>1. Row(t.day, g) = BucketBytes(t.hour, g, "day") BY <1>10 DEF Agree
  <2>2. "hour" \in Layers /\ "day" \in Layers /\ <<"hour", "day">> \in Filled BY DEF Layers, Filled
  <2> QED BY <1>1, <1>2, <1>7, <1>5, <2>1, <2>2, RangeAgrees
<1>11. ASSUME NEW g \in Int, g >= c.day PROVE Row(n.week, g) = BucketBytes(n.day, g, "week")
  <2>1. Row(t.week, g) = BucketBytes(t.day, g, "week") BY <1>11 DEF Agree
  <2>2. "day" \in Layers /\ "week" \in Layers /\ <<"day", "week">> \in Filled BY DEF Layers, Filled
  <2> QED BY <1>1, <1>2, <1>8, <1>6, <2>1, <2>2, RangeAgrees
<1>12. ASSUME NEW g \in Int, g >= c.day PROVE Row(n.month, g) = BucketBytes(n.day, g, "month")
  <2>1. Row(t.month, g) = BucketBytes(t.day, g, "month") BY <1>12 DEF Agree
  <2>2. "day" \in Layers /\ "month" \in Layers /\ <<"day", "month">> \in Filled BY DEF Layers, Filled
  <2> QED BY <1>1, <1>2, <1>8, <1>6, <2>1, <2>2, RangeAgrees
<1> QED BY <1>9, <1>10, <1>11, <1>12 DEF Agree

\* No bucket that begins before zero holds a moment after it.
LEMMA BucketOfPast ==
  ASSUME NEW l \in {"fine", "hour", "day"}, NEW t \in Int, 0 <= t
  PROVE  BucketStart(t, l) \in Int /\ 0 <= BucketStart(t, l) /\ BucketStart(t, l) <= t
<1>1. l \in Layers /\ 0 \in Int BY DEF Layers
<1>2. BucketTicks \in Nat \ {0} /\ HourTicks \in Nat \ {0} /\ DayTicks \in Nat \ {0}
  BY PyramidAssumption
<1>3. BucketStart(0, l) = 0
  <2>1. \A n \in Nat \ {0} : Floor(0, n) = 0 BY QuotientIs DEF Floor
  <2> QED BY <1>2, <2>1 DEF BucketStart, DayStart
<1>4. BucketStart(0, l) <= BucketStart(t, l) BY <1>1, BucketMonotone
<1> QED BY <1>1, <1>3, <1>4, BucketFacts

LEMMA RebuildPast ==
  ASSUME NEW t, Tables(t), NEW S, Samples(S), NEW from \in Int, NEW to \in Int,
         NEW n, RebuildsTo(n, t, S, from, to), NEW c \in Int, Past(t, c),
         \A s \in S : 0 <= s.at /\ s.at <= c
  PROVE  Past(n, c)
<1>1. ASSUME NEW b \in Int, 0 <= b, b <= c, NEW l \in {"fine", "hour", "day"}
      PROVE  0 <= BucketStart(b, l) /\ BucketStart(b, l) <= c
  BY <1>1, BucketOfPast
<1>2. Table(n.fine) /\ Table(n.hour) /\ Table(n.day) BY DEF RebuildsTo, Tables, Layers
<1>3. ASSUME NEW b \in DOMAIN n.fine PROVE 0 <= b /\ b <= c
  <2>1. CASE b \in DOMAIN t.fine BY <2>1 DEF Past
  <2>2. CASE b \notin DOMAIN t.fine
    <3>1. PICK s \in InRange(S, from, to) : b = BucketStart(s.at, "fine")
      BY <2>2 DEF RebuildsTo
    <3>2. s.at \in Int /\ 0 <= s.at /\ s.at <= c BY DEF InRange, Samples
    <3> QED BY <1>1, <3>1, <3>2
  <2> QED BY <2>1, <2>2
<1>4. ASSUME NEW b \in DOMAIN n.hour PROVE 0 <= b /\ b <= c
  <2>1. DOMAIN n.hour \subseteq DOMAIN t.hour \cup {BucketStart(d, "hour") : d \in DOMAIN n.fine}
    BY DEF RebuildsTo, IsRefill
  <2>2. CASE b \in DOMAIN t.hour BY <2>2 DEF Past
  <2>3. CASE b \notin DOMAIN t.hour
    <3>1. PICK d \in DOMAIN n.fine : b = BucketStart(d, "hour") BY <2>1, <2>3
    <3>2. d \in Int BY <1>2 DEF Table
    <3> QED BY <1>1, <1>3, <3>1, <3>2
  <2> QED BY <2>2, <2>3
<1>5. ASSUME NEW b \in DOMAIN n.day PROVE 0 <= b /\ b <= c
  <2>1. DOMAIN n.day \subseteq DOMAIN t.day \cup {BucketStart(d, "day") : d \in DOMAIN n.hour}
    BY DEF RebuildsTo, IsRefill
  <2>2. CASE b \in DOMAIN t.day BY <2>2 DEF Past
  <2>3. CASE b \notin DOMAIN t.day
    <3>1. PICK d \in DOMAIN n.hour : b = BucketStart(d, "day") BY <2>1, <2>3
    <3>2. d \in Int BY <1>2 DEF Table
    <3> QED BY <1>1, <1>4, <3>1, <3>2
  <2> QED BY <2>2, <2>3
<1> QED BY <1>3, <1>4, <1>5 DEF Past
\* Rows of the lower layers expire: what is left agrees.
Expired(t, c) == [t EXCEPT !.fine = Outside(@, 0, c.fine), !.hour = Outside(@, 0, c.hour),
                           !.day = Outside(@, 0, c.day)]

LEMMA ExpiredFacts ==
  ASSUME NEW t, Tables(t), NEW c, Cuts(c)
  PROVE  /\ Tables(Expired(t, c))
         /\ \A l \in {"fine", "hour", "day"} :
              /\ DOMAIN Expired(t, c)[l] \subseteq DOMAIN t[l]
              /\ \A b \in Int : c[l] <= b => Row(Expired(t, c)[l], b) = Row(t[l], b)
         /\ \A l \in {"week", "month"} : Expired(t, c)[l] = t[l]
<1> DEFINE n == Expired(t, c)
           o(l) == Outside(t[l], 0, c[l])
<1>1. t = [l \in Layers |-> t[l]] /\ \A l \in Layers : Table(t[l]) BY DEF Tables
<1>2. n = [t EXCEPT !.fine = o("fine"), !.hour = o("hour"), !.day = o("day")] BY DEF Expired
<1>3. \A l \in {"fine", "hour", "day"} : l \in Layers /\ c[l] \in Int BY DEF Layers, Cuts
<1>4. ASSUME NEW l \in {"fine", "hour", "day"}
      PROVE  /\ Table(o(l)) /\ DOMAIN o(l) \subseteq DOMAIN t[l]
             /\ \A b \in Int : c[l] <= b => Row(o(l), b) = Row(t[l], b)
  <2>1. 0 \in Int /\ c[l] \in Int /\ Table(t[l]) BY <1>1, <1>3
  <2>2. IsOutside(o(l), t[l], 0, c[l]) BY <2>1, OutsideFacts
  <2>3. /\ Table(o(l)) /\ DOMAIN o(l) \subseteq DOMAIN t[l]
        /\ \A b \in Int : Row(o(l), b) = IF 0 <= b /\ b < c[l] THEN 0 ELSE Row(t[l], b)
    BY <2>2 DEF IsOutside
  <2> HIDE DEF o
  <2> QED BY <2>1, <2>3
<1> HIDE DEF n, o
<1>5. /\ n = [l \in Layers |-> n[l]]
      /\ \A l \in {"fine", "hour", "day"} : n[l] = o(l)
      /\ \A l \in {"week", "month"} : n[l] = t[l]
  BY <1>1, <1>2 DEF Layers
<1>6. Tables(n)
  <2>1. \A l \in Layers : Table(n[l]) BY <1>1, <1>4, <1>5 DEF Layers
  <2> QED BY <1>5, <2>1 DEF Tables
<1> QED BY <1>4, <1>5, <1>6 DEF n

SameFrom(f, src, q) == \A b \in Int : q <= b => Row(f, b) = Row(src, b)

\* A bucket that begins where rows are kept still adds up to the same.
LEMMA ExpiredBucket ==
  ASSUME NEW f, Table(f), NEW src, Table(src), NEW q \in Int, NEW l \in Layers,
         SameFrom(f, src, q), NEW g \in Int, q <= g
  PROVE  BucketBytes(f, g, l) = BucketBytes(src, g, l)
<1>1. Length[l] \in Nat \ {0} BY LengthFacts
<1>2. g + Length[l] \in Int BY <1>1
<1>3. \A b \in Int : g <= b /\ b < g + Length[l] => Row(f, b) = Row(src, b)
  BY <1>1 DEF SameFrom
<1>4. Span(f, g, g + Length[l]) = Span(src, g, g + Length[l]) BY <1>2, <1>3, SpanSame
<1> QED BY <1>4 DEF BucketBytes

LEMMA ExpiredAgrees ==
  ASSUME NEW t, Tables(t), NEW before, Cuts(before), Agree(t, before), NEW c, Cuts(c),
         before.fine <= c.fine, before.hour <= c.hour, before.day <= c.day
  PROVE  Agree(Expired(t, c), c)
<1> DEFINE n == Expired(t, c)
<1>1. /\ Tables(n)
      /\ \A l \in {"fine", "hour", "day"} : \A b \in Int : c[l] <= b => Row(n[l], b) = Row(t[l], b)
      /\ n.week = t.week /\ n.month = t.month
  BY ExpiredFacts
<1> HIDE DEF n
<1>2. /\ SameFrom(n.fine, t.fine, c.fine) /\ SameFrom(n.hour, t.hour, c.hour)
      /\ SameFrom(n.day, t.day, c.day)
  BY <1>1 DEF SameFrom
<1>3. /\ c.fine \in Int /\ c.hour \in Int /\ c.day \in Int
      /\ before.fine \in Int /\ before.hour \in Int /\ before.day \in Int
  BY DEF Cuts
<1>4. /\ Table(n.fine) /\ Table(n.hour) /\ Table(n.day)
      /\ Table(t.fine) /\ Table(t.hour) /\ Table(t.day)
      /\ "hour" \in Layers /\ "day" \in Layers /\ "week" \in Layers /\ "month" \in Layers
  BY <1>1 DEF Tables, Layers
<1>5. ASSUME NEW g \in Int, g >= c.fine, g >= c.hour
      PROVE  Row(n.hour, g) = BucketBytes(n.fine, g, "hour")
  <2>1. Row(t.hour, g) = BucketBytes(t.fine, g, "hour") BY <1>3, <1>5 DEF Agree
  <2>2. BucketBytes(n.fine, g, "hour") = BucketBytes(t.fine, g, "hour")
    BY <1>2, <1>3, <1>4, <1>5, ExpiredBucket
  <2> QED BY <1>2, <1>3, <1>5, <2>1, <2>2 DEF SameFrom
<1>6. ASSUME NEW g \in Int, g >= c.hour, g >= c.day
      PROVE  Row(n.day, g) = BucketBytes(n.hour, g, "day")
  <2>1. Row(t.day, g) = BucketBytes(t.hour, g, "day") BY <1>3, <1>6 DEF Agree
  <2>2. BucketBytes(n.hour, g, "day") = BucketBytes(t.hour, g, "day")
    BY <1>2, <1>3, <1>4, <1>6, ExpiredBucket
  <2> QED BY <1>2, <1>3, <1>6, <2>1, <2>2 DEF SameFrom
<1>7. ASSUME NEW g \in Int, g >= c.day
      PROVE  /\ Row(n.week, g) = BucketBytes(n.day, g, "week")
             /\ Row(n.month, g) = BucketBytes(n.day, g, "month")
  <2>1. /\ Row(t.week, g) = BucketBytes(t.day, g, "week")
        /\ Row(t.month, g) = BucketBytes(t.day, g, "month")
    BY <1>3, <1>7 DEF Agree
  <2>2. /\ BucketBytes(n.day, g, "week") = BucketBytes(t.day, g, "week")
        /\ BucketBytes(n.day, g, "month") = BucketBytes(t.day, g, "month")
    BY <1>2, <1>3, <1>4, <1>7, ExpiredBucket
  <2> QED BY <1>1, <2>1, <2>2
<1>8. Agree(n, c) BY <1>5, <1>6, <1>7 DEF Agree
<1> QED BY <1>8 DEF n

LEMMA NoTablesFacts ==
  /\ Tables(NoTables)
  /\ \A c : Agree(NoTables, c)
  /\ \A p \in Int : Past(NoTables, p)
<1>1. /\ Table(NoRows) /\ DOMAIN NoRows = {} BY FS_EmptySet DEF Table, NoRows
<1>2. NoTables = [l \in Layers |-> NoRows] BY DEF NoTables
<1>3. Tables(NoTables) BY <1>1, <1>2 DEF Tables
<1>4. ASSUME NEW g, NEW l \in Layers
      PROVE  Row(NoTables[l], g) = 0 /\ \A k \in Layers : BucketBytes(NoTables[k], g, l) = 0
  <2>1. \A k \in Layers : NoTables[k] = NoRows BY <1>2
  <2>2. Between(NoRows, g, g + Length[l]) = {} BY <1>1 DEF Between
  <2>3. Span(NoRows, g, g + Length[l]) = 0 BY <2>2, SumEmpty DEF Span
  <2> QED BY <1>1, <2>1, <2>3 DEF BucketBytes, Row
<1>5. \A c : Agree(NoTables, c) BY <1>4 DEF Agree, Layers
<1>6. \A p \in Int : Past(NoTables, p) BY <1>1, <1>2 DEF Past, Layers
<1> QED BY <1>3, <1>5, <1>6

-----------------------------------------------------------------------------
(***************************************************************************)
(* Prepared windows.                                                       *)
(***************************************************************************)
\* Between borders of its own buckets a layer adds up to what the layer below
\* it adds up to.
LEMMA SpanOfLayers ==
  ASSUME NEW f, Table(f), NEW src, Table(src), NEW l \in Layers,
         NEW lo, Aligned(lo, l), NEW hi, Aligned(hi, l),
         \A g \in Int : lo <= g => Row(f, g) = BucketBytes(src, g, l)
  PROVE  Span(f, lo, hi) = Span(src, lo, hi)
<1> DEFINE K == Between(f, lo, hi)
           S == Between(src, lo, hi)
           parts == [k \in K |-> Between(src, k, k + Length[l])]
<1>0. lo \in Int /\ hi \in Int /\ Length[l] \in Nat \ {0} BY LengthFacts DEF Aligned
<1>1. IsFiniteSet(K) /\ IsFiniteSet(S) /\ \A x \in S : src[x] \in Int
  <2>1. IsFiniteSet(K) /\ IsFiniteSet(S) BY BetweenFacts
  <2>2. \A x \in S : src[x] \in Int BY DEF Between, Table
  <2> QED BY <2>1, <2>2
<1>2. ASSUME NEW k \in K
      PROVE  /\ k \in Int /\ lo <= k /\ k < hi /\ Aligned(k, l)
             /\ f[k] = SumFunctionOnSet(src, parts[k])
  <2>1. k \in Int /\ lo <= k /\ k < hi /\ k \in DOMAIN f /\ f[k] # 0 BY DEF Between, Table
  <2>2. Row(f, k) = BucketBytes(src, k, l) /\ Row(f, k) = f[k] BY <2>1 DEF Row
  <2>3. Aligned(k, l) /\ f[k] = Span(src, k, k + Length[l]) BY <2>1, <2>2 DEF BucketBytes
  <2> QED BY <2>1, <2>3 DEF Span
<1>3. ASSUME NEW k \in K, NEW x \in parts[k]
      PROVE  x \in S /\ BucketStart(x, l) = k
  <2>1. x \in DOMAIN src /\ x \in Int /\ k <= x /\ x < k + Length[l] BY DEF Between, Table
  <2>2. BucketStart(x, l) = k BY <1>2, <2>1, BucketFacts DEF Aligned
  <2>3. lo <= x /\ x < hi BY <1>2, <2>1, <2>2, AlignedRange
  <2> QED BY <2>1, <2>2, <2>3 DEF Between
<1>4. ASSUME NEW x \in S PROVE \E k \in K : x \in parts[k]
  <2> DEFINE k == BucketStart(x, l)
  <2>1. x \in DOMAIN src /\ x \in Int /\ lo <= x /\ x < hi /\ src[x] \in Nat \ {0}
    BY DEF Between, Table
  <2>2. k \in Int /\ k <= x /\ x < k + Length[l] BY <2>1, BucketFacts
  <2>3. Aligned(k, l) BY <2>1, <2>2, BucketIdempotent DEF Aligned
  <2>4. lo <= k /\ k < hi BY <2>1, AlignedRange
  <2> HIDE DEF k
  <2>5. Row(f, k) = Span(src, k, k + Length[l]) BY <2>2, <2>3, <2>4 DEF BucketBytes
  <2>6. x \in Between(src, k, k + Length[l]) BY <2>1, <2>2 DEF Between
  <2>7. Span(src, k, k + Length[l]) \in Nat \ {0}
    <3>1. IsFiniteSet(Between(src, k, k + Length[l])) BY BetweenFacts
    <3>2. \A y \in Between(src, k, k + Length[l]) : src[y] \in Nat \ {0} BY DEF Between, Table
    <3> QED BY <2>6, <3>1, <3>2, SumPositive DEF Span
  <2>8. k \in K BY <2>2, <2>4, <2>5, <2>7 DEF Row, Between
  <2> QED BY <2>6, <2>8
<1>5. ASSUME NEW k \in K, NEW m \in K, k # m PROVE parts[k] \cap parts[m] = {}
  <2>1. ASSUME NEW x \in parts[k], x \in parts[m] PROVE FALSE
    <3>1. BucketStart(x, l) = k BY <1>3
    <3>2. BucketStart(x, l) = m BY <1>3, <2>1
    <3> QED BY <1>5, <3>1, <3>2
  <2> QED BY <2>1
<1>6. \A k \in K : parts[k] \subseteq S BY <1>3
<1>7. \A k \in K : f[k] = SumFunctionOnSet(src, parts[k]) BY <1>2
<1> HIDE DEF K, S, parts
<1>8. SumFunctionOnSet(f, K) = SumFunctionOnSet(src, S)
  BY <1>1, <1>4, <1>5, <1>6, <1>7, SumByGroups
<1> QED BY <1>8 DEF K, S, Span

\* A window is the sum of its four pieces.
Piece(t, s) == Span(t[s.layer], s.lo, s.hi)

LEMMA WindowIsSum ==
  ASSUME NEW t, NEW w, NEW now, IsFiniteSet(Segments(w, now)),
         \A s \in Segments(w, now) : Piece(t, s) \in Int
  PROVE  WindowBytes(t, w, now)
           = SumFunctionOnSet([s \in Segments(w, now) |-> Piece(t, s)], Segments(w, now))
<1> DEFINE S == Segments(w, now)
           g == [s \in S |-> Piece(t, s)]
           Bytes1(x) == SumFunctionOnSet(t[x.layer], Between(t[x.layer], x.lo, x.hi))
           Adds(h) == h = [s \in SUBSET S |-> IF s = {} THEN 0
                ELSE Bytes1(CHOOSE x \in s : TRUE) + h[s \ {CHOOSE x \in s : TRUE}]]
<1>0. \A s \in S : g[s] \in Int OBVIOUS
<1>1. PICK F : IsSum(F, g, S) /\ \A s \in SUBSET S : SumFunctionOnSet(g, s) = F[s]
  <2> HIDE DEF g, S
  <2>1. IsFiniteSet(S) BY DEF S
  <2> QED BY <1>0, <2>1, SumsExist
<1>2. ASSUME NEW s \in SUBSET S, s # {}
      PROVE  g[CHOOSE x \in s : TRUE] = Bytes1(CHOOSE x \in s : TRUE)
  <2>1. (CHOOSE x \in s : TRUE) \in s BY <1>2
  <2>2. \A x \in S : g[x] = Bytes1(x) BY DEF Piece, Span
  <2> QED BY <2>1, <2>2
<1>3. WindowBytes(t, w, now) = (CHOOSE h : Adds(h))[S]
  BY Zenon DEF WindowBytes, MapThenSumSet, MapThenFoldSet
<1> HIDE DEF g, S, Bytes1
<1>4. ASSUME NEW h PROVE Adds(h) <=> Iterates(h, g, S)
  BY <1>2 DEF Iterates
<1>5. Iterates(F, g, S) BY <1>1, SumIterates
<1>6. Adds(CHOOSE h : Adds(h))
  <2>1. Adds(F) BY <1>4, <1>5
  <2> HIDE DEF Adds
  <2> QED BY <2>1, Zenon
<1> HIDE DEF Adds
<1>7. (CHOOSE h : Adds(h))[S] = F[S]
  <2>1. IsFiniteSet(S) BY DEF S
  <2> QED BY <1>1, <1>4, <1>6, <2>1, IterationIsSum
<1> QED BY <1>1, <1>3, <1>7 DEF S, g
IsSumOfFour(f, S, a, b, c, d) == SumFunctionOnSet(f, S) = f[a] + f[b] + f[c] + f[d]

LEMMA SumOfFour ==
  ASSUME NEW a, NEW b, NEW c, NEW d, NEW S,
         \A x : x \in S <=> x = a \/ x = b \/ x = c \/ x = d,
         a # b, a # c, a # d, b # c, b # d, c # d,
         NEW f, f[a] \in Int, f[b] \in Int, f[c] \in Int, f[d] \in Int
  PROVE  IsSumOfFour(f, S, a, b, c, d)
<1> DEFINE A == S \ {a}
           B == A \ {b}
           C == B \ {c}
           D == C \ {d}
<1>1. D = {} /\ d \in C /\ c \in B /\ b \in A /\ a \in S OBVIOUS
<1>2. IsFiniteSet(S)
  <2>1. IsFiniteSet({a}) BY FS_Singleton
  <2>2. IsFiniteSet({a} \cup {b}) BY <2>1, FS_AddElement
  <2>3. IsFiniteSet({a} \cup {b} \cup {c}) BY <2>2, FS_AddElement
  <2>4. IsFiniteSet({a} \cup {b} \cup {c} \cup {d}) BY <2>3, FS_AddElement
  <2>5. {a} \cup {b} \cup {c} \cup {d} = S OBVIOUS
  <2> QED BY <2>4, <2>5
<1>3. IsFiniteSet(A) /\ IsFiniteSet(B) /\ IsFiniteSet(C)
  <2>1. IsFiniteSet(A) BY <1>2, FS_RemoveElement
  <2>2. IsFiniteSet(B) BY <2>1, FS_RemoveElement
  <2> QED BY <2>1, <2>2, FS_RemoveElement
<1>4. \A x \in S : f[x] \in Int OBVIOUS
<1>5. A \subseteq S /\ B \subseteq S /\ C \subseteq S OBVIOUS
<1> HIDE DEF A, B, C, D
<1>6. SumFunctionOnSet(f, S) = f[a] + SumFunctionOnSet(f, A) BY <1>1, <1>2, <1>4, SumTakeOut DEF A
<1>7. SumFunctionOnSet(f, A) = f[b] + SumFunctionOnSet(f, B)
  BY <1>1, <1>3, <1>4, <1>5, SumTakeOut DEF B
<1>8. SumFunctionOnSet(f, B) = f[c] + SumFunctionOnSet(f, C)
  BY <1>1, <1>3, <1>4, <1>5, SumTakeOut DEF C
<1>9. SumFunctionOnSet(f, C) = f[d] + SumFunctionOnSet(f, D)
  BY <1>1, <1>3, <1>4, <1>5, SumTakeOut DEF D
<1>10. SumFunctionOnSet(f, D) = 0 BY <1>1, SumEmpty
<1>11. SumFunctionOnSet(f, C) = f[d] BY <1>9, <1>10
<1>12. SumFunctionOnSet(f, B) = f[c] + f[d] BY <1>8, <1>11
<1>13. SumFunctionOnSet(f, A) = f[b] + (f[c] + f[d]) BY <1>7, <1>12
<1>14. SumFunctionOnSet(f, S) = f[a] + (f[b] + (f[c] + f[d])) BY <1>6, <1>13
<1> QED BY <1>14 DEF IsSumOfFour

\* The pieces of a window, added up.
Fresh(now) == Max({DayStart(now), Floor(now - FreshTicks, HourTicks)})
Daily(w, now) == IF w = "month" THEN Max({WindowStart(w, now), WeekStart(now)})
                                ELSE WindowStart(w, now)
Weekly(w, now) == IF w = "month" THEN WeekStart(now) ELSE WindowStart(w, now)

LEMMA WindowParts ==
  ASSUME NEW t, Tables(t), NEW w, NEW now
  PROVE  WindowBytes(t, w, now) =
           Span(t.week, WindowStart(w, now), Weekly(w, now))
             + Span(t.day, Daily(w, now), DayStart(now))
             + Span(t.hour, DayStart(now), Fresh(now))
             + Span(t.fine, Fresh(now), now + 1)
<1> DEFINE a == [layer |-> "week", lo |-> WindowStart(w, now), hi |-> Weekly(w, now)]
           b == [layer |-> "day", lo |-> Daily(w, now), hi |-> DayStart(now)]
           c == [layer |-> "hour", lo |-> DayStart(now), hi |-> Fresh(now)]
           d == [layer |-> "fine", lo |-> Fresh(now), hi |-> now + 1]
           S == {a, b, c, d}
           g == [s \in S |-> Piece(t, s)]
<1>1. Segments(w, now) = S
  BY Zenon DEF Segments, Weekly, Daily, Fresh
<1>2. a # b /\ a # c /\ a # d /\ b # c /\ b # d /\ c # d
  <2>1. a.layer = "week" /\ b.layer = "day" /\ c.layer = "hour" /\ d.layer = "fine" OBVIOUS
  <2> HIDE DEF a, b, c, d
  <2> QED BY <2>1
<1>3. /\ Piece(t, a) = Span(t.week, WindowStart(w, now), Weekly(w, now))
      /\ Piece(t, b) = Span(t.day, Daily(w, now), DayStart(now))
      /\ Piece(t, c) = Span(t.hour, DayStart(now), Fresh(now))
      /\ Piece(t, d) = Span(t.fine, Fresh(now), now + 1)
  BY DEF Piece
<1>4. Table(t.fine) /\ Table(t.hour) /\ Table(t.day) /\ Table(t.week) BY DEF Tables, Layers
<1>5. /\ Piece(t, a) \in Int /\ Piece(t, b) \in Int /\ Piece(t, c) \in Int /\ Piece(t, d) \in Int
  <2> HIDE DEF a, b, c, d
  <2>1. \A f, lo, hi : Table(f) => Span(f, lo, hi) \in Nat BY BetweenFacts
  <2> QED BY <1>3, <1>4, <2>1
<1> HIDE DEF a, b, c, d
<1>6. IsFiniteSet(S)
  <2>1. IsFiniteSet({a}) BY FS_Singleton
  <2>2. IsFiniteSet({a} \cup {b}) BY <2>1, FS_AddElement
  <2>3. IsFiniteSet({a} \cup {b} \cup {c}) BY <2>2, FS_AddElement
  <2>4. IsFiniteSet({a} \cup {b} \cup {c} \cup {d}) BY <2>3, FS_AddElement
  <2>5. {a} \cup {b} \cup {c} \cup {d} = S OBVIOUS
  <2> QED BY <2>4, <2>5
<1>7. WindowBytes(t, w, now) = SumFunctionOnSet(g, S)
  <2>1. IsFiniteSet(Segments(w, now)) BY <1>1, <1>6
  <2>2. \A s \in Segments(w, now) : Piece(t, s) \in Int
    <3> HIDE DEF g
    <3> QED BY <1>1, <1>5
  <2>3. WindowBytes(t, w, now)
           = SumFunctionOnSet([s \in Segments(w, now) |-> Piece(t, s)], Segments(w, now))
    BY <2>1, <2>2, WindowIsSum
  <2> QED BY <1>1, <2>3
<1>8. /\ g[a] = Piece(t, a) /\ g[b] = Piece(t, b) /\ g[c] = Piece(t, c) /\ g[d] = Piece(t, d)
  OBVIOUS
<1> HIDE DEF g
<1>9. SumFunctionOnSet(g, S) = g[a] + g[b] + g[c] + g[d]
  <2>1. \A x : x \in S <=> x = a \/ x = b \/ x = c \/ x = d OBVIOUS
  <2>2. g[a] \in Int /\ g[b] \in Int /\ g[c] \in Int /\ g[d] \in Int BY <1>5, <1>8
  <2> HIDE DEF S
  <2>3. IsSumOfFour(g, S, a, b, c, d) BY <1>2, <2>1, <2>2, SumOfFour
  <2> QED BY <2>3 DEF IsSumOfFour
<1> QED BY <1>3, <1>7, <1>8, <1>9

\* What the windows have to show: the daily rows from lo on.
DaysFrom(t, lo, now) == Span(t.day, lo, DayStart(now) + DayTicks)

\* When the rows of today are all there, hours before, five minutes
\* from, the last hours on give the row of today.
LEMMA RecentParts ==
  ASSUME NEW t, Tables(t), NEW c, Cuts(c), Agree(t, c), NEW now \in Int,
         c.fine <= DayStart(now), c.hour <= DayStart(now), c.day <= DayStart(now),
         \A b \in DOMAIN t.fine : b <= now
  PROVE  Span(t.hour, DayStart(now), Fresh(now)) + Span(t.fine, Fresh(now), now + 1)
           = DaysFrom(t, DayStart(now), now)
<1> DEFINE d == DayStart(now)
           e == d + DayTicks
           x == Floor(now - FreshTicks, HourTicks)
           r == Fresh(now)
<1>1. /\ BucketTicks \in Nat \ {0} /\ HourTicks \in Nat \ {0} /\ DayTicks \in Nat \ {0}
      /\ FreshTicks \in Nat \ {0}
  BY PyramidAssumption
<1>2. d \in Int /\ d <= now /\ now < e /\ e \in Int
  BY <1>1, FloorFacts DEF DayStart
<1>3. x \in Int /\ x <= now - FreshTicks
  <2>1. now - FreshTicks \in Int BY <1>1
  <2> QED BY <1>1, <2>1, FloorFacts
<1>4. /\ "fine" \in Layers /\ "hour" \in Layers /\ "day" \in Layers
      /\ <<"hour", "day">> \in Filled
      /\ Length["day"] = DayTicks
  BY DEF Layers, Filled, Length
<1>5. Table(t.fine) /\ Table(t.hour) /\ Table(t.day) BY DEF Tables, Layers
<1>6. BucketStart(now, "day") = d BY DEF BucketStart
<1>7. Aligned(d, "day") /\ Aligned(d, "hour")
  <2>1. BucketStart(d, "day") = d BY <1>4, <1>6, BucketIdempotent
  <2>2. BucketStart(d, "hour") = d BY <1>4, <1>6, BucketsNest
  <2> HIDE DEF d
  <2> QED BY <1>2, <2>1, <2>2 DEF Aligned
<1>8. Aligned(e, "day") /\ Aligned(e, "hour")
  <2>1. Aligned(BucketStart(now, "day") + Length["day"], "day") BY <1>4, NextBucket
  <2>2. Aligned(e, "day") BY <1>4, <1>6, <2>1
  <2> HIDE DEF e
  <2>3. e \in Int /\ BucketStart(e, "day") = e BY <2>2 DEF Aligned
  <2>4. BucketStart(BucketStart(e, "day"), "hour") = BucketStart(e, "day")
    BY <1>4, <2>3, BucketsNest
  <2> QED BY <2>2, <2>3, <2>4 DEF Aligned
<1>9. r \in {d, x} /\ d <= r
  <2> HIDE DEF d, x
  <2>1. IsFiniteSet({d, x})
    <3>1. IsFiniteSet({d}) BY FS_Singleton
    <3>2. IsFiniteSet({d} \cup {x}) BY <3>1, FS_AddElement
    <3>3. {d} \cup {x} = {d, x} OBVIOUS
    <3> QED BY <3>2, <3>3
  <2>2. {d, x} # {} /\ {d, x} \subseteq Int BY <1>2, <1>3
  <2>3. Max({d, x}) \in {d, x} /\ \A y \in {d, x} : y <= Max({d, x})
    BY <2>1, <2>2, MaxOfFinite
  <2>4. r = Max({d, x}) BY DEF Fresh, d, x
  <2> QED BY <2>3, <2>4
<1>10. Aligned(r, "hour") /\ r \in Int
  <2>1. x = BucketStart(now - FreshTicks, "hour") /\ now - FreshTicks \in Int
    BY <1>1 DEF BucketStart
  <2>2. Aligned(x, "hour") BY <1>3, <1>4, <2>1, BucketIdempotent DEF Aligned
  <2> HIDE DEF r, d, x
  <2> QED BY <1>7, <1>9, <2>2 DEF Aligned
<1> HIDE DEF d, x
<1>11. r <= e /\ r <= now BY <1>1, <1>2, <1>3, <1>9
<1> HIDE DEF r, e
<1>12. Span(t.fine, r, now + 1) = Span(t.fine, r, e)
  <2>1. Span(t.fine, r, e) = Span(t.fine, r, now + 1) + Span(t.fine, now + 1, e)
    BY <1>2, <1>5, <1>10, <1>11, SpanSplit
  <2>2. \A b \in DOMAIN t.fine : b \in Int /\ ~(now + 1 <= b /\ b < e) BY <1>5 DEF Table
  <2>3. Span(t.fine, now + 1, e) = 0 BY <1>2, <2>2, SpanEmpty
  <2>4. Span(t.fine, r, now + 1) \in Nat BY <1>5, BetweenFacts
  <2> QED BY <2>1, <2>3, <2>4
<1>13. Span(t.hour, r, e) = Span(t.fine, r, e)
  <2>1. \A g \in Int : r <= g => Row(t.hour, g) = BucketBytes(t.fine, g, "hour")
    BY <1>2, <1>9, <1>10 DEF Agree, Cuts, d
  <2> QED BY <1>4, <1>5, <1>8, <1>10, <2>1, SpanOfLayers
<1>14. Span(t.hour, d, e) = Span(t.hour, d, r) + Span(t.hour, r, e)
  BY <1>2, <1>5, <1>9, <1>10, <1>11, SpanSplit
<1>15. Span(t.day, d, e) = Span(t.hour, d, e)
  <2>1. \A g \in Int : d <= g => Row(t.day, g) = BucketBytes(t.hour, g, "day")
    BY <1>2 DEF Agree, Cuts, d
  <2> QED BY <1>4, <1>5, <1>7, <1>8, <2>1, SpanOfLayers
<1> QED BY <1>12, <1>13, <1>14, <1>15 DEF DaysFrom, d, e, r

LEMMA EmptySpan ==
  ASSUME NEW f, Table(f), NEW lo \in Int, NEW hi \in Int, hi <= lo
  PROVE  Span(f, lo, hi) = 0
<1>1. \A b \in DOMAIN f : b \in Int /\ ~(lo <= b /\ b < hi) BY DEF Table
<1> QED BY <1>1, SpanEmpty

\* What the prepared windows select at any moment (the segments of hours and five
\* minutes, of days and of weeks that normalize.mjs adds up) is the traffic of the
\* days they span, each counted once, as long as the five-minute and hourly rows of
\* the day and the daily rows of the month are there; for the month when its weeks are whole or it has just begun.
THEOREM WindowsAreDays ==
  ASSUME NEW t, Tables(t), NEW c, Cuts(c), Agree(t, c), NEW now \in Int,
         c.fine <= DayStart(now), c.hour <= DayStart(now), c.day <= MonthStart(now),
         \A b \in DOMAIN t.fine : b <= now
  PROVE  /\ WindowBytes(t, "today", now) = DaysFrom(t, DayStart(now), now)
         /\ WindowBytes(t, "week", now) = DaysFrom(t, WeekStart(now), now)
         /\ \/ WeekStart(MonthStart(now)) = MonthStart(now)
            \/ WeekStart(now) <= MonthStart(now)
            => WindowBytes(t, "month", now) = DaysFrom(t, MonthStart(now), now)
<1> DEFINE d == DayStart(now)
           k == WeekStart(now)
           m == MonthStart(now)
           e == d + DayTicks
           recent == Span(t.hour, d, Fresh(now)) + Span(t.fine, Fresh(now), now + 1)
<1>1. Table(t.fine) /\ Table(t.hour) /\ Table(t.day) /\ Table(t.week) BY DEF Tables, Layers
<1>2. /\ "day" \in Layers /\ "week" \in Layers /\ "month" \in Layers
      /\ <<"day", "week">> \in Filled /\ <<"day", "month">> \in Filled
      /\ BucketStart(now, "day") = d /\ BucketStart(now, "week") = k
      /\ BucketStart(now, "month") = m /\ DayTicks \in Nat \ {0}
  BY PyramidAssumption DEF Layers, Filled, BucketStart
<1>3. /\ d \in Int /\ k \in Int /\ m \in Int /\ e \in Int /\ k <= now /\ m <= now /\ d <= e
  <2>1. /\ BucketStart(now, "day") \in Int /\ BucketStart(now, "week") \in Int
        /\ BucketStart(now, "month") \in Int
        /\ BucketStart(now, "week") <= now /\ BucketStart(now, "month") <= now
    BY <1>2, BucketFacts
  <2> QED BY <1>2, <2>1
<1>4. k <= d /\ m <= d BY <1>2, <1>3, RangesNest
<1>5. recent = Span(t.day, d, e)
  <2>1. c.day <= d BY <1>3, <1>4 DEF Cuts
  <2> QED BY <2>1, RecentParts DEF DaysFrom
<1>6. \A lo \in Int, mid \in Int : lo <= mid /\ mid <= d =>
        Span(t.day, lo, mid) + Span(t.day, mid, d) + recent = Span(t.day, lo, e)
  <2>1. ASSUME NEW lo \in Int, NEW mid \in Int, lo <= mid, mid <= d
        PROVE  Span(t.day, lo, mid) + Span(t.day, mid, d) + recent = Span(t.day, lo, e)
    <3> HIDE DEF d, e, recent
    <3>0. lo <= d BY <1>3, <2>1
    <3>1. Span(t.day, lo, d) = Span(t.day, lo, mid) + Span(t.day, mid, d)
      BY <1>1, <1>3, <2>1, SpanSplit
    <3>2. Span(t.day, lo, e) = Span(t.day, lo, d) + Span(t.day, d, e)
      BY <1>1, <1>3, <3>0, SpanSplit
    <3>3. Span(t.day, lo, mid) \in Int /\ Span(t.day, mid, d) \in Int /\ Span(t.day, d, e) \in Int
      BY <1>1, BetweenFacts
    <3> QED BY <1>5, <3>1, <3>2, <3>3
  <2> QED BY <2>1
<1>7. \A w : WindowBytes(t, w, now) = Span(t.week, WindowStart(w, now), Weekly(w, now))
                                    + Span(t.day, Daily(w, now), d) + recent
  <2>1. ASSUME NEW w
        PROVE  WindowBytes(t, w, now) = Span(t.week, WindowStart(w, now), Weekly(w, now))
                                    + Span(t.day, Daily(w, now), d) + recent
    <3> DEFINE s1 == Span(t.week, WindowStart(w, now), Weekly(w, now))
               s2 == Span(t.day, Daily(w, now), d)
               s3 == Span(t.hour, d, Fresh(now))
               s4 == Span(t.fine, Fresh(now), now + 1)
    <3>1. WindowBytes(t, w, now) = s1 + s2 + s3 + s4 BY WindowParts
    <3>2. s1 \in Int /\ s2 \in Int /\ s3 \in Int /\ s4 \in Int BY <1>1, BetweenFacts
    <3>3. recent = s3 + s4 OBVIOUS
    <3> HIDE DEF s1, s2, s3, s4, recent
    <3> QED BY <3>1, <3>2, <3>3 DEF s1, s2
  <2> QED BY <2>1
<1>8. Span(t.week, d, d) = 0 /\ Span(t.week, k, k) = 0 /\ Span(t.day, d, d) = 0 /\ Span(t.day, k, k) = 0
      /\ Span(t.day, m, m) = 0
  <2> HIDE DEF d, k, m
  <2> QED BY <1>1, <1>3, EmptySpan
<1>9. recent \in Int /\ Span(t.day, k, d) \in Int /\ Span(t.day, m, k) \in Int /\ Span(t.day, m, d) \in Int
  <2>1. recent = Span(t.day, d, e) BY <1>5
  <2> HIDE DEF recent
  <2> QED BY <1>1, <2>1, BetweenFacts
<1>10. /\ WindowStart("today", now) = d /\ Weekly("today", now) = d /\ Daily("today", now) = d
       /\ WindowStart("week", now) = k /\ Weekly("week", now) = k /\ Daily("week", now) = k
       /\ WindowStart("month", now) = m /\ Weekly("month", now) = k
       /\ Daily("month", now) = Max({m, k})
  BY DEF WindowStart, Weekly, Daily
<1> HIDE DEF recent
<1>11. WindowBytes(t, "today", now) = DaysFrom(t, d, now)
  <2>1. WindowBytes(t, "today", now) = Span(t.week, d, d) + Span(t.day, d, d) + recent
    BY <1>7, <1>10
  <2> QED BY <1>5, <1>8, <1>9, <2>1 DEF DaysFrom
<1>12. WindowBytes(t, "week", now) = DaysFrom(t, k, now)
  <2>1. WindowBytes(t, "week", now) = Span(t.week, k, k) + Span(t.day, k, d) + recent
    BY <1>7, <1>10
  <2>2. Span(t.day, k, k) + Span(t.day, k, d) + recent = Span(t.day, k, e)
    <3> HIDE DEF k, d, e
    <3> QED BY <1>3, <1>4, <1>6
  <2> QED BY <1>8, <1>9, <2>1, <2>2 DEF DaysFrom
<1>13. ASSUME WeekStart(m) = m \/ k <= m
       PROVE  WindowBytes(t, "month", now) = DaysFrom(t, m, now)
  <2>1. WindowBytes(t, "month", now) = Span(t.week, m, k) + Span(t.day, Max({m, k}), d) + recent
    BY <1>7, <1>10
  <2>2. CASE k <= m
    <3>1. Max({m, k}) = m
      <4> HIDE DEF m, k
      <4> QED BY <1>3, <2>2, MaxIs
    <3>2. Span(t.week, m, k) = 0
      <4> HIDE DEF m, k
      <4> QED BY <1>1, <1>3, <2>2, EmptySpan
    <3>3. Span(t.day, m, m) + Span(t.day, m, d) + recent = Span(t.day, m, e)
      <4> HIDE DEF m, d, e
      <4> QED BY <1>3, <1>4, <1>6
    <3>4. Span(t.day, m, d) + recent = Span(t.day, m, e)
      <4> HIDE DEF m, d, e
      <4> QED BY <1>8, <1>9, <3>3
    <3>5. WindowBytes(t, "month", now) = 0 + Span(t.day, m, d) + recent BY <2>1, <3>1, <3>2
    <3> QED BY <1>9, <3>4, <3>5 DEF DaysFrom
  <2>3. CASE ~(k <= m)
    <3>1. WeekStart(m) = m /\ m <= k
      <4> HIDE DEF m, k
      <4> QED BY <1>3, <1>13, <2>3
    <3>2. Max({m, k}) = k
      <4> HIDE DEF m, k
      <4>1. {m, k} \subseteq Int /\ k \in {m, k} /\ \A x \in {m, k} : x <= k BY <1>3, <3>1
      <4> QED BY <4>1, MaxIs
    <3>3. Aligned(m, "week")
      <4>1. BucketStart(m, "week") = WeekStart(m) BY DEF BucketStart
      <4> QED BY <1>3, <3>1, <4>1 DEF Aligned
    <3>4. Aligned(k, "week") BY <1>2, <1>3, BucketIdempotent DEF Aligned
    <3>5. Span(t.week, m, k) = Span(t.day, m, k)
      <4>1. \A g \in Int : m <= g => Row(t.week, g) = BucketBytes(t.day, g, "week")
        BY <1>3 DEF Agree, Cuts
      <4> HIDE DEF m, k
      <4> QED BY <1>1, <1>2, <3>3, <3>4, <4>1, SpanOfLayers
    <3>6. Span(t.day, m, k) + Span(t.day, k, d) + recent = Span(t.day, m, e)
      <4> HIDE DEF m, k, d, e
      <4> QED BY <1>3, <1>4, <1>6, <3>1
    <3> QED BY <2>1, <3>2, <3>5, <3>6 DEF DaysFrom
  <2> QED BY <2>2, <2>3
<1> QED BY <1>11, <1>12, <1>13
-----------------------------------------------------------------------------
(***************************************************************************)
(* The chart of today.                                                     *)
(***************************************************************************)
LEMMA HourFacts ==
  /\ DayTicks \div HourTicks \in Nat \ {0}
  /\ Hours \subseteq Nat /\ IsFiniteSet(Hours) /\ 0 \in Hours
  /\ Cardinality(Hours) = DayTicks \div HourTicks
  /\ \A t \in Int : HourOfDay(t) \in Hours
<1> DEFINE n == DayTicks \div HourTicks
<1>1. /\ HourTicks \in Nat \ {0} /\ DayTicks \in Nat \ {0} /\ DayTicks % HourTicks = 0
  BY PyramidAssumption
<1>2. n \in Int /\ DayTicks = n * HourTicks
  <2>1. n \in Int /\ DayTicks % HourTicks \in Int
        /\ DayTicks = n * HourTicks + (DayTicks % HourTicks)
    BY <1>1, Quotient, Remainder
  <2>2. n * HourTicks \in Int BY <1>1, <2>1
  <2> HIDE DEF n
  <2> QED BY <1>1, <2>1, <2>2
<1> HIDE DEF n
<1>3. n \in Nat \ {0} BY <1>1, <1>2
<1>4. Hours = 0..(n-1) BY DEF Hours, n
<1>5. IsFiniteSet(Hours) /\ Cardinality(Hours) = n BY <1>3, <1>4, FS_Interval
<1>6. ASSUME NEW t \in Int PROVE HourOfDay(t) \in Hours
  <2> DEFINE r == t - DayStart(t)
             h == r \div HourTicks
  <2>1. r \in Int /\ 0 <= r /\ r < DayTicks
    <3>1. DayStart(t) \in Int /\ DayStart(t) <= t /\ t < DayStart(t) + DayTicks
      BY <1>1, FloorFacts DEF DayStart
    <3> QED BY <1>1, <3>1
  <2> HIDE DEF r
  <2>2. h \in Int /\ h * HourTicks <= r /\ r < h * HourTicks + HourTicks BY <1>1, <2>1, Quotient
  <2> HIDE DEF h
  <2>3. h >= 0 BY <1>1, <2>1, <2>2
  <2>4. h < n BY <1>1, <1>2, <1>3, <2>1, <2>2
  <2> QED BY <1>3, <1>4, <2>2, <2>3, <2>4 DEF HourOfDay, h, r
<1> QED BY <1>3, <1>4, <1>5, <1>6 DEF n

Charts == [Hours -> Nat]

LEMMA SpreadFacts ==
  ASSUME NEW total \in Nat, NEW last \in Hours
  PROVE  Spread(total, last) \in Charts
<1> DEFINE base == total \div (last + 1)
<1>1. last \in Nat /\ last + 1 \in Nat \ {0} BY HourFacts
<1>2. base \in Int /\ base * (last + 1) <= total BY <1>1, Quotient
<1>3. base >= 0
  <2>1. total < base * (last + 1) + (last + 1) BY <1>1, Quotient
  <2> HIDE DEF base
  <2> QED BY <1>1, <1>2, <2>1
<1>4. Spread(total, last) = [h \in Hours |-> CASE h < last -> base
                                               [] h = last -> total - base * last
                                               [] OTHER    -> 0]
  BY DEF Spread
<1> HIDE DEF base
<1>5. base * last \in Nat /\ base * (last + 1) = base * last + base BY <1>1, <1>2, <1>3
<1>6. total - base * last \in Nat BY <1>1, <1>2, <1>3, <1>5
<1>7. \A h \in Hours : (CASE h < last -> base [] h = last -> total - base * last [] OTHER -> 0) \in Nat
  BY <1>2, <1>3, <1>6
<1> QED BY <1>4, <1>7 DEF Charts

\* What the day's snapshots make of the chart: without a gain there were no
\* bytes either.
DayCharts ==
  {c \in [points : Charts, bytes : Nat, first : BOOLEAN, hour : Hours, observed : BOOLEAN] :
     ~c.observed => c.bytes = 0}

NoPoints ==
  [points |-> FlatChart, bytes |-> 0, first |-> TRUE, hour |-> 0, observed |-> FALSE]

LEMMA NoPointsFacts == NoPoints \in DayCharts
<1>1. FlatChart \in Charts BY DEF FlatChart, Charts
<1>2. 0 \in Hours /\ 0 \in Nat BY HourFacts
<1> QED BY <1>1, <1>2 DEF DayCharts, NoPoints

LEMMA AddSampleFacts ==
  ASSUME NEW c \in DayCharts, NEW s, s.at \in Int, s.bytes \in Nat
  PROVE  AddSample(c, s) \in DayCharts /\ AddSample(c, s).bytes = s.bytes
<1> DEFINE h == HourOfDay(s.at)
           delta == Max({0, s.bytes - c.bytes})
           first == c.first /\ s.bytes > 0
           spread == [k \in Hours |-> c.points[k] + Spread(s.bytes, h)[k]]
           added == [c.points EXCEPT ![h] = @ + delta]
           n == AddSample(c, s)
<1>1. n = [points |-> IF first THEN spread ELSE added, bytes |-> s.bytes, first |-> FALSE,
           hour |-> h, observed |-> c.observed \/ delta > 0]
  BY DEF AddSample
<1>2. c.points \in Charts /\ c.bytes \in Nat /\ c.observed \in BOOLEAN BY DEF DayCharts
<1>3. h \in Hours BY HourFacts
<1>4. delta \in Nat /\ delta = IF s.bytes - c.bytes <= 0 THEN 0 ELSE s.bytes - c.bytes
  <2>1. s.bytes - c.bytes \in Int BY <1>2
  <2> DEFINE x == s.bytes - c.bytes
  <2> HIDE DEF x
  <2>2. x \in Int BY <2>1 DEF x
  <2>3. Max({0, x}) \in Nat /\ Max({0, x}) = IF x <= 0 THEN 0 ELSE x BY <2>2, AtLeastNothing
  <2> QED BY <2>3 DEF x
<1>5. Spread(s.bytes, h) \in Charts BY <1>3, SpreadFacts
<1> HIDE DEF h, delta, n
<1>6. spread \in Charts
  <2>1. \A k \in Hours : c.points[k] \in Nat /\ Spread(s.bytes, h)[k] \in Nat
    BY <1>2, <1>5 DEF Charts
  <2>2. \A k \in Hours : c.points[k] + Spread(s.bytes, h)[k] \in Nat BY <2>1
  <2> QED BY <2>2 DEF Charts
<1>7. added \in Charts
  <2>1. c.points[h] + delta \in Nat BY <1>2, <1>3, <1>4 DEF Charts
  <2> QED BY <1>2, <1>3, <2>1 DEF Charts
<1>8. ASSUME ~(c.observed \/ delta > 0) PROVE s.bytes = 0
  <2>1. c.bytes = 0 BY <1>8 DEF DayCharts
  <2> QED BY <1>4, <1>8, <2>1
<1> HIDE DEF spread, added, first
<1>9. (IF first THEN spread ELSE added) \in Charts BY <1>6, <1>7
<1>10. n \in DayCharts BY <1>1, <1>3, <1>8, <1>9 DEF DayCharts
<1>11. n.bytes = s.bytes BY <1>1
<1> QED BY <1>10, <1>11 DEF n
\* Going through the n snapshots of q: R[k] is the chart of the first k.
ChartsOver(R, n, q) ==
  /\ R \in [0..n -> DayCharts]
  /\ R[0] = NoPoints /\ R[n] = ChartPoints(q)
  /\ \A k \in 1..n : R[k] = AddSample(R[k-1], q[k])

LEMMA ChartPrefixes ==
  ASSUME NEW S, Samples(S), NEW n \in Nat, NEW q \in [1..n -> S]
  PROVE  \E R : ChartsOver(R, n, q)
<1> DEFINE G == [p \in DayCharts \X (1..n) |-> AddSample(p[1], q[p[2]])]
           Folds(h) == h = [s \in SUBSET (1..n) |-> IF s = {} THEN NoPoints
                              ELSE AddSample(h[s \ {Max(s)}], q[Max(s)])]
           H == CHOOSE h : Folds(h)
           R == [k \in 0..n |-> H[1..k]]
<1>0. \A i \in 1..n : q[i].at \in Int /\ q[i].bytes \in Nat BY DEF Samples
<1>1. G \in [DayCharts \X (1..n) -> DayCharts] BY <1>0, AddSampleFacts
<1>2. ASSUME NEW s \in SUBSET (1..n), s # {} PROVE Max(s) \in s
  <2>1. IsFiniteSet(1..n) BY FS_Interval
  <2>2. IsFiniteSet(s) BY <2>1, FS_Subset
  <2>3. s \subseteq Int OBVIOUS
  <2> QED BY <1>2, <2>2, <2>3, MaxOfFinite
<1>3. PICK h : FoldsOver(h, n, DayCharts, NoPoints, G)
  <2> HIDE DEF G
  <2> QED BY <1>1, NoPointsFacts, FoldExists
<1>4. ASSUME NEW s \in SUBSET (1..n)
      PROVE  h[s] = IF s = {} THEN NoPoints ELSE AddSample(h[s \ {Max(s)}], q[Max(s)])
  BY <1>2, <1>3 DEF FoldsOver
<1>5. Folds(h)
  <2>1. h = [s \in SUBSET (1..n) |-> h[s]] BY <1>3 DEF FoldsOver
  <2> QED BY <1>4, <2>1
<1>6. Folds(H) BY <1>5, Zenon
<1>7. R[0] = NoPoints
  <2>1. 1..0 = {} /\ {} \in SUBSET (1..n) /\ 0 \in 0..n OBVIOUS
  <2> HIDE DEF H
  <2> QED BY <1>6, <2>1
<1>8. ASSUME NEW k \in 1..n PROVE R[k] = AddSample(R[k-1], q[k])
  <2>1. Max(1..k) = k
    <3>1. 1..k \subseteq Int /\ k \in 1..k /\ \A x \in 1..k : x <= k OBVIOUS
    <3> QED BY <3>1, MaxIs
  <2>2. (1..k) \ {k} = 1..(k-1) /\ 1..k # {} /\ 1..k \in SUBSET (1..n) /\ k \in 0..n /\ k-1 \in 0..n
    OBVIOUS
  <2> HIDE DEF H
  <2>3. H[1..k] = AddSample(H[(1..k) \ {Max(1..k)}], q[Max(1..k)]) BY <1>6, <2>2
  <2> QED BY <2>1, <2>2, <2>3
<1>9. R[n] = ChartPoints(q)
  <2>1. DOMAIN q = 1..n OBVIOUS
  <2>2. ChartPoints(q) = H[DOMAIN q]
    BY <2>1, Zenon DEF ChartPoints, NoPoints, FoldLeft, MapThenFoldSet
  <2> HIDE DEF H
  <2> QED BY <2>1, <2>2
<1>10. R \in [0..n -> DayCharts]
  <2> DEFINE good == {k \in Nat : k <= n => R[k] \in DayCharts}
  <2> HIDE DEF R
  <2>1. 0 \in good BY <1>7, NoPointsFacts
  <2>2. ASSUME NEW k \in Nat, k \in good PROVE k + 1 \in good
    <3>1. ASSUME k + 1 <= n PROVE R[k + 1] \in DayCharts
      <4>1. k + 1 \in 1..n /\ (k + 1) - 1 = k /\ k <= n BY <3>1
      <4>2. R[k] \in DayCharts BY <2>2, <4>1
      <4>3. R[k + 1] = AddSample(R[k], q[k + 1]) BY <1>8, <4>1
      <4>4. q[k + 1].at \in Int /\ q[k + 1].bytes \in Nat BY <1>0, <4>1
      <4> QED BY <4>2, <4>3, <4>4, AddSampleFacts
    <3> QED BY <3>1
  <2> HIDE DEF good
  <2>3. Nat \subseteq good BY <2>1, <2>2, StepInduction
  <2>4. \A k \in 0..n : R[k] \in DayCharts BY <2>3 DEF good
  <2> QED BY <2>4 DEF R
<1> HIDE DEF R
<1> QED BY <1>7, <1>8, <1>9, <1>10 DEF ChartsOver

\* The chart of n snapshots knows the bytes of the last.
LEMMA ChartPointsFacts ==
  ASSUME NEW S, Samples(S), NEW n \in Nat, NEW q \in [1..n -> S]
  PROVE  ChartPoints(q) \in DayCharts /\ (n > 0 => ChartPoints(q).bytes = q[n].bytes)
<1>1. PICK R : ChartsOver(R, n, q) BY ChartPrefixes
<1>2. R[n] \in DayCharts /\ R[n] = ChartPoints(q) BY <1>1 DEF ChartsOver
<1>3. ASSUME n > 0 PROVE R[n].bytes = q[n].bytes
  <2>1. n \in 1..n /\ n - 1 \in 0..n BY <1>3
  <2>2. R[n] = AddSample(R[n-1], q[n]) /\ R[n-1] \in DayCharts BY <1>1, <2>1 DEF ChartsOver
  <2>3. q[n].at \in Int /\ q[n].bytes \in Nat BY <2>1 DEF Samples
  <2> QED BY <2>2, <2>3, AddSampleFacts
<1> QED BY <1>2, <1>3

\* The snapshots in order: the last is a newest one.
LEMMA InOrderFacts ==
  ASSUME NEW S, Samples(S)
  PROVE  \E n \in Nat : /\ InOrder(S) \in [1..n -> S] /\ (S # {} => n > 0)
                        /\ \A s \in S : s.at <= InOrder(S)[n].at
<1> DEFINE R == {p \in S \X S : p[1].at <= p[2].at}
           n == Cardinality(S)
           q == InOrder(S)
<1>1. /\ \A x, y \in S : <<x, y>> \in R <=> x.at <= y.at
      /\ \A x, y \in S : <<x, y>> \in R \/ <<y, x>> \in R
      /\ \A x, y, z \in S : <<x, y>> \in R /\ <<y, z>> \in R => <<x, z>> \in R
  BY DEF Samples
<1>2. \A s \in SetToSeqs(S) : DOMAIN s = 1..n /\ s \in [1..n -> S]
  BY DEF SetToSeqs
<1> HIDE DEF R
<1>3. \E s \in SetToSeqs(S) : \A i, j \in DOMAIN s : i < j => <<s[i], s[j]>> \in R
  BY <1>1, SortedExists DEF Samples
<1>4. \E s \in SetToSeqs(S) : \A i, j \in DOMAIN s : i < j => s[i].at <= s[j].at
  BY <1>1, <1>2, <1>3
<1>5. q \in SetToSeqs(S) /\ \A i, j \in DOMAIN q : i < j => q[i].at <= q[j].at
  BY <1>4 DEF InOrder
<1>6. n \in Nat /\ IsFiniteSet(S) BY FS_CardinalityType DEF Samples
<1>7. q \in [1..n -> S] /\ \A i, j \in 1..n : i # j => q[i] # q[j]
  BY <1>5 DEF SetToSeqs
<1>8. \A f \in S : \E i \in 1..n : q[i] = f
  <2>1. q \in Injection(1..n, S) BY <1>7 DEF Injection, IsInjective
  <2>2. Cardinality(1..n) = n /\ IsFiniteSet(1..n) BY <1>6, FS_Interval
  <2>3. q \in Surjection(1..n, S) BY <1>6, <2>1, <2>2, FS_Injection
  <2> QED BY <2>3 DEF Surjection
<1> HIDE DEF q, n
<1>9. ASSUME NEW s \in S PROVE n > 0 /\ s.at <= q[n].at
  <2>1. PICK i \in 1..n : q[i] = s BY <1>8
  <2>2. n \in 1..n /\ n > 0 BY <1>6, <2>1
  <2>3. CASE i = n BY <2>1, <2>2, <2>3 DEF Samples
  <2>4. CASE i # n
    <3>1. i < n BY <1>6, <2>4
    <3> QED BY <1>5, <1>7, <2>1, <2>2, <3>1
  <2> QED BY <2>3, <2>4
<1> QED BY <1>6, <1>7, <1>9 DEF q
\* Rescaling, point by point.
Rescaled == [points : Charts, applied : Nat, best : Hours]

LEMMA RoundedFacts ==
  ASSUME NEW a \in Nat, NEW b \in Nat \ {0}
  PROVE  Rounded(a, b) \in Nat
<1> DEFINE x == 2 * a + b
           y == 2 * b
<1>1. x \in Nat /\ y \in Nat \ {0} OBVIOUS
<1>2. Rounded(a, b) = x \div y BY DEF Rounded
<1> HIDE DEF x, y
<1>3. x \div y \in Int /\ x < (x \div y) * y + y BY <1>1, Quotient
<1> DEFINE d == x \div y
<1> HIDE DEF d
<1>4. d \in Int /\ x < d * y + y BY <1>3 DEF d
<1>5. d >= 0 BY <1>1, <1>4
<1> QED BY <1>2, <1>4, <1>5 DEF d

IsRescale(n, c, h) ==
  /\ n \in Rescaled
  /\ n.applied = c.applied + n.points[h]
  /\ \A k \in Hours \ {h} : n.points[k] = c.points[k]

LEMMA RescaleFacts ==
  ASSUME NEW target \in Nat, NEW total \in Nat \ {0}, NEW c \in Rescaled, NEW h \in Hours
  PROVE  IsRescale(Rescale(target, total, c, h), c, h)
<1> DEFINE best == IF c.points[h] >= c.points[c.best] THEN h ELSE c.best
           scaled == Rounded(c.points[h] * target, total)
           n == Rescale(target, total, c, h)
<1>1. n = [points |-> [c.points EXCEPT ![h] = scaled],
           applied |-> c.applied + scaled, best |-> best]
  BY DEF Rescale
<1>2. c.points \in Charts /\ c.applied \in Nat /\ c.best \in Hours BY DEF Rescaled
<1>3. scaled \in Nat
  <2>1. c.points[h] \in Nat BY <1>2 DEF Charts
  <2>2. c.points[h] * target \in Nat BY <2>1
  <2> QED BY <2>2, RoundedFacts
<1>4. best \in Hours BY <1>2
<1> HIDE DEF scaled, best, n
<1>5. [c.points EXCEPT ![h] = scaled] \in Charts BY <1>2, <1>3 DEF Charts
<1>6. n \in Rescaled BY <1>1, <1>2, <1>3, <1>4, <1>5 DEF Rescaled
<1>7. n.points[h] = scaled /\ \A k \in Hours \ {h} : n.points[k] = c.points[k]
  BY <1>1, <1>2 DEF Charts
<1>8. n.applied = c.applied + n.points[h] BY <1>1, <1>7
<1>9. IsRescale(n, c, h) BY <1>6, <1>7, <1>8 DEF IsRescale
<1> QED BY <1>9 DEF n

\* The sum of a chart one of whose points has changed.
LEMMA SumOfChanged ==
  ASSUME NEW S, IsFiniteSet(S), NEW f, NEW g, NEW x \in S,
         \A y \in S : f[y] \in Int /\ g[y] \in Int, \A y \in S \ {x} : g[y] = f[y]
  PROVE  SumFunctionOnSet(g, S) = SumFunctionOnSet(f, S) - f[x] + g[x]
<1> DEFINE T == S \ {x}
<1>1. IsFiniteSet(T) BY FS_RemoveElement
<1>2. \A y \in T : f[y] \in Int /\ g[y] = f[y] OBVIOUS
<1>3. SumFunctionOnSet(f, S) = f[x] + SumFunctionOnSet(f, T) BY SumTakeOut
<1>4. SumFunctionOnSet(g, S) = g[x] + SumFunctionOnSet(g, T) BY SumTakeOut
<1> HIDE DEF T
<1>5. SumFunctionOnSet(g, T) = SumFunctionOnSet(f, T) BY <1>1, <1>2, SumSame
<1>6. SumFunctionOnSet(f, T) \in Int /\ f[x] \in Int /\ g[x] \in Int BY <1>1, <1>2, SumTakeOut
<1> QED BY <1>3, <1>4, <1>5, <1>6

\* R[k] is what rescaling has made of the first k points.
RescalesOver(R, n, points, target) ==
  /\ R \in [0..n -> Rescaled]
  /\ R[0] = [points |-> points, applied |-> 0, best |-> 0]
  /\ R[n] = RescaleAll(points, target)
  /\ \A k \in 1..n : R[k] = Rescale(target, Bytes(points), R[k-1], k - 1)

LEMMA RescalePrefixes ==
  ASSUME NEW points \in Charts, NEW target \in Nat, Bytes(points) \in Nat \ {0}
  PROVE  \E R : RescalesOver(R, Cardinality(Hours), points, target)
<1> DEFINE n == Cardinality(Hours)
           total == Bytes(points)
           b == [points |-> points, applied |-> 0, best |-> 0]
           q == [i \in 1..n |-> i]
           Op(c, i) == Rescale(target, total, c, i - 1)
           G == [p \in Rescaled \X (1..n) |-> Op(p[1], p[2])]
           Folds(h) == h = [s \in SUBSET (1..n) |-> IF s = {} THEN b
                              ELSE Op(h[s \ {Max(s)}], q[Max(s)])]
           H == CHOOSE h : Folds(h)
           R == [k \in 0..n |-> H[1..k]]
<1>0. n \in Nat /\ \A i \in 1..n : i - 1 \in Hours BY HourFacts DEF Hours
<1>1. RescaleAll(points, target) = (CHOOSE h : h = [s \in SUBSET (DOMAIN q) |-> IF s = {} THEN b
                              ELSE Op(h[s \ {Max(s)}], q[Max(s)])])[DOMAIN q]
  BY Zenon DEF RescaleAll, FoldLeft, MapThenFoldSet
<1>2. DOMAIN q = 1..n /\ \A i \in 1..n : q[i] = i OBVIOUS
<1>3. \A c \in Rescaled, i \in 1..n : Op(c, i) \in Rescaled BY <1>0, RescaleFacts DEF IsRescale
<1>4. b \in Rescaled BY HourFacts DEF Rescaled
<1> HIDE DEF n, total, b, q, Op
<1>5. G \in [Rescaled \X (1..n) -> Rescaled] BY <1>3
<1>6. ASSUME NEW s \in SUBSET (1..n), s # {} PROVE Max(s) \in s
  <2>1. IsFiniteSet(1..n) BY <1>0, FS_Interval
  <2>2. IsFiniteSet(s) BY <2>1, FS_Subset
  <2>3. s \subseteq Int OBVIOUS
  <2> QED BY <1>6, <2>2, <2>3, MaxOfFinite
<1>7. PICK h : FoldsOver(h, n, Rescaled, b, G)
  <2> HIDE DEF G
  <2> QED BY <1>0, <1>4, <1>5, FoldExists
<1>8. ASSUME NEW s \in SUBSET (1..n)
      PROVE  h[s] = IF s = {} THEN b ELSE Op(h[s \ {Max(s)}], q[Max(s)])
  BY <1>2, <1>6, <1>7 DEF FoldsOver
<1>9. Folds(h)
  <2>1. h = [s \in SUBSET (1..n) |-> h[s]] BY <1>7 DEF FoldsOver
  <2> QED BY <1>8, <2>1
<1>10. Folds(H) BY <1>9, Zenon
<1>11. R[0] = b
  <2>1. 1..0 = {} /\ {} \in SUBSET (1..n) /\ 0 \in 0..n BY <1>0
  <2> HIDE DEF H
  <2> QED BY <1>10, <2>1
<1>12. ASSUME NEW k \in 1..n PROVE R[k] = Op(R[k-1], k)
  <2>1. Max(1..k) = k
    <3>1. 1..k \subseteq Int /\ k \in 1..k /\ \A x \in 1..k : x <= k OBVIOUS
    <3> QED BY <3>1, MaxIs
  <2>2. (1..k) \ {k} = 1..(k-1) /\ 1..k # {} /\ 1..k \in SUBSET (1..n) /\ k \in 0..n /\ k-1 \in 0..n
    <3>1. n \in Nat /\ k \in Nat /\ 1 <= k /\ k <= n BY <1>0
    <3>2. (1..k) \ {k} = 1..(k-1) BY <3>1
    <3>3. 1..k # {} /\ 1..k \in SUBSET (1..n) BY <3>1
    <3> QED BY <3>1, <3>2, <3>3
  <2> HIDE DEF H
  <2>3. H[1..k] = Op(H[(1..k) \ {Max(1..k)}], q[Max(1..k)]) BY <1>10, <2>2
  <2> QED BY <1>2, <2>1, <2>2, <2>3
<1>13. R[n] = RescaleAll(points, target)
  <2>1. RescaleAll(points, target) = H[1..n] BY <1>1, <1>2
  <2> HIDE DEF H
  <2> QED BY <1>0, <2>1
<1>14. R \in [0..n -> Rescaled]
  <2> DEFINE good == {k \in Nat : k <= n => R[k] \in Rescaled}
  <2> HIDE DEF R
  <2>1. 0 \in good BY <1>4, <1>11
  <2>2. ASSUME NEW k \in Nat, k \in good PROVE k + 1 \in good
    <3>1. ASSUME k + 1 <= n PROVE R[k + 1] \in Rescaled
      <4>1. k + 1 \in 1..n /\ (k + 1) - 1 = k /\ k <= n BY <1>0, <3>1
      <4>2. R[k] \in Rescaled BY <2>2, <4>1
      <4>3. R[k + 1] = Op(R[k], k + 1) BY <1>12, <4>1
      <4> QED BY <1>3, <4>1, <4>2, <4>3
    <3> QED BY <3>1
  <2> HIDE DEF good
  <2>3. Nat \subseteq good BY <2>1, <2>2, StepInduction
  <2>4. \A k \in 0..n : R[k] \in Rescaled BY <1>0, <2>3 DEF good
  <2> QED BY <2>4 DEF R
<1> HIDE DEF R
<1> QED BY <1>11, <1>12, <1>13, <1>14 DEF RescalesOver, n, Op, total, b
\* After the loop what has been applied is what the points add up to.
LEMMA RescaleAllFacts ==
  ASSUME NEW points \in Charts, NEW target \in Nat, Bytes(points) \in Nat \ {0}
  PROVE  /\ RescaleAll(points, target) \in Rescaled
         /\ SumFunctionOnSet(RescaleAll(points, target).points, Hours)
              = RescaleAll(points, target).applied
<1> DEFINE n == Cardinality(Hours)
           total == Bytes(points)
<1>1. PICK R : RescalesOver(R, n, points, target) BY RescalePrefixes
<1>2. n \in Nat /\ Hours = 0..(n-1) BY HourFacts DEF Hours
<1>3. total \in Nat \ {0} OBVIOUS
<1> HIDE DEF n, total
<1>4. /\ R \in [0..n -> Rescaled] /\ R[0] = [points |-> points, applied |-> 0, best |-> 0]
      /\ R[n] = RescaleAll(points, target)
      /\ \A k \in 1..n : R[k] = Rescale(target, total, R[k-1], k - 1)
  BY <1>1 DEF RescalesOver, total
<1> DEFINE Sums(k) == SumFunctionOnSet(R[k].points, 0..(k-1)) = R[k].applied
           good == {k \in Nat : k <= n => Sums(k)}
<1>5. 0 \in good
  <2>1. 0..(0-1) = {} OBVIOUS
  <2>2. SumFunctionOnSet(R[0].points, 0..(0-1)) = 0 BY <2>1, SumEmpty
  <2>3. R[0].applied = 0 BY <1>4
  <2> QED BY <2>2, <2>3
<1>6. ASSUME NEW k \in Nat, k \in good PROVE k + 1 \in good
  <2>1. ASSUME k + 1 <= n PROVE Sums(k + 1)
    <3> DEFINE old == R[k]
               new == R[k + 1]
               L == 0..(k-1)
    <3>1. k + 1 \in 1..n /\ k \in 0..n /\ (k + 1) - 1 = k /\ k \in Hours BY <1>2, <2>1
    <3>2. SumFunctionOnSet(old.points, L) = old.applied BY <1>6, <2>1, <3>1
    <3>3. old \in Rescaled /\ new = Rescale(target, total, old, k) BY <1>4, <3>1
    <3> HIDE DEF old, new
    <3>4. /\ new \in Rescaled /\ new.applied = old.applied + new.points[k]
          /\ \A h \in Hours \ {k} : new.points[h] = old.points[h]
      <4>1. IsRescale(Rescale(target, total, old, k), old, k)
        BY <1>3, <3>1, <3>3, RescaleFacts
      <4> QED BY <3>3, <4>1 DEF IsRescale
    <3>5. IsFiniteSet(L) /\ L \subseteq Hours \ {k} /\ k \notin L
      <4>1. IsFiniteSet(L) BY FS_Interval
      <4> QED BY <1>2, <2>1, <4>1
    <3>6. L \cup {k} = 0..((k+1)-1) OBVIOUS
    <3>7. \A h \in Hours : new.points[h] \in Int /\ old.points[h] \in Int
      BY <3>3, <3>4 DEF Rescaled, Charts
    <3> HIDE DEF L
    <3>8. SumFunctionOnSet(new.points, L) = SumFunctionOnSet(old.points, L)
      <4>1. \A h \in L : old.points[h] \in Int /\ new.points[h] = old.points[h]
        BY <3>4, <3>5, <3>7
      <4> QED BY <3>5, <4>1, SumSame
    <3>9. SumFunctionOnSet(new.points, L \cup {k}) = new.points[k] + SumFunctionOnSet(new.points, L)
      <4>1. new.points[k] \in Int /\ \A y \in L : new.points[y] \in Int BY <3>1, <3>5, <3>7
      <4> QED BY <3>5, <4>1, SumAdd
    <3>10. new.points[k] \in Int /\ old.applied \in Int BY <3>1, <3>3, <3>7 DEF Rescaled
    <3>11. SumFunctionOnSet(new.points, L \cup {k}) = new.applied
      BY <3>2, <3>4, <3>8, <3>9, <3>10
    <3> QED BY <3>6, <3>11 DEF new
  <2> HIDE DEF Sums
  <2> QED BY <2>1
<1> HIDE DEF good
<1>7. Nat \subseteq good BY <1>5, <1>6, StepInduction
<1>8. Sums(n)
  <2>1. n \in good BY <1>2, <1>7
  <2> HIDE DEF Sums
  <2> QED BY <1>2, <2>1 DEF good
<1>9. R[n] \in Rescaled BY <1>2, <1>4
<1> QED BY <1>2, <1>4, <1>8, <1>9

LEMMA FlatChartFacts ==
  FlatChart \in [Hours -> Int] /\ SumFunctionOnSet(FlatChart, Hours) = 0
<1> DEFINE good == {T \in SUBSET Hours : SumFunctionOnSet(FlatChart, T) = 0}
<1>1. \A h \in Hours : FlatChart[h] = 0 BY DEF FlatChart
<1>2. {} \in good BY SumEmpty
<1>3. ASSUME NEW T \in SUBSET Hours, NEW x \in Hours \ T, T \in good
      PROVE  T \cup {x} \in good
  <2>1. IsFiniteSet(T) BY HourFacts, FS_Subset
  <2>2. FlatChart[x] \in Int /\ \A y \in T : FlatChart[y] \in Int
    BY <1>1
  <2>3. SumFunctionOnSet(FlatChart, T \cup {x}) = FlatChart[x] + SumFunctionOnSet(FlatChart, T)
    BY <2>1, <2>2, SumAdd
  <2> QED BY <1>1, <1>3, <2>3
<1> HIDE DEF good
<1>4. Hours \in good BY <1>2, <1>3, HourFacts, InsertionInduction
<1> QED BY <1>4 DEF good, FlatChart

LEMMA ReconcileFacts ==
  ASSUME NEW points \in Charts, NEW target \in Nat, NEW fallback \in Hours
  PROVE  /\ Reconcile(points, target, fallback) \in [Hours -> Int]
         /\ SumFunctionOnSet(Reconcile(points, target, fallback), Hours) = target
<1> DEFINE end == RescaleAll(points, target)
           last == [end.points EXCEPT ![end.best] = @ + (target - end.applied)]
           alone == [points EXCEPT ![fallback] = target]
           r == Reconcile(points, target, fallback)
<1>1. r = CASE target <= 0 -> FlatChart
            [] target > 0 /\ Bytes(points) <= 0 -> alone
            [] OTHER -> last
  BY Zenon DEF Reconcile
<1>2. IsFiniteSet(Hours) BY HourFacts
<1>3. Bytes(points) = SumFunctionOnSet(points, Hours) BY DEF Bytes, SumFunction, Charts
<1>4. Bytes(points) \in Nat
  <2>1. \A h \in Hours : points[h] \in Nat BY DEF Charts
  <2> QED BY <1>2, <1>3, <2>1, SumNotNegative
<1>5. FlatChart \in [Hours -> Int] /\ SumFunctionOnSet(FlatChart, Hours) = 0 BY FlatChartFacts
<1> HIDE DEF r, last, alone, end
<1>6. CASE target <= 0
  <2>1. r = FlatChart /\ target = 0 BY <1>1, <1>6
  <2> QED BY <1>5, <2>1 DEF r
<1>7. CASE target > 0 /\ Bytes(points) <= 0
  <2>1. r = alone BY <1>1, <1>7
  <2>2. SumFunctionOnSet(points, Hours) = 0 BY <1>3, <1>4, <1>7
  <2>3. \A h \in Hours : points[h] \in Nat BY DEF Charts
  <2>4. points[fallback] = 0
    <3>1. SumFunctionOnSet(points, Hours)
            = points[fallback] + SumFunctionOnSet(points, Hours \ {fallback})
      BY <1>2, <2>3, SumTakeOut
    <3>2. IsFiniteSet(Hours \ {fallback}) BY <1>2, FS_RemoveElement
    <3>3. SumFunctionOnSet(points, Hours \ {fallback}) \in Nat BY <2>3, <3>2, SumNotNegative
    <3> QED BY <2>2, <2>3, <3>1, <3>3
  <2>5. /\ alone \in [Hours -> Int] /\ alone[fallback] = target
        /\ \A h \in Hours \ {fallback} : alone[h] = points[h]
    BY DEF alone, Charts
  <2>6. SumFunctionOnSet(alone, Hours)
          = SumFunctionOnSet(points, Hours) - points[fallback] + alone[fallback]
    <3>1. \A h \in Hours : points[h] \in Int /\ alone[h] \in Int BY <2>3, <2>5
    <3> QED BY <1>2, <2>5, <3>1, SumOfChanged
  <2> QED BY <2>1, <2>2, <2>4, <2>5, <2>6 DEF r
<1>8. CASE target > 0 /\ Bytes(points) > 0
  <2>1. r = last BY <1>1, <1>4, <1>8
  <2>2. end \in Rescaled /\ SumFunctionOnSet(end.points, Hours) = end.applied
    BY <1>4, <1>8, RescaleAllFacts DEF end
  <2>3. end.points \in Charts /\ end.applied \in Nat /\ end.best \in Hours BY <2>2 DEF Rescaled
  <2>4. end.points[end.best] \in Nat BY <2>3 DEF Charts
  <2>5. /\ last \in [Hours -> Int]
        /\ last[end.best] = end.points[end.best] + (target - end.applied)
        /\ \A h \in Hours \ {end.best} : last[h] = end.points[h]
    BY <2>3, <2>4 DEF last, Charts
  <2>6. SumFunctionOnSet(last, Hours)
          = SumFunctionOnSet(end.points, Hours) - end.points[end.best] + last[end.best]
    <3>1. \A h \in Hours : end.points[h] \in Int /\ last[h] \in Int BY <2>3, <2>5 DEF Charts
    <3> DEFINE f == end.points
               b == end.best
    <3>2. /\ b \in Hours /\ \A h \in Hours : f[h] \in Int /\ last[h] \in Int
          /\ \A h \in Hours \ {b} : last[h] = f[h]
      BY <2>3, <2>5, <3>1
    <3> HIDE DEF f, b
    <3>3. SumFunctionOnSet(last, Hours) = SumFunctionOnSet(f, Hours) - f[b] + last[b]
      BY <1>2, <3>2, SumOfChanged
    <3> QED BY <3>3 DEF f, b
  <2> QED BY <2>1, <2>2, <2>3, <2>4, <2>5, <2>6 DEF r
<1> QED BY <1>4, <1>6, <1>7, <1>8

\* The chart of today, made from the gains between snapshots, their rescaling and its
\* rounding, adds up to exactly what the last snapshot of the day says, whatever the
\* snapshots were (counters may have begun anew between them).
THEOREM TrafficTodayFacts ==
  ASSUME NEW S, Samples(S)
  PROVE  /\ TrafficToday(S) \in [Hours -> Int]
         /\ \A s \in S : (\A o \in S : o.at <= s.at /\ (o.at = s.at => o = s))
              => SumFunction(TrafficToday(S)) = s.bytes
<1> DEFINE q == InOrder(S)
           end == ChartPoints(q)
           r == TrafficToday(S)
<1>1. PICK n \in Nat : /\ q \in [1..n -> S] /\ (S # {} => n > 0)
                       /\ \A s \in S : s.at <= q[n].at
  BY InOrderFacts
<1>2. r = IF end.observed THEN Reconcile(end.points, end.bytes, end.hour) ELSE FlatChart
  BY DEF TrafficToday
<1> HIDE DEF q
<1>3. end \in DayCharts /\ (n > 0 => end.bytes = q[n].bytes) BY <1>1, ChartPointsFacts
<1> HIDE DEF end, r
<1>4. /\ end.points \in Charts /\ end.bytes \in Nat /\ end.hour \in Hours
      /\ (~end.observed => end.bytes = 0)
  BY <1>3 DEF DayCharts
<1>5. r \in [Hours -> Int] /\ SumFunctionOnSet(r, Hours) = end.bytes
  <2>1. CASE end.observed
    <3>1. r = Reconcile(end.points, end.bytes, end.hour) BY <1>2, <2>1
    <3> QED BY <1>4, <3>1, ReconcileFacts
  <2>2. CASE ~end.observed
    <3>1. r = FlatChart BY <1>2, <2>2
    <3> QED BY <1>4, <2>2, <3>1, FlatChartFacts
  <2> QED BY <2>1, <2>2
<1>6. ASSUME NEW s \in S, \A o \in S : o.at <= s.at /\ (o.at = s.at => o = s)
      PROVE  SumFunction(r) = s.bytes
  <2>1. n > 0 /\ n \in 1..n BY <1>1
  <2>2. q[n] \in S /\ s.at <= q[n].at BY <1>1, <2>1
  <2>3. q[n].at \in Int /\ s.at \in Int BY <2>2 DEF Samples
  <2>4. q[n] = s BY <1>6, <2>2, <2>3
  <2>5. DOMAIN r = Hours BY <1>5
  <2> QED BY <1>3, <1>5, <2>1, <2>4, <2>5 DEF SumFunction
<1> QED BY <1>5, <1>6 DEF r

=============================================================================
