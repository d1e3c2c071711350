---------------------------- MODULE InductionFacts ----------------------------
(***************************************************************************)
(* Induction over the natural numbers for sets, and what the recursive     *)
(* functions of the models compute: subsequences and sums.  A theorem with *)
(* a predicate for a parameter cannot be instantiated by the provers; one  *)
(* with a set can, and the set of the numbers with a property is a set.    *)
(***************************************************************************)
EXTENDS Collections, Integers, FiniteSetTheorems,
        WellFoundedInduction, TLAPS

-----------------------------------------------------------------------------
(* Induction.                                                              *)

\* A set of natural numbers that is not empty has a least element.
LEMMA LeastNatural ==
    ASSUME NEW T, T \subseteq Nat, T # {}
    PROVE  \E n \in T : \A m \in T : n =< m
<1>1. \E n \in T : \A m \in T : ~ (<<m, n>> \in OpToRel(<, Nat))
  BY NatLessThanWellFounded, WFMin
<1>2. PICK n \in T : \A m \in T : ~ (<<m, n>> \in OpToRel(<, Nat))
  BY <1>1
<1>3. ASSUME NEW m \in T PROVE n =< m
  <2>1. <<m, n>> \in Nat \X Nat /\ ~ (<<m, n>> \in OpToRel(<, Nat))
    BY <1>2
  <2>2. ~(m < n)
    BY <2>1 DEF OpToRel
  <2> QED BY <2>2
<1> QED BY <1>2, <1>3

\* A set with 0, and with n + 1 when it has n, has every natural number.
LEMMA SetInduction ==
    ASSUME NEW T, 0 \in T, \A n \in Nat : n \in T => n + 1 \in T
    PROVE  Nat \subseteq T
<1> SUFFICES ASSUME Nat \ T # {} PROVE FALSE
  OBVIOUS
<1>1. PICK n \in Nat \ T : \A m \in Nat \ T : n =< m
  BY LeastNatural
<1>2. n - 1 \in Nat /\ n - 1 \in T
  BY <1>1
<1> QED BY <1>1, <1>2

\* The same up to a bound.
LEMMA IntervalInduction ==
    ASSUME NEW N \in Nat, NEW T, 0 \in T,
           \A n \in 0 .. N : n \in T /\ n < N => n + 1 \in T
    PROVE  0 .. N \subseteq T
<1> DEFINE U == T \cup {n \in Nat : n > N}
<1>1. 0 \in U /\ \A n \in Nat : n \in U => n + 1 \in U
  OBVIOUS
<1>2. Nat \subseteq U
  <2> HIDE DEF U
  <2> QED BY <1>1, SetInduction
<1> QED BY <1>2

Iterates(f, N, S, base, step) ==
    /\ f \in [0 .. N -> S]
    /\ \A n \in 0 .. N : f[n] = IF n = 0 THEN base ELSE step[f[n - 1]]

\* A function that a step iterates from a base exists, up to any number.
LEMMA IterationExists ==
    ASSUME NEW N \in Nat, NEW S, NEW base \in S, NEW step, \A x \in S : step[x] \in S
    PROVE  \E f : Iterates(f, N, S, base, step)
<1> DEFINE Upto(f, m) ==
               \A n \in 0 .. m : f[n] = IF n = 0 THEN base ELSE step[f[n - 1]]
           Solvable(m) == \E f \in [0 .. m -> S] : Upto(f, m)
           T == {m \in Nat : Solvable(m)}
<1>1. Solvable(0)
  <2>1. [n \in 0 .. 0 |-> base] \in [0 .. 0 -> S] /\ Upto([n \in 0 .. 0 |-> base], 0)
    OBVIOUS
  <2> QED BY <2>1
<1>2. ASSUME NEW m \in Nat, Solvable(m) PROVE Solvable(m + 1)
  <2>1. PICK g \in [0 .. m -> S] : Upto(g, m)
    <3> HIDE DEF Upto
    <3> QED BY <1>2
  <2> DEFINE f == [n \in 0 .. m + 1 |-> IF n = m + 1 THEN step[g[m]] ELSE g[n]]
  <2>2. f \in [0 .. m + 1 -> S]
    OBVIOUS
  <2>3. ASSUME NEW n \in 0 .. m + 1
        PROVE  f[n] = IF n = 0 THEN base ELSE step[f[n - 1]]
    <3>1. CASE n = 0
      BY <3>1, <2>1
    <3>2. CASE n \in 1 .. m
      BY <3>2, <2>1
    <3>3. CASE n = m + 1
      BY <3>3
    <3> QED BY <3>1, <3>2, <3>3
  <2>4. Upto(f, m + 1)
    BY <2>3
  <2> QED BY <2>2, <2>4
<1>3. Nat \subseteq T
  <2> HIDE DEF Solvable
  <2>1. 0 \in T /\ \A m \in Nat : m \in T => m + 1 \in T
    BY <1>1, <1>2
  <2> HIDE DEF T
  <2> QED BY <2>1, SetInduction
<1>4. Solvable(N)
  <2> HIDE DEF Solvable
  <2> QED BY <1>3
<1> QED BY <1>4 DEF Iterates

\* Of the numbers of a function with values up to a bound, one is the largest.
LEMMA LargestValue ==
    ASSUME NEW S, S # {}, NEW N \in Nat, NEW f, \A x \in S : f[x] \in 0 .. N
    PROVE  \E x \in S : \A y \in S : f[y] =< f[x]
<1> DEFINE T == {m \in Nat : \A x \in S : f[x] =< m}
<1>1. N \in T /\ T \subseteq Nat
  OBVIOUS
<1>2. PICK m \in T : \A n \in T : m =< n
  <2> HIDE DEF T
  <2> QED BY <1>1, LeastNatural
<1>3. ASSUME \A x \in S : f[x] # m PROVE FALSE
  <2>1. \A x \in S : f[x] =< m - 1
    BY <1>2, <1>3
  <2>2. m - 1 \in T
    BY <2>1, <1>2
  <2> QED BY <2>2, <1>2
<1> QED BY <1>2, <1>3

-----------------------------------------------------------------------------
(* Subsequences.                                                           *)

PickedNext(s, indices, before, n) ==
    IF n = 0 THEN <<>>
    ELSE IF n \in indices THEN Append(before, s[n]) ELSE before

\* The function that Picked defines by recursion exists, and obeys its equation.
LEMMA PickedDefined ==
    ASSUME NEW S, NEW s \in Seq(S), NEW indices
    PROVE  \E upto : /\ upto \in [0 .. Len(s) -> Seq(S)]
                     /\ \A n \in 0 .. Len(s) :
                            upto[n] = PickedNext(s, indices, upto[n - 1], n)
                     /\ Picked(s, indices) = upto[Len(s)]
<1> DEFINE Upto(f, m) == f = [n \in 0 .. m |-> PickedNext(s, indices, f[n - 1], n)]
           Solvable(m) == m =< Len(s) => \E f \in [0 .. m -> Seq(S)] : Upto(f, m)
           T == {m \in Nat : Solvable(m)}
<1>0. Len(s) \in Nat
  OBVIOUS
<1>1. Solvable(0)
  <2> DEFINE f == [n \in 0 .. 0 |-> <<>>]
  <2>1. f \in [0 .. 0 -> Seq(S)] /\ Upto(f, 0)
    BY DEF PickedNext
  <2> QED BY <2>1
<1>2. ASSUME NEW m \in Nat, Solvable(m) PROVE Solvable(m + 1)
  <2> SUFFICES ASSUME m + 1 =< Len(s)
               PROVE  \E f \in [0 .. m + 1 -> Seq(S)] : Upto(f, m + 1)
    OBVIOUS
  <2>1. PICK g \in [0 .. m -> Seq(S)] : Upto(g, m)
    <3> HIDE DEF Upto
    <3> QED BY <1>2, <1>0
  <2> DEFINE f == [n \in 0 .. m + 1 |->
                      IF n = m + 1 THEN PickedNext(s, indices, g[m], m + 1) ELSE g[n]]
  <2>2. f \in [0 .. m + 1 -> Seq(S)]
    <3>1. s[m + 1] \in S /\ g[m] \in Seq(S)
      OBVIOUS
    <3>2. PickedNext(s, indices, g[m], m + 1) \in Seq(S)
      BY <3>1 DEF PickedNext
    <3> QED BY <3>2
  <2>3. ASSUME NEW n \in 0 .. m + 1
        PROVE  f[n] = PickedNext(s, indices, f[n - 1], n)
    <3>1. CASE n = 0
      BY <3>1, <2>1 DEF PickedNext
    <3>2. CASE n \in 1 .. m
      BY <3>2, <2>1
    <3>3. CASE n = m + 1
      BY <3>3
    <3> QED BY <3>1, <3>2, <3>3
  <2>4. Upto(f, m + 1)
    BY <2>3
  <2> QED BY <2>2, <2>4
<1>3. Solvable(Len(s))
  <2> HIDE DEF Solvable
  <2>1. 0 \in T /\ \A m \in Nat : m \in T => m + 1 \in T
    BY <1>1, <1>2
  <2>2. Nat \subseteq T
    <3> HIDE DEF T
    <3> QED BY <2>1, SetInduction
  <2> QED BY <2>2, <1>0
<1>4. PICK f \in [0 .. Len(s) -> Seq(S)] : Upto(f, Len(s))
  BY <1>3, <1>0
<1> DEFINE upto == CHOOSE g : Upto(g, Len(s))
<1>5. Upto(upto, Len(s))
  BY <1>4
<1>6. Picked(s, indices) = upto[Len(s)]
  BY DEF Picked, PickedNext
<1> HIDE DEF upto
<1>7. \A n \in 0 .. Len(s) : upto[n] = PickedNext(s, indices, upto[n - 1], n)
  BY <1>5
<1>8. upto \in [0 .. Len(s) -> Seq(S)]
  <2> DEFINE Typed(n) == upto[n] \in Seq(S)
             V == {n \in 0 .. Len(s) : Typed(n)}
  <2>1. Typed(0)
    <3>1. upto[0] = PickedNext(s, indices, upto[0 - 1], 0)
      BY <1>7, <1>0
    <3>2. upto[0] = <<>>
      BY <3>1 DEF PickedNext
    <3> QED BY <3>2
  <2>2. ASSUME NEW n \in 0 .. Len(s), Typed(n), n < Len(s) PROVE Typed(n + 1)
    <3>1. n + 1 \in 1 .. Len(s) /\ s[n + 1] \in S /\ n + 1 # 0 /\ n + 1 - 1 = n
      BY <2>2, <1>0
    <3>2. upto[n + 1] = PickedNext(s, indices, upto[n], n + 1)
      <4>1. upto[n + 1] = PickedNext(s, indices, upto[n + 1 - 1], n + 1)
        BY <3>1, <1>7, <1>0
      <4> QED BY <4>1, <3>1
    <3>3. upto[n + 1] = IF n + 1 \in indices THEN Append(upto[n], s[n + 1]) ELSE upto[n]
      BY <3>1, <3>2 DEF PickedNext
    <3> QED BY <3>1, <3>3, <2>2
  <2>3. 0 .. Len(s) \subseteq V
    <3> HIDE DEF Typed
    <3>1. 0 \in V /\ \A n \in 0 .. Len(s) : n \in V /\ n < Len(s) => n + 1 \in V
      BY <2>1, <2>2, <1>0
    <3> HIDE DEF V
    <3> QED BY <3>1, <1>0, IntervalInduction
  <2>4. \A n \in 0 .. Len(s) : Typed(n)
    BY <2>3
  <2> QED BY <2>4, <1>5
<1> QED BY <1>6, <1>7, <1>8

\* place says where in s each element of p comes from: in order, all of the
\* indices up to n, and nothing else.
Enumerates(place, p, s, indices, n) ==
    /\ place \in [1 .. Len(p) -> indices \cap (1 .. n)]
    /\ \A k \in 1 .. Len(p) : p[k] = s[place[k]]
    /\ \A j, k \in 1 .. Len(p) : j < k => place[j] < place[k]
    /\ \A i \in indices \cap (1 .. n) : \E k \in 1 .. Len(p) : place[k] = i

\* Picked returns the elements at the indices, each once and in order.
LEMMA PickedPlaces ==
    ASSUME NEW S, NEW s \in Seq(S), NEW indices
    PROVE  /\ Picked(s, indices) \in Seq(S)
           /\ \E place : Enumerates(place, Picked(s, indices), s, indices, Len(s))
<1>1. PICK upto :
         /\ upto \in [0 .. Len(s) -> Seq(S)]
         /\ \A n \in 0 .. Len(s) : upto[n] = PickedNext(s, indices, upto[n - 1], n)
         /\ Picked(s, indices) = upto[Len(s)]
  BY PickedDefined
<1>2. Len(s) \in Nat
  OBVIOUS
<1> DEFINE Placed(n) == \E place : Enumerates(place, upto[n], s, indices, n)
           V == {n \in 0 .. Len(s) : Placed(n)}
<1>3. Placed(0)
  <2>1. upto[0] = <<>>
    BY <1>1, <1>2 DEF PickedNext
  <2>2. Enumerates(<<>>, upto[0], s, indices, 0)
    BY <2>1 DEF Enumerates
  <2> QED BY <2>2
<1>4. ASSUME NEW n \in 0 .. Len(s), Placed(n), n < Len(s) PROVE Placed(n + 1)
  <2>1. PICK place : Enumerates(place, upto[n], s, indices, n)
    BY <1>4
  <2>2. upto[n] \in Seq(S) /\ n + 1 \in 1 .. Len(s) /\ s[n + 1] \in S
    BY <1>1, <1>2, <1>4
  <2>3. upto[n + 1] = IF n + 1 \in indices THEN Append(upto[n], s[n + 1]) ELSE upto[n]
    <3>1. upto[n + 1] = PickedNext(s, indices, upto[n + 1 - 1], n + 1)
      BY <2>2, <1>1, <1>2
    <3>2. n + 1 - 1 = n /\ n + 1 # 0
      BY <2>2
    <3> QED BY <3>1, <3>2 DEF PickedNext
  <2>4. CASE n + 1 \notin indices
    <3>1. upto[n + 1] = upto[n] /\ indices \cap (1 .. n + 1) = indices \cap (1 .. n)
      BY <2>3, <2>4
    <3>2. Enumerates(place, upto[n + 1], s, indices, n + 1)
      BY <2>1, <3>1 DEF Enumerates
    <3> QED BY <3>2
  <2>5. CASE n + 1 \in indices
    <3> DEFINE L == Len(upto[n])
               more == [k \in 1 .. L + 1 |-> IF k = L + 1 THEN n + 1 ELSE place[k]]
    <3>1. /\ L \in Nat /\ Len(upto[n + 1]) = L + 1
          /\ \A k \in 1 .. L : upto[n + 1][k] = upto[n][k]
          /\ upto[n + 1][L + 1] = s[n + 1]
      BY <2>2, <2>3, <2>5
    <3>2. \A k \in 1 .. L : place[k] \in indices \cap (1 .. n)
      BY <2>1 DEF Enumerates
    <3>3. more \in [1 .. L + 1 -> indices \cap (1 .. n + 1)]
      BY <3>1, <3>2, <2>5, <2>2
    <3>4. \A k \in 1 .. L + 1 : upto[n + 1][k] = s[more[k]]
      BY <2>1, <3>1 DEF Enumerates
    <3>5. \A j, k \in 1 .. L + 1 : j < k => more[j] < more[k]
      BY <2>1, <3>1, <3>2, <2>2 DEF Enumerates
    <3>6. ASSUME NEW i \in indices \cap (1 .. n + 1)
          PROVE  \E k \in 1 .. L + 1 : more[k] = i
      <4>1. CASE i = n + 1
        BY <4>1, <3>1
      <4>2. CASE i \in 1 .. n
        BY <4>2, <3>1, <2>1 DEF Enumerates
      <4>3. i = n + 1 \/ i \in 1 .. n
        <5>1. i \in 1 .. n + 1 /\ n \in Nat
          BY <1>2
        <5> QED BY <5>1
      <4> QED BY <4>1, <4>2, <4>3
    <3>7. Enumerates(more, upto[n + 1], s, indices, n + 1)
      BY <3>1, <3>3, <3>4, <3>5, <3>6 DEF Enumerates
    <3> QED BY <3>7
  <2> QED BY <2>4, <2>5
<1>5. 0 .. Len(s) \subseteq V
  <2> HIDE DEF Placed
  <2>1. 0 \in V /\ \A n \in 0 .. Len(s) : n \in V /\ n < Len(s) => n + 1 \in V
    BY <1>3, <1>4, <1>2
  <2> HIDE DEF V
  <2> QED BY <2>1, <1>2, IntervalInduction
<1>6. Placed(Len(s))
  <2> HIDE DEF Placed
  <2> QED BY <1>5, <1>2
<1> QED BY <1>1, <1>2, <1>6

-----------------------------------------------------------------------------
(* Sums.                                                                   *)

\* Every subset of a finite set is in U, if {} is and if a set is once all its
\* subsets with one element less are.
LEMMA SubsetInduction ==
    ASSUME NEW S, IsFiniteSet(S), NEW U, {} \in U,
           \A T \in SUBSET S : T # {} /\ (\A x \in T : T \ {x} \in U) => T \in U
    PROVE  SUBSET S \subseteq U
<1> DEFINE V == {n \in Nat : \A T \in SUBSET S : Cardinality(T) = n => T \in U}
<1>1. \A T \in SUBSET S : IsFiniteSet(T) /\ Cardinality(T) \in Nat
  BY FS_Subset, FS_CardinalityType
<1>2. 0 \in V
  BY <1>1, FS_EmptySet
<1>3. ASSUME NEW n \in Nat, n \in V PROVE n + 1 \in V
  <2> SUFFICES ASSUME NEW T \in SUBSET S, Cardinality(T) = n + 1 PROVE T \in U
    OBVIOUS
  <2>1. T # {}
    <3>1. Cardinality({}) = 0
      BY FS_EmptySet
    <3> QED BY <3>1
  <2>2. ASSUME NEW x \in T PROVE T \ {x} \in U
    <3>1. Cardinality(T \ {x}) = n
      BY <1>1, FS_RemoveElement
    <3> QED BY <3>1, <1>3
  <2> QED BY <2>1, <2>2
<1>4. Nat \subseteq V
  <2> HIDE DEF V
  <2> QED BY <1>2, <1>3, SetInduction
<1> QED BY <1>1, <1>4

AnyOf(T) == CHOOSE x \in T : TRUE

SumNext(weight, f, T) ==
    IF T = {} THEN 0 ELSE weight[AnyOf(T)] + f[T \ {AnyOf(T)}]

\* The function that SumOver defines by recursion exists, and obeys its equation.
LEMMA SumDefined ==
    ASSUME NEW S, IsFiniteSet(S), NEW weight, \A x \in S : weight[x] \in Nat
    PROVE  \E sum : /\ sum \in [SUBSET S -> Nat]
                    /\ \A T \in SUBSET S : sum[T] = SumNext(weight, sum, T)
                    /\ SumOver(weight, S) = sum[S]
<1> DEFINE Below(n) == {T \in SUBSET S : Cardinality(T) =< n}
           Sum(f, D) == f = [T \in D |-> SumNext(weight, f, T)]
           Solvable(n) == \E f \in [Below(n) -> Nat] : Sum(f, Below(n))
           V == {n \in Nat : Solvable(n)}
<1>1. \A T \in SUBSET S : IsFiniteSet(T) /\ Cardinality(T) \in Nat
  BY FS_Subset, FS_CardinalityType
<1>2. \A T \in SUBSET S : T # {} =>
         /\ AnyOf(T) \in T /\ weight[AnyOf(T)] \in Nat
         /\ T \ {AnyOf(T)} \in SUBSET S
         /\ Cardinality(T \ {AnyOf(T)}) = Cardinality(T) - 1
  BY <1>1, FS_RemoveElement DEF AnyOf
<1>3. Solvable(0)
  <2> DEFINE f == [T \in Below(0) |-> 0]
  <2>1. \A T \in Below(0) : T = {}
    BY <1>1, FS_EmptySet
  <2>2. f \in [Below(0) -> Nat] /\ Sum(f, Below(0))
    BY <2>1 DEF SumNext
  <2> QED BY <2>2
<1>4. ASSUME NEW n \in Nat, Solvable(n) PROVE Solvable(n + 1)
  <2>1. PICK g \in [Below(n) -> Nat] : Sum(g, Below(n))
    <3> HIDE DEF Sum
    <3> QED BY <1>4
  <2> DEFINE f == [T \in Below(n + 1) |-> SumNext(weight, g, T)]
  <2>2. ASSUME NEW T \in Below(n + 1), T # {} PROVE T \ {AnyOf(T)} \in Below(n)
    BY <1>1, <1>2, <2>2
  <2>3. f \in [Below(n + 1) -> Nat]
    BY <1>2, <2>2 DEF SumNext
  <2>4. \A T \in Below(n) : T \in Below(n + 1) /\ f[T] = g[T]
    BY <2>1, <1>1
  <2>5. ASSUME NEW T \in Below(n + 1) PROVE f[T] = SumNext(weight, f, T)
    BY <2>2, <2>4 DEF SumNext
  <2>6. Sum(f, Below(n + 1))
    BY <2>5
  <2> QED BY <2>3, <2>6
<1>5. Solvable(Cardinality(S))
  <2> HIDE DEF Solvable
  <2>1. 0 \in V /\ \A n \in Nat : n \in V => n + 1 \in V
    BY <1>3, <1>4
  <2>2. Nat \subseteq V
    <3> HIDE DEF V
    <3> QED BY <2>1, SetInduction
  <2> QED BY <2>2, <1>1
<1>6. Below(Cardinality(S)) = SUBSET S
  BY FS_Subset
<1>7. PICK f \in [SUBSET S -> Nat] : Sum(f, SUBSET S)
  <2> HIDE DEF Sum, Below
  <2> QED BY <1>5, <1>6
<1> DEFINE sum == CHOOSE g : Sum(g, SUBSET S)
<1>8. Sum(sum, SUBSET S)
  BY <1>7
<1>9. SumOver(weight, S) = sum[S]
  BY DEF SumOver, FoldFunctionOnSet, MapThenFoldSet, SumNext, AnyOf
<1> HIDE DEF sum
<1>10. \A T \in SUBSET S : sum[T] = SumNext(weight, sum, T)
  BY <1>8
<1>11. \A T \in SUBSET S : sum[T] \in Nat
  <2> DEFINE Typed(T) == sum[T] \in Nat
             U == {T \in SUBSET S : Typed(T)}
  <2>1. Typed({})
    <3>1. {} \in SUBSET S
      OBVIOUS
    <3>2. sum[{}] = SumNext(weight, sum, {})
      BY <3>1, <1>10
    <3> QED BY <3>2 DEF SumNext
  <2>2. ASSUME NEW T \in SUBSET S, T # {}, \A x \in T : Typed(T \ {x})
        PROVE  Typed(T)
    <3>1. sum[T] = weight[AnyOf(T)] + sum[T \ {AnyOf(T)}]
      BY <1>10, <2>2 DEF SumNext
    <3>2. AnyOf(T) \in T /\ weight[AnyOf(T)] \in Nat
      BY <1>2, <2>2
    <3> QED BY <3>1, <3>2, <2>2
  <2>3. {} \in U
    <3> HIDE DEF Typed
    <3> QED BY <2>1
  <2>4. ASSUME NEW T \in SUBSET S, T # {} /\ (\A x \in T : T \ {x} \in U) PROVE T \in U
    <3> HIDE DEF Typed
    <3> QED BY <2>2, <2>4
  <2>5. SUBSET S \subseteq U
    <3> HIDE DEF U
    <3> QED BY <2>3, <2>4, SubsetInduction
  <2> HIDE DEF Typed
  <2>6. \A T \in SUBSET S : Typed(T)
    BY <2>5
  <2> USE DEF Typed
  <2> QED BY <2>6
<1>12. sum \in [SUBSET S -> Nat]
  BY <1>8, <1>11
<1> QED BY <1>9, <1>10, <1>12

\* A sum is a number; nothing sums up to 0.
LEMMA SumType ==
    ASSUME NEW S, IsFiniteSet(S), NEW weight, \A x \in S : weight[x] \in Nat
    PROVE  SumOver(weight, S) \in Nat /\ (S = {} => SumOver(weight, S) = 0)
<1>1. PICK sum : /\ sum \in [SUBSET S -> Nat]
                 /\ \A T \in SUBSET S : sum[T] = SumNext(weight, sum, T)
                 /\ SumOver(weight, S) = sum[S]
  BY SumDefined
<1>2. S \in SUBSET S
  OBVIOUS
<1> QED BY <1>1, <1>2 DEF SumNext

\* The sum of a set that is not empty: an element and the sum of the others.
LEMMA SumOfNext ==
    ASSUME NEW S, IsFiniteSet(S), S # {}, NEW weight, \A x \in S : weight[x] \in Nat
    PROVE  /\ AnyOf(S) \in S
           /\ SumOver(weight, S) = weight[AnyOf(S)] + SumOver(weight, S \ {AnyOf(S)})
<1> DEFINE R == S \ {AnyOf(S)}
<1>1. PICK sum : /\ sum \in [SUBSET S -> Nat]
                 /\ \A T \in SUBSET S : sum[T] = SumNext(weight, sum, T)
                 /\ SumOver(weight, S) = sum[S]
  BY SumDefined
<1>2. IsFiniteSet(R) /\ \A x \in R : weight[x] \in Nat
  BY FS_RemoveElement
<1>3. PICK rest : /\ rest \in [SUBSET R -> Nat]
                  /\ \A T \in SUBSET R : rest[T] = SumNext(weight, rest, T)
                  /\ SumOver(weight, R) = rest[R]
  <2> HIDE DEF R
  <2> QED BY <1>2, SumDefined
<1>4. AnyOf(S) \in S
  BY DEF AnyOf
<1>5. \A T \in SUBSET R : sum[T] = rest[T]
  <2> DEFINE Same(T) == sum[T] = rest[T]
             U == {T \in SUBSET R : Same(T)}
  <2>1. Same({})
    <3>1. {} \in SUBSET S /\ {} \in SUBSET R
      OBVIOUS
    <3>2. sum[{}] = SumNext(weight, sum, {}) /\ rest[{}] = SumNext(weight, rest, {})
      BY <3>1, <1>1, <1>3
    <3> QED BY <3>2 DEF SumNext
  <2>2. ASSUME NEW T \in SUBSET R, T # {}, \A x \in T : Same(T \ {x})
        PROVE  Same(T)
    <3>1. AnyOf(T) \in T
      BY <2>2 DEF AnyOf
    <3>2. T \in SUBSET S
      OBVIOUS
    <3>3. sum[T] = SumNext(weight, sum, T) /\ rest[T] = SumNext(weight, rest, T)
      BY <3>2, <1>1, <1>3
    <3> QED BY <3>1, <3>3, <2>2 DEF SumNext
  <2> HIDE DEF Same, R
  <2>3. {} \in U /\ \A T \in SUBSET R : T # {} /\ (\A x \in T : T \ {x} \in U) => T \in U
    BY <2>1, <2>2
  <2>4. SUBSET R \subseteq U
    <3> HIDE DEF U
    <3> QED BY <2>3, <1>2, SubsetInduction
  <2>5. \A T \in SUBSET R : Same(T)
    BY <2>4
  <2> QED BY <2>5 DEF Same
<1>6. S \in SUBSET S /\ R \in SUBSET R
  OBVIOUS
<1>7. sum[S] = weight[AnyOf(S)] + sum[R]
  BY <1>1, <1>6 DEF SumNext
<1> QED BY <1>1, <1>3, <1>4, <1>5, <1>6, <1>7

\* It does not matter which element is taken out.
LEMMA SumRemove ==
    ASSUME NEW S, IsFiniteSet(S), NEW weight, \A x \in S : weight[x] \in Nat, NEW e \in S
    PROVE  SumOver(weight, S) = weight[e] + SumOver(weight, S \ {e})
<1> DEFINE Splits(T) == \A x \in T : SumOver(weight, T) = weight[x] + SumOver(weight, T \ {x})
           U == {T \in SUBSET S : Splits(T)}
<1>1. \A T \in SUBSET S : IsFiniteSet(T) /\ \A x \in T : weight[x] \in Nat
  BY FS_Subset
<1>2. Splits({})
  OBVIOUS
<1>3. ASSUME NEW T \in SUBSET S, T # {}, \A x \in T : Splits(T \ {x}) PROVE Splits(T)
  <2> SUFFICES ASSUME NEW x \in T
               PROVE  SumOver(weight, T) = weight[x] + SumOver(weight, T \ {x})
    OBVIOUS
  <2> DEFINE a == AnyOf(T)
  <2>1. a \in T /\ SumOver(weight, T) = weight[a] + SumOver(weight, T \ {a})
    BY <1>1, <1>3, SumOfNext
  <2>2. CASE x = a
    BY <2>1, <2>2
  <2>3. CASE x # a
    <3> HIDE DEF a
    <3>1. x \in T \ {a} /\ a \in T \ {x} /\ (T \ {a}) \ {x} = (T \ {x}) \ {a}
      BY <2>1, <2>3
    <3>2. SumOver(weight, T \ {a}) = weight[x] + SumOver(weight, (T \ {a}) \ {x})
      BY <1>3, <2>1, <3>1
    <3>3. SumOver(weight, T \ {x}) = weight[a] + SumOver(weight, (T \ {x}) \ {a})
      BY <1>3, <3>1
    <3>4. SumOver(weight, (T \ {x}) \ {a}) \in Nat
      <4>1. (T \ {x}) \ {a} \in SUBSET S
        OBVIOUS
      <4> QED BY <4>1, <1>1, SumType
    <3>5. weight[x] \in Nat /\ weight[a] \in Nat
      BY <1>1, <2>1
    <3>6. SumOver(weight, T \ {a}) = weight[x] + SumOver(weight, (T \ {x}) \ {a})
      BY <3>1, <3>2
    <3> QED BY <2>1, <3>3, <3>4, <3>5, <3>6
  <2> QED BY <2>2, <2>3
<1> HIDE DEF Splits
<1>4. {} \in U /\ \A T \in SUBSET S : T # {} /\ (\A x \in T : T \ {x} \in U) => T \in U
  BY <1>2, <1>3
<1>5. SUBSET S \subseteq U
  <2> HIDE DEF U
  <2> QED BY <1>4, SubsetInduction
<1>6. Splits(S)
  BY <1>5
<1> QED BY <1>6 DEF Splits

\* A sum over more elements, each of no smaller weight, is not smaller.
LEMMA SumMonotone ==
    ASSUME NEW T, IsFiniteSet(T), NEW S \in SUBSET T, NEW v, NEW w,
           (\A x \in T : w[x] \in Nat) /\ (\A y \in S : v[y] \in Nat /\ v[y] =< w[y])
    PROVE  SumOver(v, S) =< SumOver(w, T)
<1> DEFINE Less(X) == SumOver(v, X \cap S) =< SumOver(w, X)
           U == {X \in SUBSET T : Less(X)}
<1>1. \A X \in SUBSET T :
         /\ IsFiniteSet(X) /\ IsFiniteSet(X \cap S)
         /\ \A x \in X : w[x] \in Nat
         /\ \A x \in X \cap S : v[x] \in Nat /\ v[x] =< w[x]
  <2>1. \A X \in SUBSET T : X \cap S \in SUBSET T
    OBVIOUS
  <2> QED BY <2>1, FS_Subset
<1>2. \A X \in SUBSET T : SumOver(w, X) \in Nat /\ SumOver(v, X \cap S) \in Nat
  BY <1>1, SumType
<1>3. Less({})
  <2>1. {} \in SUBSET T /\ {} \cap S = {}
    OBVIOUS
  <2>2. SumOver(w, {}) = 0 /\ SumOver(v, {}) = 0
    BY FS_EmptySet, SumType
  <2> QED BY <2>1, <2>2
<1>4. ASSUME NEW X \in SUBSET T, X # {}, \A x \in X : Less(X \ {x}) PROVE Less(X)
  <2>1. PICK x \in X : TRUE
    BY <1>4
  <2>2. SumOver(w, X) = w[x] + SumOver(w, X \ {x})
    BY <1>1, SumRemove
  <2>3. X \ {x} \in SUBSET T /\ w[x] \in Nat
    BY <1>1
  <2>4. SumOver(v, (X \ {x}) \cap S) =< SumOver(w, X \ {x})
    BY <1>4
  <2>5. /\ SumOver(w, X \ {x}) \in Nat /\ SumOver(v, (X \ {x}) \cap S) \in Nat
    BY <1>2, <2>3
  <2>6. CASE x \in S
    <3>1. SumOver(v, X \cap S) = v[x] + SumOver(v, (X \cap S) \ {x})
      <4>1. x \in X \cap S
        BY <2>6
      <4> QED BY <4>1, <1>1, SumRemove
    <3>2. (X \cap S) \ {x} = (X \ {x}) \cap S
      OBVIOUS
    <3>3. v[x] \in Nat /\ v[x] =< w[x]
      BY <1>1, <2>6
    <3>4. SumOver(v, X \cap S) = v[x] + SumOver(v, (X \ {x}) \cap S)
      BY <3>1, <3>2
    <3> QED BY <2>2, <2>3, <2>4, <2>5, <3>3, <3>4
  <2>7. CASE x \notin S
    <3>1. X \cap S = (X \ {x}) \cap S
      BY <2>7
    <3>2. SumOver(v, X \cap S) = SumOver(v, (X \ {x}) \cap S)
      BY <3>1
    <3> QED BY <2>2, <2>3, <2>4, <2>5, <3>2
  <2> QED BY <2>6, <2>7
<1> HIDE DEF Less
<1>5. {} \in U /\ \A X \in SUBSET T : X # {} /\ (\A x \in X : X \ {x} \in U) => X \in U
  BY <1>3, <1>4
<1>6. SUBSET T \subseteq U
  <2> HIDE DEF U
  <2> QED BY <1>5, SubsetInduction
<1>7. Less(T)
  BY <1>6
<1>8. T \cap S = S
  OBVIOUS
<1> QED BY <1>7, <1>8 DEF Less

-----------------------------------------------------------------------------
(* Finite sets.                                                            *)

\* The values a function takes on a finite set are finitely many.
LEMMA ValuesFinite ==
    ASSUME NEW S, IsFiniteSet(S), NEW f
    PROVE  IsFiniteSet({f[x] : x \in S})
<1> DEFINE V == {f[x] : x \in S}
           g == [x \in S |-> f[x]]
<1>1. g \in Surjection(S, V)
  BY DEF Surjection
<1> HIDE DEF g, V
<1>2. IsFiniteSet(V)
  BY <1>1, FS_Surjection
<1> QED BY <1>2 DEF V
=============================================================================
