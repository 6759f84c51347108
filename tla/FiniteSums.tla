------------------------------ MODULE FiniteSums ------------------------------
(***************************************************************************)
(* Sums over finite sets, for the proofs of the other modules.  Functions  *)
(* defines them by a fold: a function on the subsets of the set, one       *)
(* element CHOOSEn at a time.  SumIsTabled shows that the fold exists and   *)
(* does not depend on the order; the laws that follow are cited elsewhere. *)
(*                                                                         *)
(* The induction is over the sizes of subsets: WFMin of the library gives  *)
(* a least element of any set of naturals.                                 *)
(***************************************************************************)
EXTENDS Integers, FiniteSets, Functions, FiniteSetTheorems, NaturalsInduction,
        WellFoundedInduction, TLAPS

\* A set of naturals that is not empty has a least element.
LEMMA LeastExists ==
    ASSUME NEW T \in SUBSET Nat, T # {}
    PROVE  \E x \in T : \A y \in T : x <= y
<1>1. IsWellFoundedOn(OpToRel(<, Nat), Nat)
  BY NatLessThanWellFounded
<1>2. \E x \in T : \A y \in T : ~(<<y, x>> \in OpToRel(<, Nat))
  BY <1>1, WFMin, Zenon
<1>3. PICK x \in T : \A y \in T : ~(<<y, x>> \in OpToRel(<, Nat))
  BY <1>2
<1>4. \A y \in T : ~(y < x)
  BY <1>3 DEF OpToRel
<1> QED BY <1>4

\* A bounded one has a greatest element.
LEMMA GreatestExists ==
    ASSUME NEW T \in SUBSET Nat, T # {}, NEW n \in Nat, \A x \in T : x <= n
    PROVE  \E x \in T : \A y \in T : y <= x
<1> DEFINE U == {n - x : x \in T}
<1>1. U \in SUBSET Nat /\ U # {}
  <2>1. \A x \in T : n - x \in Nat
    OBVIOUS
  <2> QED BY <2>1
<1>2. PICK u \in U : \A v \in U : u <= v
  <2> HIDE DEF U
  <2> QED BY <1>1, LeastExists
<1>3. PICK x \in T : u = n - x
  BY <1>2
<1>4. \A y \in T : n - x <= n - y
  BY <1>2, <1>3
<1>5. \A y \in T : y <= x
  BY <1>4
<1> QED BY <1>5

\* Of the subsets of a finite set with a property, one has it and loses it with
\* whatever element is taken away.
LEMMA SmallestSubset ==
    ASSUME NEW S, IsFiniteSet(S), NEW B \in SUBSET SUBSET S, B # {}
    PROVE  \E T \in B : \A x \in T : T \ {x} \notin B
<1>1. \A T \in SUBSET S : IsFiniteSet(T) /\ Cardinality(T) \in Nat
  BY FS_Subset, FS_CardinalityType
<1> DEFINE Sizes == {Cardinality(T) : T \in B}
<1>2. PICK n \in Sizes : \A m \in Sizes : n <= m
  <2>1. Sizes # {} /\ Sizes \in SUBSET Nat
    BY <1>1
  <2> HIDE DEF Sizes
  <2> QED BY <2>1, LeastExists
<1>3. PICK T \in B : Cardinality(T) = n
  BY <1>2
<1>4. ASSUME NEW x \in T, T \ {x} \in B PROVE FALSE
  <2>1. Cardinality(T \ {x}) = n - 1 /\ n \in Nat
    BY <1>1, <1>3, FS_RemoveElement
  <2>2. n <= Cardinality(T \ {x})
    BY <1>2, <1>4
  <2> QED BY <2>1, <2>2
<1> QED BY <1>3, <1>4

\* Induction over the subsets of a finite set, one element at a time.
LEMMA SubsetInduction ==
    ASSUME NEW S, IsFiniteSet(S), NEW Q, {} \in Q,
           \A T \in SUBSET S : \A x \in S \ T : T \in Q => T \cup {x} \in Q
    PROVE  \A T \in SUBSET S : T \in Q
<1> SUFFICES ASSUME NEW T0 \in SUBSET S, T0 \notin Q PROVE FALSE
  OBVIOUS
<1>1. PICK T \in (SUBSET S) \ Q : \A x \in T : T \ {x} \notin (SUBSET S) \ Q
  BY SmallestSubset
<1>2. PICK x \in T : TRUE
  BY <1>1
<1>3. T \ {x} \in Q /\ T \ {x} \in SUBSET S
  BY <1>1
<1>4. T = (T \ {x}) \cup {x} /\ x \in S \ (T \ {x})
  BY <1>2
<1> QED BY <1>1, <1>3, <1>4

\* A table of the sums of f over the subsets of S.
IsSums(g, f, S) ==
    /\ g \in [SUBSET S -> Int] /\ g[{}] = 0
    /\ \A T \in SUBSET S : \A x \in T : g[T] = f[x] + g[T \ {x}]

\* There is one: a table for T gives one for T and an element more.
LEMMA SumsExist ==
    ASSUME NEW S, IsFiniteSet(S), NEW f, \A x \in S : f[x] \in Int
    PROVE  \E g : IsSums(g, f, S)
<1> DEFINE Q == {T \in SUBSET S : \E g : IsSums(g, f, T)}
<1>1. {} \in Q
  <2>1. IsSums([T \in SUBSET {} |-> 0], f, {})
    BY DEF IsSums
  <2> QED BY <2>1
<1>2. ASSUME NEW T \in SUBSET S, NEW x \in S \ T, T \in Q PROVE T \cup {x} \in Q
  <2>1. PICK g : IsSums(g, f, T)
    BY <1>2
  <2> DEFINE h == [U \in SUBSET (T \cup {x}) |-> IF x \in U THEN f[x] + g[U \ {x}] ELSE g[U]]
  <2>2. \A U \in SUBSET (T \cup {x}) : U \ {x} \in SUBSET T /\ g[U \ {x}] \in Int
    BY <2>1 DEF IsSums
  <2>3. \A U \in SUBSET (T \cup {x}) : h[U] = IF x \in U THEN f[x] + g[U \ {x}] ELSE g[U \ {x}]
    <3>1. \A U : x \notin U => U \ {x} = U
      OBVIOUS
    <3> QED BY <3>1
  <2>4. h \in [SUBSET (T \cup {x}) -> Int] /\ h[{}] = 0
    BY <2>1, <2>2, <2>3 DEF IsSums
  <2>5. ASSUME NEW U \in SUBSET (T \cup {x}), NEW y \in U PROVE h[U] = f[y] + h[U \ {y}]
    <3>1. CASE y = x
      <4>1. x \in U /\ x \notin U \ {x} /\ (U \ {x}) \ {x} = U \ {x} /\ U \ {x} \in SUBSET (T \cup {x})
        BY <3>1
      <4> QED BY <4>1, <3>1, <2>3
    <3>2. CASE y # x
      <4>1. (U \ {y}) \ {x} = (U \ {x}) \ {y} /\ U \ {y} \in SUBSET (T \cup {x}) /\ y \in U \ {x}
        BY <3>2
      <4>2. g[U \ {x}] = f[y] + g[(U \ {x}) \ {y}]
        BY <2>1, <2>2, <4>1 DEF IsSums
      <4>3. x \in U <=> x \in U \ {y}
        BY <3>2
      <4>4. f[x] \in Int /\ f[y] \in Int /\ g[U \ {x}] \in Int /\ g[(U \ {x}) \ {y}] \in Int
        BY <2>2, <4>1
      <4>5. h[U] = (IF x \in U THEN f[x] + g[U \ {x}] ELSE g[U \ {x}])
        BY <2>3
      <4>6. h[U \ {y}] = (IF x \in U THEN f[x] + g[(U \ {x}) \ {y}] ELSE g[(U \ {x}) \ {y}])
        BY <2>3, <4>1, <4>3
      <4> HIDE DEF h
      <4> QED BY <4>2, <4>4, <4>5, <4>6
    <3> QED BY <3>1, <3>2
  <2> HIDE DEF h
  <2>6. IsSums(h, f, T \cup {x})
    BY <2>4, <2>5 DEF IsSums
  <2> QED BY <2>6
<1>3. S \in Q
  <2> HIDE DEF Q
  <2>1. \A T \in SUBSET S : T \in Q
    BY <1>1, <1>2, SubsetInduction
  <2> QED BY <2>1
<1> QED BY <1>3

\* Whatever element is taken first, there is one table of sums.
LEMMA SumIsTabled ==
    ASSUME NEW S, IsFiniteSet(S), NEW f, NEW g, IsSums(g, f, S)
    PROVE  SumFunctionOnSet(f, S) = g[S]
<1> DEFINE pick(s) == CHOOSE x \in s : TRUE
           body(h) == [s \in SUBSET S |-> IF s = {} THEN 0 ELSE f[pick(s)] + h[s \ {pick(s)}]]
           iter == CHOOSE h : h = body(h)
<1>1. SumFunctionOnSet(f, S) = iter[S]
  BY Zenon DEF SumFunctionOnSet, FoldFunctionOnSet, MapThenFoldSet
<1>2. \A s : s # {} => pick(s) \in s
  OBVIOUS
<1>3. g = body(g)
  <2>1. \A s \in SUBSET S : g[s] = body(g)[s]
    BY <1>2 DEF IsSums
  <2> QED BY <2>1 DEF IsSums
<1>4. iter = body(iter)
  BY <1>3
<1> HIDE DEF iter, pick
<1>5. SUFFICES ASSUME iter[S] # g[S] PROVE FALSE
  BY <1>1
<1> DEFINE B == {T \in SUBSET S : iter[T] # g[T]}
<1>6. PICK T \in B : \A x \in T : T \ {x} \notin B
  <2>1. B # {} /\ B \in SUBSET SUBSET S
    BY <1>5
  <2> HIDE DEF B
  <2> QED BY <2>1, SmallestSubset
<1>7. T # {}
  BY <1>3, <1>4, <1>6
<1>8. pick(T) \in T /\ iter[T \ {pick(T)}] = g[T \ {pick(T)}]
  BY <1>2, <1>6, <1>7
<1>9. iter[T] = f[pick(T)] + iter[T \ {pick(T)}] /\ g[T] = f[pick(T)] + g[T \ {pick(T)}]
  BY <1>3, <1>4, <1>6, <1>7
<1> QED BY <1>6, <1>8, <1>9

--------------------------------------------------------------------------------
\* The laws of sums.

\* The sum of nothing is zero.
LEMMA SumEmpty == ASSUME NEW f PROVE SumFunctionOnSet(f, {}) = 0
<1>1. IsSums([T \in SUBSET {} |-> 0], f, {})
  BY DEF IsSums
<1> QED BY <1>1, SumIsTabled, FS_EmptySet

\* Any element may be the first.
LEMMA SumRemove ==
    ASSUME NEW S, IsFiniteSet(S), NEW f, \A x \in S : f[x] \in Int
    PROVE  /\ SumFunctionOnSet(f, S) \in Int
           /\ \A x \in S : SumFunctionOnSet(f, S) = f[x] + SumFunctionOnSet(f, S \ {x})
<1>1. PICK g : IsSums(g, f, S)
  BY SumsExist
<1>2. ASSUME NEW T \in SUBSET S PROVE SumFunctionOnSet(f, T) = g[T]
  <2> DEFINE h == [U \in SUBSET T |-> g[U]]
  <2>1. IsSums(h, f, T)
    <3>1. h \in [SUBSET T -> Int] /\ h[{}] = 0
      BY <1>1 DEF IsSums
    <3>2. ASSUME NEW U \in SUBSET T, NEW x \in U PROVE h[U] = f[x] + h[U \ {x}]
      BY <1>1 DEF IsSums
    <3> HIDE DEF h
    <3> QED BY <3>1, <3>2 DEF IsSums
  <2>2. IsFiniteSet(T) /\ h[T] = g[T]
    BY FS_Subset
  <2> HIDE DEF h
  <2> QED BY <2>1, <2>2, SumIsTabled
<1>3. \A x \in S : S \ {x} \in SUBSET S
  OBVIOUS
<1> QED BY <1>1, <1>2, <1>3 DEF IsSums

\* A new element adds its value.
LEMMA SumAdd ==
    ASSUME NEW S, IsFiniteSet(S), NEW f, NEW y, y \notin S, \A x \in S \cup {y} : f[x] \in Int
    PROVE  SumFunctionOnSet(f, S \cup {y}) = f[y] + SumFunctionOnSet(f, S)
<1>1. (S \cup {y}) \ {y} = S /\ IsFiniteSet(S \cup {y})
  BY FS_AddElement
<1> QED BY <1>1, SumRemove

\* Functions that agree on a set have one sum over it.
LEMMA SumSame ==
    ASSUME NEW S, IsFiniteSet(S), NEW f, NEW g,
           \A x \in S : f[x] \in Int /\ g[x] = f[x]
    PROVE  SumFunctionOnSet(g, S) = SumFunctionOnSet(f, S)
<1>1. PICK h : IsSums(h, f, S)
  BY SumsExist
<1>2. IsSums(h, g, S)
  BY <1>1 DEF IsSums
<1> QED BY <1>1, <1>2, SumIsTabled

\* Two functions that differ at one place have sums that differ by as much.
LEMMA SumUpdate ==
    ASSUME NEW S, IsFiniteSet(S), NEW f, NEW g, NEW y \in S,
           \A x \in S : f[x] \in Int, g[y] \in Int,
           \A x \in S \ {y} : g[x] = f[x]
    PROVE  SumFunctionOnSet(g, S) = SumFunctionOnSet(f, S) + g[y] - f[y]
<1>1. IsFiniteSet(S \ {y}) /\ \A x \in S : g[x] \in Int
  BY FS_RemoveElement
<1>2. SumFunctionOnSet(g, S \ {y}) = SumFunctionOnSet(f, S \ {y})
  BY <1>1, SumSame
<1>3. SumFunctionOnSet(f, S \ {y}) \in Int
  BY <1>1, SumRemove
<1> QED BY <1>1, <1>2, <1>3, SumRemove

\* Sums add up place by place.
LEMMA SumPlus ==
    ASSUME NEW S, IsFiniteSet(S), NEW f, NEW g, NEW h,
           \A x \in S : f[x] \in Int /\ g[x] \in Int /\ h[x] = f[x] + g[x]
    PROVE  SumFunctionOnSet(h, S) = SumFunctionOnSet(f, S) + SumFunctionOnSet(g, S)
<1>1. PICK p : IsSums(p, f, S)
  BY SumsExist
<1>2. PICK q : IsSums(q, g, S)
  BY SumsExist
<1> DEFINE r == [T \in SUBSET S |-> p[T] + q[T]]
<1>3. r \in [SUBSET S -> Int] /\ r[{}] = 0
  BY <1>1, <1>2 DEF IsSums
<1>4. ASSUME NEW T \in SUBSET S, NEW x \in T PROVE r[T] = h[x] + r[T \ {x}]
  <2>1. /\ p[T] = f[x] + p[T \ {x}] /\ q[T] = g[x] + q[T \ {x}] /\ h[x] = f[x] + g[x]
        /\ f[x] \in Int /\ g[x] \in Int /\ p[T \ {x}] \in Int /\ q[T \ {x}] \in Int
        /\ r[T] = p[T] + q[T] /\ r[T \ {x}] = p[T \ {x}] + q[T \ {x}]
    BY <1>1, <1>2 DEF IsSums
  <2> QED BY <2>1
<1> HIDE DEF r
<1>5. IsSums(r, h, S)
  BY <1>3, <1>4 DEF IsSums
<1>6. r[S] = p[S] + q[S]
  BY DEF r
<1> QED BY <1>1, <1>2, <1>5, <1>6, SumIsTabled

\* A sum of naturals is at least each of them, and zero only if all are.
LEMMA SumNat ==
    ASSUME NEW S, IsFiniteSet(S), NEW f, \A x \in S : f[x] \in Nat
    PROVE  /\ SumFunctionOnSet(f, S) \in Nat
           /\ \A x \in S : f[x] <= SumFunctionOnSet(f, S)
<1> DEFINE Q == {T \in SUBSET S : SumFunctionOnSet(f, T) \in Nat}
<1>1. {} \in Q
  BY SumEmpty
<1>2. ASSUME NEW T \in SUBSET S, NEW x \in S \ T, T \in Q PROVE T \cup {x} \in Q
  <2>1. IsFiniteSet(T) /\ T \cup {x} \in SUBSET S
    BY FS_Subset
  <2>2. SumFunctionOnSet(f, T \cup {x}) = f[x] + SumFunctionOnSet(f, T)
    BY <2>1, SumAdd
  <2> QED BY <1>2, <2>1, <2>2
<1>3. \A T \in SUBSET S : T \in Q
  <2> HIDE DEF Q
  <2> QED BY <1>1, <1>2, SubsetInduction
<1>4. \A T \in SUBSET S : SumFunctionOnSet(f, T) \in Nat
  BY <1>3
<1>5. ASSUME NEW x \in S PROVE f[x] <= SumFunctionOnSet(f, S)
  <2>1. SumFunctionOnSet(f, S) = f[x] + SumFunctionOnSet(f, S \ {x})
    BY SumRemove
  <2>2. SumFunctionOnSet(f, S \ {x}) \in Nat /\ S \in SUBSET S
    BY <1>4
  <2> QED BY <1>4, <2>1, <2>2
<1> QED BY <1>4, <1>5

\* A larger function has a larger sum.
LEMMA SumMonotone ==
    ASSUME NEW S, IsFiniteSet(S), NEW f, NEW g,
           \A x \in S : f[x] \in Int /\ g[x] \in Int /\ f[x] <= g[x]
    PROVE  SumFunctionOnSet(f, S) <= SumFunctionOnSet(g, S)
<1> DEFINE d == [x \in S |-> g[x] - f[x]]
<1>1. \A x \in S : d[x] \in Nat /\ d[x] \in Int /\ g[x] = f[x] + d[x]
  OBVIOUS
<1> HIDE DEF d
<1>2. SumFunctionOnSet(g, S) = SumFunctionOnSet(f, S) + SumFunctionOnSet(d, S)
  BY <1>1, SumPlus
<1>3. SumFunctionOnSet(d, S) \in Nat /\ SumFunctionOnSet(f, S) \in Int
  BY <1>1, SumNat, SumRemove
<1> QED BY <1>2, <1>3

\* A sum of ones is a count.
LEMMA SumCounts ==
    ASSUME NEW S, IsFiniteSet(S), NEW C, NEW f,
           \A x \in S : f[x] = IF x \in C THEN 1 ELSE 0
    PROVE  SumFunctionOnSet(f, S) = Cardinality(S \cap C)
<1> DEFINE Q == {T \in SUBSET S : SumFunctionOnSet(f, T) = Cardinality(T \cap C)}
<1>0. \A x \in S : f[x] \in Int
  OBVIOUS
<1>1. {} \in Q
  BY SumEmpty, FS_EmptySet
<1>2. ASSUME NEW T \in SUBSET S, NEW y \in S \ T, T \in Q PROVE T \cup {y} \in Q
  <2>1. IsFiniteSet(T) /\ IsFiniteSet(T \cap C) /\ T \cup {y} \in SUBSET S
    BY FS_Subset
  <2>2. SumFunctionOnSet(f, T \cup {y}) = f[y] + SumFunctionOnSet(f, T)
    BY <1>0, <2>1, SumAdd
  <2>3. CASE y \in C
    <3>1. (T \cup {y}) \cap C = (T \cap C) \cup {y} /\ y \notin T \cap C
      BY <2>3
    <3>2. Cardinality((T \cup {y}) \cap C) = Cardinality(T \cap C) + 1
      BY <2>1, <3>1, FS_AddElement
    <3>3. Cardinality(T \cap C) \in Nat
      BY <2>1, FS_CardinalityType
    <3> QED BY <1>2, <2>1, <2>2, <2>3, <3>2, <3>3
  <2>4. CASE y \notin C
    <3>1. (T \cup {y}) \cap C = T \cap C
      BY <2>4
    <3>2. Cardinality(T \cap C) \in Nat
      BY <2>1, FS_CardinalityType
    <3>3. f[y] = 0 /\ SumFunctionOnSet(f, T) = Cardinality(T \cap C)
      BY <1>2, <2>4
    <3>4. SumFunctionOnSet(f, T \cup {y}) = Cardinality(T \cap C)
      BY <2>2, <3>2, <3>3
    <3> QED BY <2>1, <3>1, <3>4
  <2> QED BY <2>3, <2>4
<1> HIDE DEF Q
<1>3. \A T \in SUBSET S : T \in Q
  BY <1>1, <1>2, SubsetInduction
<1> QED BY <1>3 DEF Q

\* Counting by kind: the sizes of the classes of a finite set add up to its size.
LEMMA CountsAddUp ==
    ASSUME NEW S, IsFiniteSet(S), NEW K, IsFiniteSet(K), NEW kind,
           \A x \in S : kind[x] \in K, NEW count,
           \A k \in K : count[k] = Cardinality({x \in S : kind[x] = k})
    PROVE  SumFunctionOnSet(count, K) = Cardinality(S)
<1> DEFINE Of(T, k) == {x \in T : kind[x] = k}
           sizes(T) == [k \in K |-> Cardinality(Of(T, k))]
           Q == {T \in SUBSET S : SumFunctionOnSet(sizes(T), K) = Cardinality(T)}
<1>1. ASSUME NEW T \in SUBSET S, NEW k \in K
      PROVE  IsFiniteSet(T) /\ IsFiniteSet(Of(T, k)) /\ Cardinality(Of(T, k)) \in Int
                /\ Cardinality(T) \in Int
  <2>1. IsFiniteSet(T) /\ Of(T, k) \in SUBSET S
    BY FS_Subset
  <2> QED BY <2>1, FS_Subset, FS_CardinalityType
<1>2. {} \in Q
  <2>1. \A k \in K : sizes({})[k] = 0
    <3>1. \A k : Of({}, k) = {}
      OBVIOUS
    <3> QED BY <3>1, FS_EmptySet
  <2>2. SumFunctionOnSet([k \in K |-> 0], K) = 0
    <3> DEFINE z == [k \in K |-> 0]
               zs == [T \in SUBSET K |-> 0]
    <3>1. IsSums(zs, z, K)
      BY DEF IsSums
    <3>2. SumFunctionOnSet(z, K) = zs[K]
      BY <3>1, SumIsTabled
    <3> QED BY <3>2
  <2>3. SumFunctionOnSet(sizes({}), K) = SumFunctionOnSet([k \in K |-> 0], K)
    <3> DEFINE z == [k \in K |-> 0]
               e == sizes({})
    <3>1. \A k \in K : z[k] \in Int /\ e[k] = z[k]
      BY <2>1
    <3> HIDE DEF z, e
    <3>2. SumFunctionOnSet(e, K) = SumFunctionOnSet(z, K)
      BY <3>1, SumSame
    <3> QED BY <3>2 DEF z, e
  <2>4. Cardinality({}) = 0
    BY FS_EmptySet
  <2> QED BY <2>2, <2>3, <2>4
<1>3. ASSUME NEW T \in SUBSET S, NEW y \in S \ T, T \in Q PROVE T \cup {y} \in Q
  <2> DEFINE U == T \cup {y}
             j == kind[y]
             f == sizes(T)
             g == sizes(U)
  <2>1. \A k \in K \ {j} : Of(U, k) = Of(T, k)
    OBVIOUS
  <2>2. Of(U, j) = Of(T, j) \cup {y} /\ y \notin Of(T, j)
    OBVIOUS
  <2>3. j \in K /\ U \in SUBSET S /\ IsFiniteSet(T)
    BY FS_Subset
  <2>4. Cardinality(Of(U, j)) = Cardinality(Of(T, j)) + 1
    BY <1>1, <2>2, <2>3, FS_AddElement
  <2>5. Cardinality(U) = Cardinality(T) + 1
    BY <2>3, FS_AddElement
  <2>6. g[j] = f[j] + 1
    BY <2>3, <2>4
  <2>7. \A k \in K \ {j} : g[k] = f[k]
    BY <2>1
  <2>8. \A k \in K : f[k] \in Int /\ g[k] \in Int
    BY <1>1, <2>3
  <2>9. SumFunctionOnSet(f, K) = Cardinality(T) /\ Cardinality(T) \in Int
    BY <1>1, <1>3, <2>3
  <2> HIDE DEF f, g
  <2>10. SumFunctionOnSet(g, K) = SumFunctionOnSet(f, K) + g[j] - f[j]
    BY <2>3, <2>7, <2>8, SumUpdate
  <2>11. SumFunctionOnSet(g, K) = Cardinality(U)
    BY <2>3, <2>5, <2>6, <2>8, <2>9, <2>10
  <2> QED BY <2>3, <2>11 DEF g
<1>4. S \in Q
  <2> HIDE DEF Q
  <2>1. \A T \in SUBSET S : T \in Q
    BY <1>2, <1>3, SubsetInduction
  <2> QED BY <2>1
<1>5. SumFunctionOnSet(sizes(S), K) = Cardinality(S)
  BY <1>4
<1> DEFINE f == sizes(S)
<1>6. \A k \in K : f[k] \in Int /\ count[k] = f[k]
  BY <1>1
<1> HIDE DEF f
<1>7. SumFunctionOnSet(count, K) = SumFunctionOnSet(f, K)
  BY <1>6, SumSame
<1> QED BY <1>5, <1>7 DEF f

\* CountsAddUp about a table of counts.
LEMMA TableAddsUp ==
    ASSUME NEW rows, IsFiniteSet(rows), NEW kind, NEW count, IsFiniteSet(DOMAIN count),
           \A n \in rows : kind[n] \in DOMAIN count,
           \A k \in DOMAIN count : count[k] = Cardinality({n \in rows : kind[n] = k})
    PROVE  SumFunction(count) = Cardinality(rows)
<1> DEFINE K == DOMAIN count
<1>1. IsFiniteSet(K) /\ \A n \in rows : kind[n] \in K
  OBVIOUS
<1>2. \A k \in K : count[k] = Cardinality({n \in rows : kind[n] = k})
  OBVIOUS
<1> HIDE DEF K
<1>3. SumFunctionOnSet(count, K) = Cardinality(rows)
  BY <1>1, <1>2, CountsAddUp
<1> QED BY <1>3 DEF SumFunction, K

\* The image of a finite set is finite.
LEMMA ImageFinite ==
    ASSUME NEW S, IsFiniteSet(S), NEW f
    PROVE  IsFiniteSet({f[x] : x \in S}) /\ Cardinality({f[x] : x \in S}) \in Nat
<1> DEFINE T == {f[x] : x \in S}
           h == [x \in S |-> f[x]]
<1>1. h \in Surjection(S, T)
  BY DEF Surjection
<1> HIDE DEF T, h
<1>2. IsFiniteSet(T)
  BY <1>1, FS_Surjection
<1> QED BY <1>2, FS_CardinalityType DEF T

\* A sum of multiples is the multiple of the sum.
LEMMA SumScale ==
    ASSUME NEW S, IsFiniteSet(S), NEW k \in Int, NEW f, NEW g,
           \A x \in S : f[x] \in Int /\ g[x] = k * f[x]
    PROVE  SumFunctionOnSet(g, S) = k * SumFunctionOnSet(f, S)
<1> DEFINE Q == {T \in SUBSET S : SumFunctionOnSet(g, T) = k * SumFunctionOnSet(f, T)}
<1>1. {} \in Q
  BY SumEmpty
<1>2. ASSUME NEW T \in SUBSET S, NEW x \in S \ T, T \in Q PROVE T \cup {x} \in Q
  <2>1. IsFiniteSet(T) /\ T \cup {x} \in SUBSET S /\ \A y \in S : g[y] \in Int
    BY FS_Subset
  <2>2. /\ SumFunctionOnSet(f, T \cup {x}) = f[x] + SumFunctionOnSet(f, T)
        /\ SumFunctionOnSet(g, T \cup {x}) = g[x] + SumFunctionOnSet(g, T)
    BY <2>1, SumAdd
  <2>3. SumFunctionOnSet(f, T) \in Int
    BY <2>1, SumRemove
  <2>4. SumFunctionOnSet(g, T \cup {x}) = k * SumFunctionOnSet(f, T \cup {x})
    <3>1. \A a, b \in Int : k * a + k * b = k * (a + b)
      OBVIOUS
    <3>2. f[x] \in Int /\ g[x] = k * f[x] /\ SumFunctionOnSet(g, T) = k * SumFunctionOnSet(f, T)
      BY <1>2
    <3> QED BY <2>2, <2>3, <3>1, <3>2
  <2> QED BY <2>1, <2>4
<1>3. \A T \in SUBSET S : T \in Q
  <2> HIDE DEF Q
  <2> QED BY <1>1, <1>2, SubsetInduction
<1> QED BY <1>3

\* The sum of naturals over a part is at most the whole.
LEMMA SumPart ==
    ASSUME NEW S, IsFiniteSet(S), NEW T \in SUBSET S, NEW f, \A x \in S : f[x] \in Nat
    PROVE  SumFunctionOnSet(f, T) <= SumFunctionOnSet(f, S)
<1> DEFINE R == S \ T
           sum(U) == SumFunctionOnSet(f, T \cup U)
           Q == {U \in SUBSET R : sum({}) <= sum(U)}
<1>0. IsFiniteSet(T) /\ IsFiniteSet(R) /\ T \cup {} = T /\ sum({}) \in Nat
  BY FS_Subset, FS_Difference, SumNat
<1>1. {} \in Q
  BY <1>0
<1>2. ASSUME NEW U \in SUBSET R, NEW x \in R \ U, U \in Q PROVE U \cup {x} \in Q
  <2>1. /\ IsFiniteSet(T \cup U) /\ T \cup (U \cup {x}) = (T \cup U) \cup {x} /\ x \notin T \cup U
        /\ \A y \in (T \cup U) \cup {x} : f[y] \in Int /\ f[x] \in Nat
    <3>1. T \cup U \in SUBSET S
      OBVIOUS
    <3> QED BY <3>1, FS_Subset
  <2>2. SumFunctionOnSet(f, (T \cup U) \cup {x}) = f[x] + sum(U)
    BY <2>1, SumAdd
  <2>3. sum(U \cup {x}) = f[x] + sum(U)
    BY <2>1, <2>2, Zenon
  <2>4. sum(U) \in Int /\ f[x] \in Nat
    BY <2>1, SumRemove
  <2>5. sum({}) <= sum(U) /\ U \cup {x} \in SUBSET R
    BY <1>2
  <2> HIDE DEF sum
  <2>6. sum({}) <= sum(U \cup {x})
    BY <1>0, <2>3, <2>4, <2>5
  <2> QED BY <2>5, <2>6
<1>3. R \in Q
  <2> HIDE DEF Q, R
  <2>1. \A U \in SUBSET R : U \in Q
    BY <1>0, <1>1, <1>2, SubsetInduction
  <2> QED BY <2>1
<1>4. T \cup (S \ T) = S
  OBVIOUS
<1> QED BY <1>0, <1>3, <1>4

--------------------------------------------------------------------------------
\* The inequality of Cauchy and Schwarz.

\* A larger factor has the larger product.
LEMMA Products ==
    ASSUME NEW a \in Int, NEW b \in Int, NEW c \in Int, a <= b, c >= 0
    PROVE  a * c <= b * c
OBVIOUS

\* The smaller square has the smaller root.
LEMMA SquaresOrdered ==
    ASSUME NEW a \in Int, NEW b \in Int, b >= 0, a * a <= b * b
    PROVE  a <= b
<1> SUFFICES ASSUME a > b PROVE FALSE
  OBVIOUS
<1>1. a * a > b * a /\ b * a >= b * b
  OBVIOUS
<1> QED BY <1>1

\* No square is negative.
LEMMA SquareNat == ASSUME NEW a \in Int PROVE a * a \in Nat
OBVIOUS

\* The arithmetic mean bounds the geometric one.
LEMMA MeanBound ==
    ASSUME NEW r \in Nat, NEW s \in Nat, NEW q \in Int, q * q <= r * s
    PROVE  2 * q <= r + s
<1>1. (2 * q) * (2 * q) = 4 * (q * q)
  OBVIOUS
<1>2. (r + s) * (r + s) = 4 * (r * s) + (r - s) * (r - s)
  OBVIOUS
<1>3. (r - s) * (r - s) >= 0 /\ q * q \in Int /\ r * s \in Int
  BY SquareNat
<1>4. (2 * q) * (2 * q) <= (r + s) * (r + s)
  BY <1>1, <1>2, <1>3
<1> QED BY <1>4, SquaresOrdered

\* One place more in the inequality of Cauchy and Schwarz.
LEMMA CauchyStep ==
    ASSUME NEW D \in Int, NEW A \in Nat, NEW W \in Nat, NEW x \in Int, NEW y \in Int,
           D * D <= A * W
    PROVE  (D + x * y) * (D + x * y) <= (A + x * x) * (W + y * y)
<1> DEFINE m == x * y
           u == x * x
           v == y * y
<1>1. m \in Int /\ u \in Nat /\ v \in Nat /\ m * m = u * v
  BY SquareNat
<1> HIDE DEF m, u, v
<1>2. (D * m) * (D * m) = (D * D) * (u * v) /\ (A * v) * (W * u) = (A * W) * (u * v)
  BY <1>1
<1>3. u * v \in Nat /\ A * v \in Nat /\ W * u \in Nat /\ D * m \in Int /\ D * D \in Int /\ A * W \in Int
  BY <1>1
<1>4. (D * D) * (u * v) <= (A * W) * (u * v)
  BY <1>3, Products
<1>5. 2 * (D * m) <= A * v + W * u
  BY <1>2, <1>3, <1>4, MeanBound
<1>6. (D + m) * (D + m) = D * D + 2 * (D * m) + u * v
  BY <1>1
<1>7. (A + u) * (W + v) = A * W + (A * v + W * u) + u * v
  BY <1>1
<1>8. (D + m) * (D + m) <= (A + u) * (W + v)
  BY <1>3, <1>5, <1>6, <1>7
<1> QED BY <1>8 DEF m, u, v

\* The square of the product of two vectors is at most that of their lengths.
LEMMA CauchySchwarz ==
    ASSUME NEW S, IsFiniteSet(S), NEW f, NEW g, NEW p, NEW a, NEW b,
           \A x \in S : /\ f[x] \in Int /\ g[x] \in Int
                        /\ p[x] = f[x] * g[x] /\ a[x] = f[x] * f[x] /\ b[x] = g[x] * g[x]
    PROVE  SumFunctionOnSet(p, S) * SumFunctionOnSet(p, S)
               <= SumFunctionOnSet(a, S) * SumFunctionOnSet(b, S)
<1> DEFINE P(T) == SumFunctionOnSet(p, T)
           A(T) == SumFunctionOnSet(a, T)
           B(T) == SumFunctionOnSet(b, T)
           Q == {T \in SUBSET S : P(T) * P(T) <= A(T) * B(T)}
<1>0. \A x \in S : p[x] \in Int /\ a[x] \in Nat /\ b[x] \in Nat
  BY SquareNat
<1>1. {} \in Q
  BY SumEmpty
<1>2. ASSUME NEW T \in SUBSET S, NEW x \in S \ T, T \in Q PROVE T \cup {x} \in Q
  <2>1. IsFiniteSet(T) /\ T \cup {x} \in SUBSET S
    BY FS_Subset
  <2>2. P(T) \in Int /\ A(T) \in Nat /\ B(T) \in Nat
    BY <1>0, <2>1, SumRemove, SumNat
  <2>3. /\ P(T \cup {x}) = f[x] * g[x] + P(T)
        /\ A(T \cup {x}) = f[x] * f[x] + A(T)
        /\ B(T \cup {x}) = g[x] * g[x] + B(T)
    <3>1. x \notin T /\ \A y \in T \cup {x} : p[y] \in Int /\ a[y] \in Int /\ b[y] \in Int
      BY <1>0
    <3>2. P(T \cup {x}) = p[x] + P(T)
      BY <2>1, <3>1, SumAdd
    <3>3. A(T \cup {x}) = a[x] + A(T)
      BY <2>1, <3>1, SumAdd
    <3>4. B(T \cup {x}) = b[x] + B(T)
      BY <2>1, <3>1, SumAdd
    <3> QED BY <3>2, <3>3, <3>4
  <2>4. P(T) * P(T) <= A(T) * B(T)
    BY <1>2
  <2> HIDE DEF P, A, B
  <2>5. (P(T) + f[x] * g[x]) * (P(T) + f[x] * g[x]) <= (A(T) + f[x] * f[x]) * (B(T) + g[x] * g[x])
    BY <2>2, <2>4, CauchyStep
  <2>6. f[x] * g[x] \in Int /\ f[x] * f[x] \in Int /\ g[x] * g[x] \in Int
    OBVIOUS
  <2>7. /\ P(T \cup {x}) = P(T) + f[x] * g[x]
        /\ A(T \cup {x}) = A(T) + f[x] * f[x]
        /\ B(T \cup {x}) = B(T) + g[x] * g[x]
    BY <2>2, <2>3, <2>6
  <2> QED BY <2>1, <2>5, <2>7
<1>3. \A T \in SUBSET S : T \in Q
  <2> HIDE DEF Q
  <2> QED BY <1>1, <1>2, SubsetInduction
<1> QED BY <1>3
================================================================================
