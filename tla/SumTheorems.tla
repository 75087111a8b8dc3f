----------------------------- MODULE SumTheorems -----------------------------
(***************************************************************************)
(* What SumFunctionOnSet(f, S) of the community modules is worth: the sums *)
(* in which the ledgers, buckets and logs of this project are accounted;   *)
(* and what a fold over a sequence comes to, step by step.  Both are       *)
(* defined by recursion over finite sets.  That the recursion has a        *)
(* solution, and every fact about the sum, is proved by looking at a       *)
(* smallest set for which it would fail; so are the greatest and the least *)
(* element of a finite set.                                                *)
(***************************************************************************)
EXTENDS Integers, FiniteSetsExt, FiniteSetTheorems, WellFoundedInduction, TLAPS

-----------------------------------------------------------------------------
\* Every set of natural numbers that is not empty has a least element.
LEMMA LeastNumber ==
  ASSUME NEW T \in SUBSET Nat, T # {}
  PROVE  \E n \in T : \A m \in T : n =< m
<1>1. PICK n \in T : \A m \in T : ~(<<m, n>> \in OpToRel(<, Nat))
  BY NatLessThanWellFounded, WFMin
<1>2. \A m \in T : ~(m < n)
  BY <1>1 DEF OpToRel
<1> QED BY <1>2

\* Every bounded set of them that is not empty has a greatest one.
LEMMA GreatestNumber ==
  ASSUME NEW n \in Nat, NEW T \in SUBSET (1..n), T # {}
  PROVE  Max(T) \in T /\ \A t \in T : t =< Max(T)
<1> DEFINE U == {n - t : t \in T}
<1>0. \A t \in T : t \in Nat /\ n - t \in Nat /\ n - t \in U
  OBVIOUS
<1>1. U \in SUBSET Nat /\ U # {}
  BY <1>0
<1>2. PICK u \in U : \A v \in U : u =< v
  BY <1>1, LeastNumber
<1>3. PICK m \in T : u = n - m
  BY <1>2
<1>4. \A t \in T : m >= t
  <2> SUFFICES ASSUME NEW t \in T PROVE m >= t
    OBVIOUS
  <2>1. u =< n - t
    BY <1>0, <1>2
  <2> QED BY <1>0, <1>3, <2>1
<1>5. \E x \in T : \A y \in T : x >= y
  BY <1>4
<1>6. Max(T) \in T /\ \A y \in T : Max(T) >= y
  BY <1>5 DEF Max
<1> QED BY <1>6

\* A collection of finite sets that is not empty has one of the least size.
LEMMA SmallestSet ==
  ASSUME NEW C, C # {}, \A T \in C : IsFiniteSet(T)
  PROVE  \E T \in C : \A U \in C : Cardinality(T) =< Cardinality(U)
<1> DEFINE sizes == {Cardinality(T) : T \in C}
<1>1. sizes \in SUBSET Nat /\ sizes # {}
  BY FS_CardinalityType
<1> HIDE DEF sizes
<1>2. PICK n \in sizes : \A m \in sizes : n =< m
  BY <1>1, LeastNumber
<1> QED BY <1>2 DEF sizes

\* Induction over the subsets of a finite set, for a property given as the set D of
\* those that have it: if a set is in D as soon as all of its proper subsets are,
\* every subset is in D.
LEMMA SubsetInduction ==
  ASSUME NEW S, IsFiniteSet(S), NEW D,
         \A T \in SUBSET S : (\A U \in SUBSET T : U # T => U \in D) => T \in D
  PROVE  \A T \in SUBSET S : T \in D
<1> DEFINE C == {T \in SUBSET S : T \notin D}
<1> SUFFICES ASSUME C # {} PROVE FALSE
  OBVIOUS
<1>1. \A T \in C : IsFiniteSet(T)
  BY FS_Subset
<1> HIDE DEF C
<1>2. PICK T \in C : \A U \in C : Cardinality(T) =< Cardinality(U)
  BY <1>1, SmallestSet
<1>3. T \in SUBSET S /\ T \notin D
  BY DEF C
<1>4. ASSUME NEW U \in SUBSET T, U # T PROVE U \in D
  <2>1. IsFiniteSet(T)
    BY <1>1
  <2>2. Cardinality(U) =< Cardinality(T) /\ Cardinality(U) # Cardinality(T)
    BY <1>4, <2>1, FS_Subset
  <2>3. Cardinality(U) \in Nat /\ Cardinality(T) \in Nat
    BY <2>1, FS_Subset, FS_CardinalityType
  <2>4. U \notin C
    BY <1>2, <2>2, <2>3
  <2> QED BY <1>3, <2>4 DEF C
<1> QED BY <1>3, <1>4

-----------------------------------------------------------------------------
\* The element that the fold takes out first
Chosen(s) == CHOOSE x \in s : TRUE

\* g is the sums of f over the subsets of S.
SumsOver(f, S, g) ==
  g = [s \in SUBSET S |-> IF s = {} THEN 0 ELSE f[Chosen(s)] + g[s \ {Chosen(s)}]]

\* Two solutions over sets that overlap say the same of what they have in common.
LEMMA SumsAgree ==
  ASSUME NEW f, NEW S, NEW U, NEW g, NEW h, SumsOver(f, S, g), SumsOver(f, U, h),
         NEW T \in SUBSET (S \cap U), IsFiniteSet(T)
  PROVE  g[T] = h[T]
<1> DEFINE D == {V \in SUBSET T : g[V] = h[V]}
<1>1. ASSUME NEW V \in SUBSET T, \A W \in SUBSET V : W # V => W \in D
      PROVE  V \in D
  <2>1. V \in SUBSET S /\ V \in SUBSET U
    OBVIOUS
  <2>2. CASE V = {}
    BY <2>1, <2>2 DEF SumsOver
  <2>3. CASE V # {}
    <3>1. Chosen(V) \in V
      BY <2>3 DEF Chosen
    <3>2. g[V \ {Chosen(V)}] = h[V \ {Chosen(V)}]
      BY <1>1, <3>1
    <3>3. g[V] = f[Chosen(V)] + g[V \ {Chosen(V)}]
      BY <2>1, <2>3 DEF SumsOver
    <3>4. h[V] = f[Chosen(V)] + h[V \ {Chosen(V)}]
      BY <2>1, <2>3 DEF SumsOver
    <3> QED BY <3>2, <3>3, <3>4
  <2> QED BY <2>2, <2>3
<1> HIDE DEF D
<1>2. T \in D
  BY <1>1, SubsetInduction
<1> QED BY <1>2 DEF D

\* A finite set has its sums.
LEMMA SumsExist ==
  ASSUME NEW f, NEW S, IsFiniteSet(S)
  PROVE  \E g : SumsOver(f, S, g)
<1> DEFINE D == {T \in SUBSET S : \E g : SumsOver(f, T, g)}
<1>1. ASSUME NEW T \in SUBSET S, \A U \in SUBSET T : U # T => U \in D
      PROVE  T \in D
  <2> DEFINE of(U) == CHOOSE g : SumsOver(f, U, g)
             rest(s) == s \ {Chosen(s)}
             sum == [s \in SUBSET T |->
                       IF s = {} THEN 0 ELSE f[Chosen(s)] + of(rest(s))[rest(s)]]
  <2>1. ASSUME NEW s \in SUBSET T, s # {}
        PROVE  sum[s \ {Chosen(s)}] = of(s \ {Chosen(s)})[s \ {Chosen(s)}]
    <3> DEFINE u == s \ {Chosen(s)}
    <3>1. Chosen(s) \in s /\ u \in SUBSET T /\ u # T /\ IsFiniteSet(u)
      BY <2>1, FS_Subset DEF Chosen
    <3>2. SumsOver(f, u, of(u))
      BY <1>1, <3>1
    <3>3. CASE u = {}
      <4>1. of(u)[u] = 0
        BY <3>2, <3>3 DEF SumsOver
      <4>2. sum[u] = 0
        BY <3>1, <3>3
      <4> QED BY <4>1, <4>2
    <3>4. CASE u # {}
      <4> DEFINE v == u \ {Chosen(u)}
      <4>1. Chosen(u) \in u /\ v \in SUBSET T /\ v # T /\ IsFiniteSet(v) /\ v \in SUBSET u
        BY <3>1, <3>4, FS_Subset DEF Chosen
      <4>2. SumsOver(f, v, of(v))
        BY <1>1, <4>1
      <4>3. sum[u] = f[Chosen(u)] + of(v)[v]
        BY <3>1, <3>4
      <4>4. of(u)[u] = f[Chosen(u)] + of(u)[v]
        BY <3>2, <3>4 DEF SumsOver
      <4> HIDE DEF of, v, u, sum
      <4>5. of(u)[v] = of(v)[v]
        BY <3>2, <4>1, <4>2, SumsAgree
      <4> QED BY <4>3, <4>4, <4>5 DEF u
    <3> QED BY <3>3, <3>4
  <2> HIDE DEF of
  <2>2. sum = [s \in SUBSET T |-> sum[s]]
    OBVIOUS
  <2>3. \A s \in SUBSET T : sum[s] = IF s = {} THEN 0 ELSE f[Chosen(s)] + sum[s \ {Chosen(s)}]
    BY <2>1
  <2> HIDE DEF sum
  <2>4. sum = [s \in SUBSET T |-> IF s = {} THEN 0 ELSE f[Chosen(s)] + sum[s \ {Chosen(s)}]]
    BY <2>2, <2>3
  <2>5. SumsOver(f, T, sum)
    BY <2>4 DEF SumsOver
  <2> QED BY <2>5
<1> HIDE DEF D
<1>2. S \in D
  BY <1>1, SubsetInduction
<1> QED BY <1>2 DEF D

-----------------------------------------------------------------------------
\* The sum over a finite set meets its defining equation.
LEMMA SumEquation ==
  ASSUME NEW f, NEW S, IsFiniteSet(S)
  PROVE  SumFunctionOnSet(f, S) =
           IF S = {} THEN 0 ELSE f[Chosen(S)] + SumFunctionOnSet(f, S \ {Chosen(S)})
<1> DEFINE of(U) == CHOOSE g : SumsOver(f, U, g)
<1>1. \A U : SumFunctionOnSet(f, U) = of(U)[U]
  BY DEF SumFunctionOnSet, FoldFunctionOnSet, MapThenFoldSet, SumsOver, Chosen
<1>2. \A U : IsFiniteSet(U) => SumsOver(f, U, of(U))
  BY SumsExist
<1> HIDE DEF of
<1>3. SumsOver(f, S, of(S))
  BY <1>2
<1>4. CASE S = {}
  BY <1>1, <1>3, <1>4 DEF SumsOver
<1>5. CASE S # {}
  <2> DEFINE u == S \ {Chosen(S)}
  <2>1. u \in SUBSET S /\ u \in SUBSET u /\ IsFiniteSet(u)
    BY FS_Subset
  <2>2. of(S)[S] = f[Chosen(S)] + of(S)[u]
    BY <1>3, <1>5 DEF SumsOver
  <2>3. SumsOver(f, u, of(u))
    BY <1>2, <2>1
  <2> HIDE DEF u
  <2>4. of(S)[u] = of(u)[u]
    BY <1>3, <2>1, <2>3, SumsAgree
  <2> QED BY <1>1, <1>5, <2>2, <2>4 DEF u
<1> QED BY <1>4, <1>5

\* Functions that agree on S have one sum over it.
LEMMA SumCongruence ==
  ASSUME NEW f, NEW h, NEW S, IsFiniteSet(S), \A x \in S : f[x] = h[x]
  PROVE  SumFunctionOnSet(f, S) = SumFunctionOnSet(h, S)
<1> DEFINE D == {T \in SUBSET S : SumFunctionOnSet(f, T) = SumFunctionOnSet(h, T)}
<1>1. ASSUME NEW T \in SUBSET S, \A U \in SUBSET T : U # T => U \in D
      PROVE  T \in D
  <2>1. IsFiniteSet(T)
    BY FS_Subset
  <2>2. CASE T = {}
    BY <2>1, <2>2, SumEquation
  <2>3. CASE T # {}
    <3>1. Chosen(T) \in T
      BY <2>3 DEF Chosen
    <3>2. SumFunctionOnSet(f, T \ {Chosen(T)}) = SumFunctionOnSet(h, T \ {Chosen(T)})
      BY <1>1, <3>1
    <3>3. f[Chosen(T)] = h[Chosen(T)]
      BY <3>1
    <3> QED BY <2>1, <2>3, <3>2, <3>3, SumEquation
  <2> QED BY <2>2, <2>3
<1> HIDE DEF D
<1>2. S \in D
  BY <1>1, SubsetInduction
<1> QED BY <1>2 DEF D

\* A sum of integers is one, and any element may be taken out of it.
LEMMA SumRemove ==
  ASSUME NEW S, IsFiniteSet(S), NEW f, \A x \in S : f[x] \in Int
  PROVE  /\ SumFunctionOnSet(f, S) \in Int
         /\ \A x \in S : SumFunctionOnSet(f, S) = f[x] + SumFunctionOnSet(f, S \ {x})
<1> DEFINE sum(T) == SumFunctionOnSet(f, T)
           Good(T) == sum(T) \in Int /\ \A x \in T : sum(T) = f[x] + sum(T \ {x})
           D == {T \in SUBSET S : Good(T)}
<1>0. ASSUME NEW T \in SUBSET S
      PROVE  sum(T) = IF T = {} THEN 0 ELSE f[Chosen(T)] + sum(T \ {Chosen(T)})
  BY FS_Subset, SumEquation
<1> HIDE DEF sum
<1>1. ASSUME NEW T \in SUBSET S, \A U \in SUBSET T : U # T => U \in D
      PROVE  Good(T)
  <2>1. CASE T = {}
    BY <1>0, <2>1
  <2>2. CASE T # {}
    <3> DEFINE c == Chosen(T)
    <3>1. c \in T
      BY <2>2 DEF Chosen
    <3> HIDE DEF c
    <3>2. sum(T) = f[c] + sum(T \ {c})
      BY <1>0, <2>2 DEF c
    <3>3. sum(T \ {c}) \in Int
      BY <1>1, <3>1
    <3>4. ASSUME NEW x \in T PROVE sum(T) = f[x] + sum(T \ {x})
      <4>1. CASE x = c
        BY <3>2, <4>1
      <4>2. CASE x # c
        <5>1. sum(T \ {c}) = f[x] + sum((T \ {c}) \ {x})
          BY <1>1, <3>1, <4>2
        <5>2. sum(T \ {x}) = f[c] + sum((T \ {x}) \ {c})
          BY <1>1, <3>1, <4>2
        <5>3. (T \ {c}) \ {x} = (T \ {x}) \ {c}
          OBVIOUS
        <5>4. sum((T \ {c}) \ {x}) \in Int
          <6>1. (T \ {c}) \ {x} \in D
            BY <1>1, <3>1
          <6> QED BY <6>1
        <5>5. f[x] \in Int /\ f[c] \in Int
          BY <3>1
        <5>6. PICK k \in Int : k = sum((T \ {c}) \ {x})
          BY <5>4
        <5>7. sum(T \ {c}) = f[x] + k
          BY <5>1, <5>6
        <5>8. sum(T \ {x}) = f[c] + k
          BY <5>2, <5>3, <5>6
        <5>9. f[c] + (f[x] + k) = f[x] + (f[c] + k)
          BY <5>5
        <5> HIDE DEF D, Good
        <5> QED BY <3>2, <5>7, <5>8, <5>9
      <4> QED BY <4>1, <4>2
    <3>5. sum(T) \in Int
      BY <3>1, <3>2, <3>3
    <3> QED BY <3>4, <3>5
  <2> QED BY <2>1, <2>2
<1> HIDE DEF Good
<1>2. \A T \in SUBSET S : (\A U \in SUBSET T : U # T => U \in D) => T \in D
  BY <1>1
<1> HIDE DEF D
<1>3. S \in D
  BY <1>2, SubsetInduction
<1> QED BY <1>3 DEF D, Good, sum

\* The empty sum
LEMMA SumEmpty ==
  ASSUME NEW f
  PROVE  SumFunctionOnSet(f, {}) = 0
BY FS_EmptySet, SumEquation

\* A sum of zeros
LEMMA SumZero ==
  ASSUME NEW S, IsFiniteSet(S), NEW f, \A x \in S : f[x] = 0
  PROVE  SumFunctionOnSet(f, S) = 0
<1> DEFINE D == {T \in SUBSET S : SumFunctionOnSet(f, T) = 0}
<1>1. ASSUME NEW T \in SUBSET S, \A U \in SUBSET T : U # T => U \in D
      PROVE  T \in D
  <2>1. IsFiniteSet(T)
    BY FS_Subset
  <2>2. CASE T = {}
    BY <2>2, SumEmpty
  <2>3. CASE T # {}
    <3>1. Chosen(T) \in T
      BY <2>3 DEF Chosen
    <3>2. SumFunctionOnSet(f, T \ {Chosen(T)}) = 0 /\ f[Chosen(T)] = 0
      BY <1>1, <3>1
    <3> QED BY <2>1, <2>3, <3>2, SumEquation
  <2> QED BY <2>2, <2>3
<1> HIDE DEF D
<1>2. S \in D
  BY <1>1, SubsetInduction
<1> QED BY <1>2 DEF D

\* One element more
LEMMA SumInsert ==
  ASSUME NEW S, IsFiniteSet(S), NEW x, x \notin S, NEW f,
         \A y \in S \cup {x} : f[y] \in Int
  PROVE  SumFunctionOnSet(f, S \cup {x}) = f[x] + SumFunctionOnSet(f, S)
<1>1. IsFiniteSet(S \cup {x}) /\ (S \cup {x}) \ {x} = S
  BY FS_AddElement
<1>2. x \in S \cup {x}
  OBVIOUS
<1>3. \A y \in S \cup {x} :
        SumFunctionOnSet(f, S \cup {x}) = f[y] + SumFunctionOnSet(f, (S \cup {x}) \ {y})
  BY <1>1, SumRemove
<1> QED BY <1>1, <1>2, <1>3

\* A change at one element of the set changes the sum by as much.
LEMMA SumUpdate ==
  ASSUME NEW S, IsFiniteSet(S), NEW x \in S, NEW f, NEW h,
         \A y \in S : f[y] \in Int /\ h[y] \in Int,
         \A y \in S \ {x} : h[y] = f[y]
  PROVE  SumFunctionOnSet(h, S) = SumFunctionOnSet(f, S) + (h[x] - f[x])
<1>1. IsFiniteSet(S \ {x})
  BY FS_Subset
<1>2. SumFunctionOnSet(h, S \ {x}) = SumFunctionOnSet(f, S \ {x})
  BY <1>1, SumCongruence
<1>3. SumFunctionOnSet(f, S \ {x}) \in Int
  BY <1>1, SumRemove
<1>4. SumFunctionOnSet(f, S) = f[x] + SumFunctionOnSet(f, S \ {x})
  BY SumRemove
<1>5. SumFunctionOnSet(h, S) = h[x] + SumFunctionOnSet(h, S \ {x})
  BY SumRemove
<1> QED BY <1>2, <1>3, <1>4, <1>5

\* Sums of two functions over one set add up.
LEMMA SumPlus ==
  ASSUME NEW S, IsFiniteSet(S), NEW f, NEW h, NEW k,
         \A x \in S : f[x] \in Int /\ h[x] \in Int /\ k[x] = f[x] + h[x]
  PROVE  SumFunctionOnSet(k, S) = SumFunctionOnSet(f, S) + SumFunctionOnSet(h, S)
<1> DEFINE D == {T \in SUBSET S : SumFunctionOnSet(k, T)
                                   = SumFunctionOnSet(f, T) + SumFunctionOnSet(h, T)}
<1>1. ASSUME NEW T \in SUBSET S, \A U \in SUBSET T : U # T => U \in D
      PROVE  T \in D
  <2>1. CASE T = {}
    BY <2>1, SumEmpty
  <2>2. CASE T # {}
    <3>1. PICK c \in T : TRUE
      BY <2>2
    <3> DEFINE u == T \ {c}
    <3>2. IsFiniteSet(T) /\ IsFiniteSet(u) /\ u \in SUBSET T /\ u # T
      BY <3>1, FS_Subset
    <3>3. \A x \in T : f[x] \in Int /\ h[x] \in Int /\ k[x] \in Int
      OBVIOUS
    <3>4. SumFunctionOnSet(k, u) = SumFunctionOnSet(f, u) + SumFunctionOnSet(h, u)
      BY <1>1, <3>2
    <3>5. SumFunctionOnSet(f, T) = f[c] + SumFunctionOnSet(f, u)
      BY <3>2, <3>3, SumRemove
    <3>6. SumFunctionOnSet(h, T) = h[c] + SumFunctionOnSet(h, u)
      BY <3>2, <3>3, SumRemove
    <3>7. SumFunctionOnSet(k, T) = k[c] + SumFunctionOnSet(k, u)
      BY <3>2, <3>3, SumRemove
    <3>8. k[c] = f[c] + h[c] /\ f[c] \in Int /\ h[c] \in Int
      OBVIOUS
    <3>9. SumFunctionOnSet(f, u) \in Int
      BY <3>2, <3>3, SumRemove
    <3>10. SumFunctionOnSet(h, u) \in Int
      BY <3>2, <3>3, SumRemove
    <3> HIDE DEF u
    <3>11. SumFunctionOnSet(k, T) = SumFunctionOnSet(f, T) + SumFunctionOnSet(h, T)
      BY <3>4, <3>5, <3>6, <3>7, <3>8, <3>9, <3>10
    <3> QED BY <3>11
  <2> QED BY <2>1, <2>2
<1> HIDE DEF D
<1>2. S \in D
  BY <1>1, SubsetInduction
<1> QED BY <1>2 DEF D

\* The sum over the union of two sets that have nothing in common
LEMMA SumUnion ==
  ASSUME NEW S, IsFiniteSet(S), NEW T, IsFiniteSet(T), S \cap T = {}, NEW f,
         \A x \in S \cup T : f[x] \in Int
  PROVE  SumFunctionOnSet(f, S \cup T) = SumFunctionOnSet(f, S) + SumFunctionOnSet(f, T)
<1> DEFINE D == {U \in SUBSET T : SumFunctionOnSet(f, S \cup U)
                                   = SumFunctionOnSet(f, S) + SumFunctionOnSet(f, U)}
<1>1. ASSUME NEW U \in SUBSET T, \A V \in SUBSET U : V # U => V \in D
      PROVE  U \in D
  <2>0. SumFunctionOnSet(f, S) \in Int
    BY SumRemove
  <2>1. CASE U = {}
    BY <2>0, <2>1, SumEmpty
  <2>2. CASE U # {}
    <3>1. PICK c \in U : TRUE
      BY <2>2
    <3> DEFINE v == U \ {c}
    <3>2. /\ IsFiniteSet(v) /\ v \in SUBSET U /\ v # U /\ c \notin v /\ c \notin S \cup v
          /\ U = v \cup {c} /\ S \cup U = (S \cup v) \cup {c}
      BY FS_Subset
    <3>3. IsFiniteSet(S \cup v)
      BY <3>2, FS_Union
    <3>4. SumFunctionOnSet(f, S \cup v) = SumFunctionOnSet(f, S) + SumFunctionOnSet(f, v)
      BY <1>1, <3>2
    <3>5. f[c] \in Int /\ (\A x \in v : f[x] \in Int) /\ (\A x \in S \cup v : f[x] \in Int)
      OBVIOUS
    <3> HIDE DEF v
    <3>6. SumFunctionOnSet(f, U) = f[c] + SumFunctionOnSet(f, v)
      BY <3>2, <3>5, SumInsert
    <3>7. SumFunctionOnSet(f, S \cup U) = f[c] + SumFunctionOnSet(f, S \cup v)
      BY <3>2, <3>3, <3>5, SumInsert
    <3>8. SumFunctionOnSet(f, v) \in Int
      BY <3>2, <3>5, SumRemove
    <3>9. SumFunctionOnSet(f, S \cup U) = SumFunctionOnSet(f, S) + SumFunctionOnSet(f, U)
      BY <2>0, <3>4, <3>5, <3>6, <3>7, <3>8
    <3> QED BY <3>9
  <2> QED BY <2>1, <2>2
<1> HIDE DEF D
<1>2. T \in D
  BY <1>1, SubsetInduction
<1> QED BY <1>2 DEF D

\* A sum of numbers none of which is negative is not, and grows with its set.
LEMMA SumGrows ==
  ASSUME NEW S, IsFiniteSet(S), NEW T \in SUBSET S, NEW f, \A x \in S : f[x] \in Nat
  PROVE  SumFunctionOnSet(f, T) \in Nat /\ SumFunctionOnSet(f, T) =< SumFunctionOnSet(f, S)
<1>0. \A x \in S : f[x] \in Int
  OBVIOUS
<1> DEFINE D == {U \in SUBSET S : SumFunctionOnSet(f, U) >= 0}
<1>1. ASSUME NEW U \in SUBSET S, \A V \in SUBSET U : V # U => V \in D
      PROVE  U \in D
  <2>1. CASE U = {}
    BY <2>1, SumEmpty
  <2>2. CASE U # {}
    <3>1. PICK c \in U : TRUE
      BY <2>2
    <3>2. IsFiniteSet(U) /\ IsFiniteSet(U \ {c})
      BY FS_Subset
    <3>3. SumFunctionOnSet(f, U \ {c}) >= 0
      BY <1>1
    <3>4. SumFunctionOnSet(f, U \ {c}) \in Int
      BY <1>0, <3>2, SumRemove
    <3>5. SumFunctionOnSet(f, U) = f[c] + SumFunctionOnSet(f, U \ {c})
      BY <1>0, <3>2, SumRemove
    <3>6. f[c] \in Nat
      OBVIOUS
    <3> QED BY <3>3, <3>4, <3>5, <3>6
  <2> QED BY <2>1, <2>2
<1> HIDE DEF D
<1>2. \A U \in SUBSET S : U \in D
  BY <1>1, SubsetInduction
<1>3. \A U \in SUBSET S : IsFiniteSet(U)
  BY FS_Subset
<1>4. \A U \in SUBSET S : SumFunctionOnSet(f, U) \in Int
  BY <1>0, <1>3, SumRemove
<1>5. \A U \in SUBSET S : SumFunctionOnSet(f, U) \in Nat
  BY <1>2, <1>4 DEF D
<1>6. /\ S \ T \in SUBSET S /\ IsFiniteSet(T) /\ IsFiniteSet(S \ T)
      /\ T \cup (S \ T) = S /\ T \cap (S \ T) = {}
  BY <1>3
<1>7. SumFunctionOnSet(f, T \cup (S \ T))
        = SumFunctionOnSet(f, T) + SumFunctionOnSet(f, S \ T)
  BY <1>0, <1>6, SumUnion
<1> QED BY <1>5, <1>6, <1>7

-----------------------------------------------------------------------------
\* Two sets with nothing in common have their elements together.
LEMMA DisjointUnion ==
  ASSUME NEW A, IsFiniteSet(A), NEW B, IsFiniteSet(B), A \cap B = {}
  PROVE  /\ IsFiniteSet(A \cup B)
         /\ Cardinality(A \cup B) = Cardinality(A) + Cardinality(B)
<1>1. Cardinality(A \cap B) = 0 /\ Cardinality(A) \in Nat /\ Cardinality(B) \in Nat
  BY FS_EmptySet, FS_CardinalityType
<1>2. /\ IsFiniteSet(A \cup B)
      /\ Cardinality(A \cup B) = Cardinality(A) + Cardinality(B) - Cardinality(A \cap B)
  BY FS_Union
<1> QED BY <1>1, <1>2

\* A sum of cardinalities is one: as many elements as the disjoint sets P[x] have together
LEMMA SumOfParts ==
  ASSUME NEW S, IsFiniteSet(S), NEW P, NEW f,
         \A x \in S : IsFiniteSet(P[x]) /\ f[x] = Cardinality(P[x]),
         \A x, y \in S : x # y => P[x] \cap P[y] = {}
  PROVE  SumFunctionOnSet(f, S) = Cardinality(UNION {P[x] : x \in S})
<1> DEFINE all(T) == UNION {P[x] : x \in T}
           D == {T \in SUBSET S : /\ IsFiniteSet(all(T))
                                  /\ SumFunctionOnSet(f, T) = Cardinality(all(T))}
<1>1. ASSUME NEW T \in SUBSET S, \A U \in SUBSET T : U # T => U \in D
      PROVE  T \in D
  <2>1. CASE T = {}
    <3>1. all(T) = {}
      BY <2>1
    <3> QED BY <2>1, <3>1, SumEmpty, FS_EmptySet
  <2>2. CASE T # {}
    <3>1. PICK x \in T : TRUE
      BY <2>2
    <3>2. T \ {x} \in D /\ IsFiniteSet(T) /\ IsFiniteSet(T \ {x})
      BY <1>1, <3>1, FS_Subset
    <3>3. /\ all(T) = all(T \ {x}) \cup P[x]
          /\ all(T \ {x}) \cap P[x] = {}
      BY <3>1
    <3>4. /\ IsFiniteSet(all(T))
          /\ Cardinality(all(T)) = Cardinality(all(T \ {x})) + Cardinality(P[x])
      <4>1. IsFiniteSet(all(T \ {x})) /\ IsFiniteSet(P[x])
        BY <3>1, <3>2
      <4>2. PICK A, B : A = all(T \ {x}) /\ B = P[x]
        OBVIOUS
      <4> HIDE DEF all, D
      <4>3. /\ IsFiniteSet(A \cup B)
            /\ Cardinality(A \cup B) = Cardinality(A) + Cardinality(B)
        BY <3>3, <4>1, <4>2, DisjointUnion
      <4> QED BY <3>3, <4>2, <4>3
    <3>5. \A y \in T : f[y] \in Int
      BY FS_CardinalityType
    <3>6. SumFunctionOnSet(f, T) = f[x] + SumFunctionOnSet(f, T \ {x})
      BY <3>1, <3>2, <3>5, SumRemove
    <3>7. /\ SumFunctionOnSet(f, T \ {x}) = Cardinality(all(T \ {x}))
          /\ Cardinality(all(T \ {x})) \in Nat
      BY <3>2, FS_CardinalityType
    <3> HIDE DEF all
    <3>8. SumFunctionOnSet(f, T) = Cardinality(all(T))
      BY <3>1, <3>4, <3>5, <3>6, <3>7
    <3> QED BY <3>4, <3>8
  <2> QED BY <2>1, <2>2
<1> HIDE DEF D
<1>2. S \in D
  BY <1>1, SubsetInduction
<1> QED BY <1>2 DEF D

\* c times a sum less another one
LEMMA SumLinear ==
  ASSUME NEW S, IsFiniteSet(S), NEW f, NEW h, NEW k, NEW c \in Int,
         \A x \in S : f[x] \in Int /\ h[x] \in Int /\ k[x] = c * f[x] - h[x]
  PROVE  SumFunctionOnSet(k, S) = c * SumFunctionOnSet(f, S) - SumFunctionOnSet(h, S)
<1> DEFINE D == {T \in SUBSET S : SumFunctionOnSet(k, T)
                                   = c * SumFunctionOnSet(f, T) - SumFunctionOnSet(h, T)}
<1>1. ASSUME NEW T \in SUBSET S, \A U \in SUBSET T : U # T => U \in D
      PROVE  T \in D
  <2>1. CASE T = {}
    <3>1. /\ SumFunctionOnSet(k, T) = 0 /\ SumFunctionOnSet(f, T) = 0
          /\ SumFunctionOnSet(h, T) = 0
      BY <2>1, SumEmpty
    <3> QED BY <3>1
  <2>2. CASE T # {}
    <3>1. PICK x \in T : TRUE
      BY <2>2
    <3>2. T \ {x} \in D /\ IsFiniteSet(T) /\ IsFiniteSet(T \ {x})
      BY <1>1, <3>1, FS_Subset
    <3>3. \A y \in T : f[y] \in Int /\ h[y] \in Int /\ k[y] \in Int
      OBVIOUS
    <3>4. /\ SumFunctionOnSet(k, T) = k[x] + SumFunctionOnSet(k, T \ {x})
          /\ SumFunctionOnSet(f, T) = f[x] + SumFunctionOnSet(f, T \ {x})
          /\ SumFunctionOnSet(h, T) = h[x] + SumFunctionOnSet(h, T \ {x})
      BY <3>1, <3>2, <3>3, SumRemove
    <3>5. PICK a, b, d : /\ a = SumFunctionOnSet(k, T \ {x}) /\ b = SumFunctionOnSet(f, T \ {x})
                         /\ d = SumFunctionOnSet(h, T \ {x})
      OBVIOUS
    <3>6. b \in Int /\ d \in Int /\ a = c * b - d
      <4>1. b \in Int /\ d \in Int
        BY <3>2, <3>3, <3>5, SumRemove
      <4> QED BY <3>2, <3>5, <4>1
    <3>7. \A y, z \in Int : (c * y - z) + (c * b - d) = c * (y + b) - (z + d)
      <4> TAKE y, z \in Int
      <4> QED BY <3>6, SMTT(30)
    <3>8. f[x] \in Int /\ h[x] \in Int /\ k[x] = c * f[x] - h[x]
      BY <3>1
    <3>9. SumFunctionOnSet(k, T) = c * SumFunctionOnSet(f, T) - SumFunctionOnSet(h, T)
      <4>1. PICK y, z \in Int : y = f[x] /\ z = h[x]
        BY <3>8
      <4>2. (c * y - z) + (c * b - d) = c * (y + b) - (z + d)
        BY <3>7, <4>1
      <4>3. SumFunctionOnSet(k, T) = (c * y - z) + (c * b - d)
        BY <3>4, <3>5, <3>6, <3>8, <4>1
      <4>4. SumFunctionOnSet(f, T) = y + b /\ SumFunctionOnSet(h, T) = z + d
        BY <3>4, <3>5, <4>1
      <4> QED BY <4>2, <4>3, <4>4
    <3> QED BY <3>9
  <2> QED BY <2>1, <2>2
<1> HIDE DEF D
<1>2. S \in D
  BY <1>1, SubsetInduction
<1> QED BY <1>2 DEF D

\* A sum over a sequence that has become one longer
LEMMA SumAppend ==
  ASSUME NEW n \in Nat, NEW f, NEW h, \A i \in 1..(n + 1) : h[i] \in Int,
         \A i \in 1..n : h[i] = f[i]
  PROVE  SumFunctionOnSet(h, 1..(n + 1)) = SumFunctionOnSet(f, 1..n) + h[n + 1]
<1>1. 1..(n + 1) = (1..n) \cup {n + 1} /\ n + 1 \notin 1..n
  OBVIOUS
<1>2. IsFiniteSet(1..n)
  BY FS_Interval
<1>3. \A i \in (1..n) \cup {n + 1} : h[i] \in Int
  BY <1>1
<1>4. SumFunctionOnSet(h, (1..n) \cup {n + 1}) = h[n + 1] + SumFunctionOnSet(h, 1..n)
  BY <1>1, <1>2, <1>3, SumInsert
<1>5. SumFunctionOnSet(h, 1..n) = SumFunctionOnSet(f, 1..n)
  BY <1>2, SumCongruence
<1>6. h[n + 1] \in Int /\ SumFunctionOnSet(h, 1..n) \in Int
  <2>1. h[n + 1] \in Int /\ \A i \in 1..n : h[i] \in Int
    BY <1>3
  <2> QED BY <1>2, <2>1, SumRemove
<1>7. PICK a, b \in Int : a = h[n + 1] /\ b = SumFunctionOnSet(h, 1..n)
  BY <1>6
<1>8. SumFunctionOnSet(h, (1..n) \cup {n + 1}) = b + a
  BY <1>4, <1>7
<1>9. SumFunctionOnSet(h, 1..(n + 1)) = b + a
  BY <1>1, <1>8
<1> QED BY <1>5, <1>7, <1>9

\* The values of a function on a finite set are finitely many.
LEMMA FiniteImage ==
  ASSUME NEW S, IsFiniteSet(S), NEW f
  PROVE  IsFiniteSet({f[x] : x \in S})
<1> DEFINE C == {T \in SUBSET S : IsFiniteSet({f[x] : x \in T})}
<1>1. ASSUME NEW T \in SUBSET S, \A U \in SUBSET T : U # T => U \in C
      PROVE  T \in C
  <2>1. CASE T = {}
    <3>1. {f[x] : x \in T} = {}
      BY <2>1
    <3> QED BY <3>1, FS_EmptySet
  <2>2. CASE T # {}
    <3>1. PICK y \in T : TRUE
      BY <2>2
    <3>2. T \ {y} \in C
      <4> HIDE DEF C
      <4>1. T \ {y} \in SUBSET T /\ T \ {y} # T
        BY <3>1
      <4> QED BY <1>1, <4>1
    <3>3. IsFiniteSet({f[x] : x \in T \ {y}} \cup {f[y]})
      BY <3>2, FS_AddElement
    <3>4. {f[x] : x \in T} = {f[x] : x \in T \ {y}} \cup {f[y]}
      BY <3>1
    <3> QED BY <3>3, <3>4
  <2> QED BY <2>1, <2>2
<1> HIDE DEF C
<1>2. S \in C
  BY <1>1, SubsetInduction
<1> QED BY <1>2 DEF C

\* A finite set of integers has a greatest element, which Max chooses.
LEMMA GreatestOf ==
  ASSUME NEW S, IsFiniteSet(S), S # {}, S \subseteq Int
  PROVE  Max(S) \in S /\ \A x \in S : x =< Max(S)
<1> DEFINE C == {T \in SUBSET S : T # {} => \E m \in T : \A x \in T : x =< m}
<1>1. ASSUME NEW T \in SUBSET S, \A U \in SUBSET T : U # T => U \in C
      PROVE  T \in C
  <2>1. SUFFICES ASSUME T # {} PROVE \E m \in T : \A x \in T : x =< m
    OBVIOUS
  <2>2. PICK y \in T : TRUE
    BY <2>1
  <2>3. T \ {y} \in C
    <3> HIDE DEF C
    <3>1. T \ {y} \in SUBSET T /\ T \ {y} # T
      BY <2>2
    <3> QED BY <1>1, <3>1
  <2>4. CASE T \ {y} = {}
    <3>1. \A x \in T : x = y
      BY <2>4
    <3>2. y \in Int
      OBVIOUS
    <3> QED BY <3>1, <3>2
  <2>5. CASE T \ {y} # {}
    <3>1. PICK m \in T \ {y} : \A x \in T \ {y} : x =< m
      BY <2>3, <2>5
    <3>2. PICK k \in T : k \in {m, y} /\ m =< k /\ y =< k
      <4>1. m \in Int /\ y \in Int /\ m \in T
        OBVIOUS
      <4>2. m =< y \/ y =< m
        BY <4>1
      <4> QED BY <4>1, <4>2
    <3>3. ASSUME NEW x \in T PROVE x =< k
      <4>1. x \in Int /\ m \in Int /\ k \in Int
        OBVIOUS
      <4>2. x = y \/ x =< m
        BY <3>1
      <4> QED BY <3>2, <4>1, <4>2
    <3> QED BY <3>3
  <2> QED BY <2>4, <2>5
<1> HIDE DEF C
<1>2. S \in C
  BY <1>1, SubsetInduction
<1>3. \E m \in S : \A x \in S : m >= x
  <2>1. PICK m \in S : \A x \in S : x =< m
    BY <1>2 DEF C
  <2>2. \A x \in S : m >= x
    <3> TAKE x \in S
    <3>1. x \in Int /\ m \in Int /\ x =< m
      BY <2>1
    <3> QED BY <3>1
  <2> QED BY <2>2
<1>4. Max(S) \in S /\ \A x \in S : Max(S) >= x
  BY <1>3 DEF Max
<1>5. ASSUME NEW x \in S PROVE x =< Max(S)
  <2>1. PICK m \in Int : m = Max(S) /\ m >= x
    BY <1>4
  <2>2. x \in Int
    OBVIOUS
  <2> QED BY <2>1, <2>2
<1> QED BY <1>4, <1>5

\* It has a least element, which Min chooses.
LEMMA LeastOf ==
  ASSUME NEW S, IsFiniteSet(S), S # {}, S \subseteq Int
  PROVE  Min(S) \in S /\ \A x \in S : Min(S) =< x
<1> DEFINE N == {0 - x : x \in S}
<1>1. IsFiniteSet(N) /\ N # {} /\ N \subseteq Int
  <2> DEFINE f == [x \in S |-> 0 - x]
  <2>1. IsFiniteSet({f[x] : x \in S})
    <3> HIDE DEF f
    <3> QED BY FiniteImage
  <2>2. N = {f[x] : x \in S}
    OBVIOUS
  <2>3. N # {}
    OBVIOUS
  <2>4. ASSUME NEW y \in N PROVE y \in Int
    <3>1. PICK x \in S : y = 0 - x
      OBVIOUS
    <3>2. x \in Int
      OBVIOUS
    <3> QED BY <3>1, <3>2
  <2> HIDE DEF N, f
  <2> QED BY <2>1, <2>2, <2>3, <2>4
<1>2. PICK g \in N : g = Max(N) /\ \A n \in N : n =< g
  <2> HIDE DEF N
  <2> QED BY <1>1, GreatestOf
<1>3. PICK m \in S : g = 0 - m
  OBVIOUS
<1>4. ASSUME NEW x \in S PROVE m =< x
  <2>1. 0 - x =< 0 - m
    BY <1>2, <1>3
  <2>2. x \in Int /\ m \in Int
    OBVIOUS
  <2> QED BY <2>1, <2>2
<1>5. Min(S) \in S /\ \A x \in S : Min(S) =< x
  BY <1>4 DEF Min
<1> QED BY <1>5

\* A sum over A that goes on over a larger set with zeros
LEMMA SumExtended ==
  ASSUME NEW S, IsFiniteSet(S), NEW A \in SUBSET S, NEW f, NEW h,
         \A a \in A : f[a] \in Int /\ h[a] = f[a], \A a \in S \ A : h[a] = 0
  PROVE  SumFunctionOnSet(h, S) = SumFunctionOnSet(f, A)
<1>1. IsFiniteSet(A) /\ IsFiniteSet(S \ A) /\ A \cap (S \ A) = {} /\ A \cup (S \ A) = S
  BY FS_Subset
<1>2. \A a \in A \cup (S \ A) : h[a] \in Int
  OBVIOUS
<1>3. SumFunctionOnSet(h, A \cup (S \ A)) = SumFunctionOnSet(h, A) + SumFunctionOnSet(h, S \ A)
  BY <1>1, <1>2, SumUnion
<1>4. SumFunctionOnSet(h, S \ A) = 0
  BY <1>1, SumZero
<1>5. SumFunctionOnSet(h, A) = SumFunctionOnSet(f, A)
  BY <1>1, SumCongruence
<1>6. SumFunctionOnSet(h, A) \in Int
  BY <1>1, <1>2, SumRemove
<1> QED BY <1>1, <1>3, <1>4, <1>5, <1>6

\* The sums of a function that is nowhere above another one
LEMMA SumMonotone ==
  ASSUME NEW S, IsFiniteSet(S), NEW f, NEW h,
         \A x \in S : f[x] \in Int /\ h[x] \in Int /\ f[x] =< h[x]
  PROVE  SumFunctionOnSet(f, S) =< SumFunctionOnSet(h, S)
<1> DEFINE k == [x \in S |-> h[x] - f[x]]
<1>1. \A x \in S : k[x] \in Nat /\ k[x] = 1 * h[x] - f[x]
  OBVIOUS
<1> HIDE DEF k
<1>2. SumFunctionOnSet(k, S) \in Nat
  BY <1>1, SumGrows
<1>3. PICK c \in Int : c = 1
  OBVIOUS
<1>4. SumFunctionOnSet(k, S) = c * SumFunctionOnSet(h, S) - SumFunctionOnSet(f, S)
  <2>1. \A x \in S : f[x] \in Int /\ h[x] \in Int /\ k[x] = c * h[x] - f[x]
    BY <1>1, <1>3
  <2> QED BY <2>1, SumLinear
<1>5. SumFunctionOnSet(h, S) \in Int /\ SumFunctionOnSet(f, S) \in Int
  <2>1. (\A x \in S : f[x] \in Int) /\ (\A x \in S : h[x] \in Int)
    OBVIOUS
  <2> QED BY <2>1, SumRemove
<1> QED BY <1>2, <1>3, <1>4, <1>5

\* A multiple of a function
LEMMA SumTimes ==
  ASSUME NEW S, IsFiniteSet(S), NEW f, NEW c \in Int, \A x \in S : f[x] \in Int
  PROVE  SumFunctionOnSet([x \in S |-> c * f[x]], S) = c * SumFunctionOnSet(f, S)
<1>1. PICK z : z = [x \in S |-> 0]
  OBVIOUS
<1>2. PICK k : k = [x \in S |-> c * f[x]]
  OBVIOUS
<1>3. \A x \in S : c * f[x] \in Int
  <2>1. \A y \in Int : c * y \in Int
    OBVIOUS
  <2> QED BY <2>1
<1>4. \A x \in S : f[x] \in Int /\ z[x] \in Int /\ k[x] = c * f[x] - z[x]
  <2> TAKE x \in S
  <2>1. PICK d \in Int : d = c * f[x]
    BY <1>3
  <2>2. z[x] = 0 /\ k[x] = d
    BY <1>1, <1>2, <2>1
  <2> QED BY <2>1, <2>2
<1>5. SumFunctionOnSet(k, S) = c * SumFunctionOnSet(f, S) - SumFunctionOnSet(z, S)
  BY <1>4, SumLinear
<1>6. SumFunctionOnSet(z, S) = 0
  BY <1>1, SumZero
<1>7. SumFunctionOnSet(f, S) \in Int
  BY SumRemove
<1>8. PICK a \in Int : a = SumFunctionOnSet(f, S)
  BY <1>7
<1> QED BY <1>2, <1>5, <1>6, <1>8

\* Weights that are not negative keep an order.
LEMMA WeightedOrder ==
  ASSUME NEW a \in Int, NEW b \in Int, a =< b, NEW w \in Int, w >= 0
  PROVE  a * w \in Int /\ b * w \in Int /\ a * w =< b * w
<1>1. PICK d \in Nat : d = b - a
  OBVIOUS
<1>2. PICK v \in Nat : v = w
  OBVIOUS
<1>3. d * v >= 0
  OBVIOUS
<1>4. b * v = a * v + d * v
  BY <1>1
<1> QED BY <1>2, <1>3, <1>4

\* Sums of what is at least, or at most, a multiple of the weights
LEMMA WeightedSum ==
  ASSUME NEW S, IsFiniteSet(S), NEW p, NEW f, NEW c \in Int,
         \A x \in S : p[x] \in Int /\ f[x] \in Int
  PROVE  /\ SumFunctionOnSet(p, S) \in Int /\ SumFunctionOnSet(f, S) \in Int
         /\ (\A x \in S : c * f[x] =< p[x]) => c * SumFunctionOnSet(f, S) =< SumFunctionOnSet(p, S)
         /\ (\A x \in S : p[x] =< c * f[x]) => SumFunctionOnSet(p, S) =< c * SumFunctionOnSet(f, S)
<1>1. PICK m : m = [x \in S |-> c * f[x]]
  OBVIOUS
<1>2. \A x \in S : f[x] \in Int
  OBVIOUS
<1>3. SumFunctionOnSet(m, S) = c * SumFunctionOnSet(f, S)
  BY <1>1, <1>2, SumTimes
<1>4. SumFunctionOnSet(p, S) \in Int /\ SumFunctionOnSet(f, S) \in Int
  BY <1>2, SumRemove
<1>5. \A x \in S : m[x] \in Int /\ m[x] = c * f[x]
  <2>1. \A y \in Int : c * y \in Int
    OBVIOUS
  <2> QED BY <1>1, <1>2, <2>1
<1>6. ASSUME \A x \in S : c * f[x] =< p[x]
      PROVE  c * SumFunctionOnSet(f, S) =< SumFunctionOnSet(p, S)
  <2>1. \A x \in S : m[x] \in Int /\ p[x] \in Int /\ m[x] =< p[x]
    BY <1>5, <1>6
  <2>2. SumFunctionOnSet(m, S) =< SumFunctionOnSet(p, S)
    BY <2>1, SumMonotone
  <2> QED BY <1>3, <2>2
<1>7. ASSUME \A x \in S : p[x] =< c * f[x]
      PROVE  SumFunctionOnSet(p, S) =< c * SumFunctionOnSet(f, S)
  <2>1. \A x \in S : m[x] \in Int /\ p[x] \in Int /\ p[x] =< m[x]
    BY <1>5, <1>7
  <2>2. SumFunctionOnSet(p, S) =< SumFunctionOnSet(m, S)
    BY <2>1, SumMonotone
  <2> QED BY <1>3, <2>2
<1> QED BY <1>4, <1>6, <1>7

-----------------------------------------------------------------------------
\* The lesser and the greater of two integers
LEMMA LesserOfTwo ==
  ASSUME NEW i \in Int, NEW j \in Int
  PROVE  Min({i, j}) = IF i =< j THEN i ELSE j
<1> DEFINE m == IF i =< j THEN i ELSE j
<1>1. m \in {i, j} /\ \A y \in {i, j} : m =< y
  OBVIOUS
<1>2. Min({i, j}) \in {i, j} /\ \A y \in {i, j} : Min({i, j}) =< y
  BY <1>1 DEF Min
<1> QED BY <1>2

LEMMA GreaterOfTwo ==
  ASSUME NEW i \in Int, NEW j \in Int
  PROVE  Max({i, j}) = IF i >= j THEN i ELSE j
<1> DEFINE m == IF i >= j THEN i ELSE j
<1>1. m \in {i, j} /\ \A y \in {i, j} : m >= y
  OBVIOUS
<1>2. Max({i, j}) \in {i, j} /\ \A y \in {i, j} : Max({i, j}) >= y
  BY <1>1 DEF Max
<1> QED BY <1>2

\* The greatest and the least of a set of integers with one more
LEMMA GreatestOfMore ==
  ASSUME NEW S, IsFiniteSet(S), S # {}, S \subseteq Int, NEW f \in Int
  PROVE  Max(S \cup {f}) = Max({Max(S), f}) /\ Max(S) \in Int
<1>1. PICK m \in Int : m = Max(S) /\ m \in S /\ \A x \in S : x =< m
  BY GreatestOf
<1>2. PICK n \in Int : n = IF m >= f THEN m ELSE f
  OBVIOUS
<1>3. Max({m, f}) = n
  BY <1>2, GreaterOfTwo
<1>4. IsFiniteSet(S \cup {f}) /\ S \cup {f} # {} /\ S \cup {f} \subseteq Int
  BY FS_AddElement
<1>5. PICK k \in S \cup {f} : k = Max(S \cup {f}) /\ \A x \in S \cup {f} : x =< k
  BY <1>4, GreatestOf
<1>6. k =< n
  <2>1. \A x \in S \cup {f} : x =< n
    <3> TAKE x \in S \cup {f}
    <3>1. x = f \/ (x \in Int /\ x =< m)
      BY <1>1
    <3> QED BY <1>2, <3>1
  <2> QED BY <2>1
<1>7. n =< k
  BY <1>1, <1>2, <1>5
<1>8. k \in Int
  BY <1>4
<1> QED BY <1>1, <1>3, <1>5, <1>6, <1>7, <1>8

LEMMA LeastOfMore ==
  ASSUME NEW S, IsFiniteSet(S), S # {}, S \subseteq Int, NEW f \in Int
  PROVE  Min(S \cup {f}) = Min({Min(S), f}) /\ Min(S) \in Int
<1>1. PICK m \in Int : m = Min(S) /\ m \in S /\ \A x \in S : m =< x
  BY LeastOf
<1>2. PICK n \in Int : n = IF m =< f THEN m ELSE f
  OBVIOUS
<1>3. Min({m, f}) = n
  BY <1>2, LesserOfTwo
<1>4. IsFiniteSet(S \cup {f}) /\ S \cup {f} # {} /\ S \cup {f} \subseteq Int
  BY FS_AddElement
<1>5. PICK k \in S \cup {f} : k = Min(S \cup {f}) /\ \A x \in S \cup {f} : k =< x
  BY <1>4, LeastOf
<1>6. n =< k
  <2>1. \A x \in S \cup {f} : n =< x
    <3> TAKE x \in S \cup {f}
    <3>1. x = f \/ (x \in Int /\ m =< x)
      BY <1>1
    <3> QED BY <1>2, <3>1
  <2> QED BY <2>1
<1>7. k =< n
  BY <1>1, <1>2, <1>5
<1>8. k \in Int
  BY <1>4
<1> QED BY <1>1, <1>3, <1>5, <1>6, <1>7, <1>8

LEMMA OnlyOne ==
  ASSUME NEW f \in Int
  PROVE  Max({f}) = f /\ Min({f}) = f
<1>1. {f} = {f, f}
  OBVIOUS
<1> QED BY <1>1, GreaterOfTwo, LesserOfTwo

\* The first numbers are finitely many, and how many they are.
LEMMA FirstNumbers ==
  ASSUME NEW n \in Nat
  PROVE  IsFiniteSet(1..n) /\ Cardinality(1..n) = n
BY FS_Interval

-----------------------------------------------------------------------------
\* Induction over the numbers up to n, for a property given as the set D of those that
\* have it
LEMMA UpTo ==
  ASSUME NEW n \in Nat, NEW D, 0 \in D, \A k \in 0..(n - 1) : k \in D => k + 1 \in D
  PROVE  \A k \in 0..n : k \in D
<1> DEFINE Bad == {k \in 0..n : k \notin D}
<1> SUFFICES ASSUME Bad # {} PROVE FALSE
  OBVIOUS
<1>1. Bad \in SUBSET Nat
  OBVIOUS
<1>2. PICK b \in Bad : \A c \in Bad : b =< c
  <2> HIDE DEF Bad
  <2> QED BY <1>1, LeastNumber
<1>3. b \in 0..n /\ b \notin D /\ b # 0
  OBVIOUS
<1>4. b - 1 \in 0..(n - 1) /\ b = (b - 1) + 1 /\ b - 1 \in 0..n /\ ~(b =< b - 1)
  BY <1>3
<1>5. b - 1 \in D
  BY <1>2, <1>4
<1> QED BY <1>3, <1>4, <1>5

\* g takes every set s of the first n numbers to what comes of base when the steps of F
\* at the elements of s are taken in their order.
Takings(F, base, n, g) ==
  g = [s \in SUBSET (1..n) |-> IF s = {} THEN base ELSE F[Max(s)][g[s \ {Max(s)}]]]

\* What comes of base after the first n steps
OutcomeAfter(F, base, n) == (CHOOSE g : Takings(F, base, n, g))[1..n]

\* The greatest of some of the first n + 1 numbers
LEMMA MaxUpTo ==
  ASSUME NEW n \in Nat, NEW s \in SUBSET (1..(n + 1)), s # {}
  PROVE  /\ Max(s) \in s
         /\ n + 1 \in s => Max(s) = n + 1 /\ s \ {Max(s)} \in SUBSET (1..n)
         /\ n + 1 \notin s => s \in SUBSET (1..n)
<1>1. PICK m \in Nat : m = n + 1
  OBVIOUS
<1>2. PICK x \in s : x = Max(s) /\ \A y \in s : y =< x
  BY <1>1, GreatestNumber
<1>3. ASSUME m \in s PROVE x = m
  <2>1. m =< x
    BY <1>2, <1>3
  <2>2. x \in 1..m
    BY <1>1
  <2> QED BY <2>1, <2>2
<1>4. ASSUME NEW y \in s, y # m PROVE y \in 1..n
  BY <1>1, <1>4
<1>5. m \in s => x = m /\ s \ {x} \in SUBSET (1..n)
  BY <1>3, <1>4
<1>6. m \notin s => s \in SUBSET (1..n)
  BY <1>4
<1> QED BY <1>1, <1>2, <1>5, <1>6

\* The first n steps of F stay in A.
StepsIn(F, n, A) == \A k \in 1..n : F[k] \in [A -> A]

\* Such a function exists, with values in any set A that the steps do not leave.
LEMMA TakingsExist ==
  ASSUME NEW A, NEW base \in A, NEW n \in Nat, NEW F, StepsIn(F, n, A)
  PROVE  \E g \in [SUBSET (1..n) -> A] : Takings(F, base, n, g)
<1> DEFINE Good(k) == \E g \in [SUBSET (1..k) -> A] : Takings(F, base, k, g)
<1>1. Good(0)
  <2>1. 1..0 = {}
    OBVIOUS
  <2>2. PICK g : g = [s \in SUBSET (1..0) |-> base]
    OBVIOUS
  <2>3. g \in [SUBSET (1..0) -> A]
    BY <2>2
  <2>4. \A s \in SUBSET (1..0) : s = {}
    BY <2>1
  <2>5. g = [s \in SUBSET (1..0) |-> IF s = {} THEN base ELSE F[Max(s)][g[s \ {Max(s)}]]]
    BY <2>2, <2>4
  <2> QED BY <2>3, <2>5 DEF Takings
<1>2. ASSUME NEW k \in 0..(n - 1), Good(k) PROVE Good(k + 1)
  <2>1. PICK g \in [SUBSET (1..k) -> A] : Takings(F, base, k, g)
    BY <1>2
  <2>2. PICK m \in 1..n : m = k + 1
    OBVIOUS
  <2>3. PICK h : h = [s \in SUBSET (1..m) |-> IF m \in s THEN F[m][g[s \ {m}]] ELSE g[s]]
    OBVIOUS
  <2>4. ASSUME NEW s \in SUBSET (1..m)
        PROVE  h[s] \in A /\ h[s] = IF s = {} THEN base ELSE F[Max(s)][h[s \ {Max(s)}]]
    <3>0. k \in Nat
      OBVIOUS
    <3>1. CASE s = {}
      <4>1. h[s] = g[s] /\ s \in SUBSET (1..k)
        BY <2>3, <3>1
      <4>2. g[s] = base
        BY <2>1, <3>1, <4>1 DEF Takings
      <4> QED BY <3>1, <4>1, <4>2
    <3>2. CASE m \in s
      <4>1. Max(s) = m /\ s \ {m} \in SUBSET (1..k)
        BY <2>2, <3>0, <3>2, MaxUpTo
      <4>2. h[s] = F[m][g[s \ {m}]]
        BY <2>3, <3>2
      <4>3. g[s \ {m}] \in A /\ s \ {m} \in SUBSET (1..m) /\ m \notin s \ {m}
        BY <2>1, <4>1
      <4>4. h[s \ {m}] = g[s \ {m}]
        BY <2>3, <4>3
      <4>5. F[m] \in [A -> A]
        BY DEF StepsIn
      <4>6. F[m][g[s \ {m}]] \in A
        BY <4>3, <4>5
      <4> QED BY <3>2, <4>1, <4>2, <4>4, <4>6
    <3>3. CASE s # {} /\ m \notin s
      <4>1. Max(s) \in s /\ s \in SUBSET (1..k)
        BY <2>2, <3>0, <3>3, MaxUpTo
      <4>2. s \ {Max(s)} \in SUBSET (1..k) /\ s \ {Max(s)} \in SUBSET (1..m)
        BY <4>1
      <4>3. h[s] = g[s] /\ h[s \ {Max(s)}] = g[s \ {Max(s)}]
        BY <2>3, <3>3, <4>2
      <4>4. g[s] = F[Max(s)][g[s \ {Max(s)}]]
        BY <2>1, <3>3, <4>1 DEF Takings
      <4>5. g[s] \in A
        BY <2>1, <4>1
      <4> QED BY <3>3, <4>3, <4>4, <4>5
    <3> QED BY <3>1, <3>2, <3>3
  <2>5. h \in [SUBSET (1..m) -> A]
    BY <2>3, <2>4
  <2>6. h = [s \in SUBSET (1..m) |-> h[s]]
    BY <2>3
  <2>7. h = [s \in SUBSET (1..m) |-> IF s = {} THEN base ELSE F[Max(s)][h[s \ {Max(s)}]]]
    BY <2>4, <2>6
  <2>8. Good(m)
    BY <2>5, <2>7 DEF Takings
  <2> QED BY <2>2, <2>8
<1> DEFINE D == {k \in 0..n : Good(k)}
<1>3. 0 \in D /\ \A k \in 0..(n - 1) : k \in D => k + 1 \in D
  <2> HIDE DEF Good
  <2> QED BY <1>1, <1>2
<1> HIDE DEF D
<1>4. n \in D
  BY <1>3, UpTo
<1> QED BY <1>4 DEF D

\* The first n steps are the same.
SameSteps(F, G, n) == \A k \in 1..n : F[k] = G[k]

\* Two of them agree where both are defined, if their steps do.
LEMMA TakingsAgree ==
  ASSUME NEW F, NEW G, NEW base, NEW n \in Nat, NEW m \in Nat, n =< m,
         SameSteps(F, G, n), NEW g, Takings(F, base, n, g), NEW h, Takings(G, base, m, h)
  PROVE  \A s \in SUBSET (1..n) : g[s] = h[s]
<1> DEFINE D == {s \in SUBSET (1..n) : g[s] = h[s]}
<1>1. IsFiniteSet(1..n)
  BY FS_Interval
<1>2. ASSUME NEW s \in SUBSET (1..n), \A u \in SUBSET s : u # s => u \in D
      PROVE  s \in D
  <2>0. s \in SUBSET (1..m)
    OBVIOUS
  <2>1. CASE s = {}
    BY <2>0, <2>1 DEF Takings
  <2>2. CASE s # {}
    <3>1. Max(s) \in s
      BY <2>2, GreatestNumber
    <3>2. g[s \ {Max(s)}] = h[s \ {Max(s)}]
      BY <1>2, <3>1
    <3>3. g[s] = F[Max(s)][g[s \ {Max(s)}]]
      BY <2>2 DEF Takings
    <3>4. h[s] = G[Max(s)][h[s \ {Max(s)}]]
      BY <2>0, <2>2 DEF Takings
    <3>5. F[Max(s)] = G[Max(s)]
      BY <3>1 DEF SameSteps
    <3> QED BY <3>2, <3>3, <3>4, <3>5
  <2> QED BY <2>1, <2>2
<1> HIDE DEF D
<1>3. \A s \in SUBSET (1..n) : s \in D
  BY <1>1, <1>2, SubsetInduction
<1> QED BY <1>3 DEF D

\* Nothing comes of base without a step, and one step more is taken on what came of it
\* before.
LEMMA NoOutcome ==
  ASSUME NEW F, NEW base
  PROVE  OutcomeAfter(F, base, 0) = base
<1>1. 1..0 = {}
  OBVIOUS
<1>2. PICK g : g = [s \in SUBSET (1..0) |-> base]
  OBVIOUS
<1>3. \A s \in SUBSET (1..0) : s = {}
  BY <1>1
<1>4. g = [s \in SUBSET (1..0) |-> IF s = {} THEN base ELSE F[Max(s)][g[s \ {Max(s)}]]]
  BY <1>2, <1>3
<1>5. PICK h : h = CHOOSE x : Takings(F, base, 0, x)
  OBVIOUS
<1>6. Takings(F, base, 0, h)
  BY <1>4, <1>5 DEF Takings
<1>7. h[1..0] = base
  BY <1>1, <1>6 DEF Takings
<1> QED BY <1>5, <1>7 DEF OutcomeAfter

LEMMA NextOutcome ==
  ASSUME NEW A, NEW base \in A, NEW n \in Nat, NEW F, StepsIn(F, n, A),
         NEW m, m = n + 1, NEW G, StepsIn(G, m, A), SameSteps(F, G, n)
  PROVE  /\ OutcomeAfter(F, base, n) \in A
         /\ OutcomeAfter(G, base, m) = G[m][OutcomeAfter(F, base, n)]
<1>1. m \in Nat /\ n =< m
  OBVIOUS
<1>2. PICK g : g = CHOOSE x : Takings(F, base, n, x)
  OBVIOUS
<1>3. PICK h : h = CHOOSE x : Takings(G, base, m, x)
  OBVIOUS
<1>4. PICK f : f \in [SUBSET (1..n) -> A] /\ Takings(F, base, n, f)
  BY TakingsExist
<1>5. Takings(F, base, n, g)
  BY <1>2, <1>4
<1>6. Takings(G, base, m, h)
  <2>1. \E x \in [SUBSET (1..m) -> A] : Takings(G, base, m, x)
    BY <1>1, TakingsExist
  <2> QED BY <1>3, <2>1
<1>7. \A s \in SUBSET (1..n) : g[s] = h[s]
  BY <1>1, <1>5, <1>6, TakingsAgree
<1>8. \A s \in SUBSET (1..n) : f[s] = h[s]
  <2>1. Takings(F, base, n, f)
    BY <1>4
  <2> QED BY <1>1, <1>6, <2>1, TakingsAgree
<1>9. 1..m \in SUBSET (1..(n + 1)) /\ 1..m # {} /\ m \in 1..m /\ (1..m) \ {m} = 1..n
  OBVIOUS
<1>10. Max(1..m) = m
  BY <1>9, MaxUpTo
<1>11. h[1..m] = G[m][h[1..n]]
  <2>1. 1..m \in SUBSET (1..m)
    OBVIOUS
  <2>2. h[1..m] = G[Max(1..m)][h[(1..m) \ {Max(1..m)}]]
    BY <1>6, <1>9, <2>1 DEF Takings
  <2> QED BY <1>9, <1>10, <2>2
<1>12. 1..n \in SUBSET (1..n)
  OBVIOUS
<1>13. g[1..n] = h[1..n] /\ f[1..n] = h[1..n] /\ f[1..n] \in A
  BY <1>4, <1>7, <1>8, <1>12
<1> QED BY <1>2, <1>3, <1>11, <1>13 DEF OutcomeAfter

\* Any such function gives the outcome.
LEMMA OutcomeOf ==
  ASSUME NEW F, NEW base, NEW n \in Nat, NEW g, Takings(F, base, n, g)
  PROVE  OutcomeAfter(F, base, n) = g[1..n]
<1>1. PICK h : h = CHOOSE x : Takings(F, base, n, x)
  OBVIOUS
<1>2. Takings(F, base, n, h)
  BY <1>1
<1>3. PICK p, G : p = n /\ G = F
  OBVIOUS
<1>4. p \in Nat /\ n =< p /\ SameSteps(F, G, n) /\ Takings(G, base, p, h)
  BY <1>2, <1>3 DEF SameSteps
<1>5. \A s \in SUBSET (1..n) : g[s] = h[s]
  BY <1>4, TakingsAgree
<1>6. 1..n \in SUBSET (1..n)
  OBVIOUS
<1> QED BY <1>1, <1>5, <1>6 DEF OutcomeAfter

\* Of the first n steps, each is taken on the outcome of those before it.
LEMMA EveryOutcome ==
  ASSUME NEW A, NEW base \in A, NEW n \in Nat, NEW F, StepsIn(F, n, A)
  PROVE  \A k \in 0..n : /\ OutcomeAfter(F, base, k) \in A
                         /\ k # n => OutcomeAfter(F, base, k + 1) = F[k + 1][OutcomeAfter(F, base, k)]
<1>1. ASSUME NEW k \in 0..n, k # n
      PROVE  /\ OutcomeAfter(F, base, k) \in A
             /\ OutcomeAfter(F, base, k + 1) = F[k + 1][OutcomeAfter(F, base, k)]
  <2>1. PICK m, G : m = k + 1 /\ G = F
    OBVIOUS
  <2>2. k \in Nat /\ StepsIn(F, k, A) /\ StepsIn(G, m, A) /\ SameSteps(F, G, k)
    <3>1. \A i \in 1..k : i \in 1..n
      OBVIOUS
    <3>2. \A i \in 1..m : i \in 1..n
      BY <1>1, <2>1
    <3> QED BY <2>1, <3>1, <3>2 DEF StepsIn, SameSteps
  <2>3. OutcomeAfter(F, base, k) \in A /\ OutcomeAfter(G, base, m) = G[m][OutcomeAfter(F, base, k)]
    BY <2>1, <2>2, NextOutcome
  <2> QED BY <2>1, <2>3
<1>2. OutcomeAfter(F, base, n) \in A
  <2>1. CASE n = 0
    BY <2>1, NoOutcome
  <2>2. CASE n # 0
    <3>1. PICK k \in 0..n : n = k + 1 /\ k # n
      <4>1. n - 1 \in 0..n /\ n = (n - 1) + 1 /\ n - 1 # n
        BY <2>2
      <4> QED BY <4>1
    <3>2. OutcomeAfter(F, base, k) \in A /\ OutcomeAfter(F, base, k + 1) = F[k + 1][OutcomeAfter(F, base, k)]
      BY <1>1, <3>1
    <3>3. F[n] \in [A -> A]
      BY <2>2 DEF StepsIn
    <3> QED BY <3>1, <3>2, <3>3
  <2> QED BY <2>1, <2>2
<1> QED BY <1>1, <1>2

=============================================================================
