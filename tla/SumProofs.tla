------------------------------ MODULE SumProofs ------------------------------
(***************************************************************************)
(* Facts about sums over finite sets, about remainders and about           *)
(* induction, as far as it can be stated of sets: a non-empty set of       *)
(* naturals has a least member.                                            *)
(***************************************************************************)
EXTENDS Sums, FiniteSetTheorems, TLAPS

---------------------------------------------------------------------------
(* Induction                                                                *)

\* A non-empty set of naturals has a least member.
LEMMA LeastNatural ==
  ASSUME NEW T \in SUBSET Nat, T # {}
  PROVE  \E k \in T : \A j \in T : k <= j
<1> DEFINE Less == {p \in Nat \X Nat : p[1] < p[2]}
<1>1. IsWellFoundedOn(Less, Nat)
  BY NatLessThanWellFounded, Zenon DEF OpToRel
<1>2. \E k \in T : \A j \in T : ~(<<j, k>> \in Less)
  <2> HIDE DEF Less
  <2> QED
    BY <1>1, WFMin, Zenon
<1>3. PICK k \in T : \A j \in T : ~(<<j, k>> \in Less)
  BY <1>2
<1>4. ASSUME NEW j \in T PROVE k <= j
  <2>1. k \in Nat /\ j \in Nat /\ ~(<<j, k>> \in Less)
    BY <1>3
  <2>2. ~(j < k)
    BY <2>1
  <2> QED
    BY <2>1, <2>2
<1> QED
  BY <1>4

\* What holds of 0 and is passed on from n to n + 1 holds of every number up to m.
LEMMA UpTo ==
  ASSUME NEW m \in Nat, NEW A, 0 \in A, \A n \in 0..(m - 1) : n \in A => n + 1 \in A
  PROVE  0..m \subseteq A
<1> DEFINE Bad == {n \in 0..m : n \notin A}
<1> SUFFICES ASSUME Bad # {} PROVE FALSE
  OBVIOUS
<1>1. PICK k \in Bad : \A j \in Bad : k <= j
  <2>1. Bad \in SUBSET Nat
    OBVIOUS
  <2> HIDE DEF Bad
  <2> QED
    BY <2>1, LeastNatural
<1>2. k \in 1..m /\ k \notin A
  OBVIOUS
<1>3. k - 1 \in 0..(m - 1) /\ k - 1 + 1 = k /\ k - 1 \notin Bad
  BY <1>1, <1>2
<1> QED
  BY <1>2, <1>3

\* What holds of {} and is passed on when an element is added holds of a finite set.
LEMMA FiniteInduction ==
  ASSUME NEW S, IsFiniteSet(S), NEW F, {} \in F,
         \A T \in SUBSET S, x \in S : T \in F /\ x \notin T => T \cup {x} \in F
  PROVE  S \in F
<1> DEFINE A == {n \in Nat : \A T \in SUBSET S : Cardinality(T) = n => T \in F}
<1>1. \A T \in SUBSET S : IsFiniteSet(T) /\ Cardinality(T) \in Nat
  BY FS_Subset, FS_CardinalityType
<1>2. 0 \in A
  BY <1>1, FS_EmptySet
<1>3. ASSUME NEW n \in Nat, n \in A PROVE n + 1 \in A
  <2> SUFFICES ASSUME NEW T \in SUBSET S, Cardinality(T) = n + 1 PROVE T \in F
    OBVIOUS
  <2>1. T # {}
    BY <1>1, FS_EmptySet
  <2>2. PICK x : x \in T
    BY <2>1
  <2>3. Cardinality(T \ {x}) = n /\ T \ {x} \in SUBSET S
    <3>1. Cardinality(T \ {x}) = Cardinality(T) - 1
      BY <1>1, <2>2, FS_RemoveElement
    <3> QED
      BY <3>1
  <2>4. T \ {x} \in F
    BY <1>3, <2>3
  <2>5. (T \ {x}) \cup {x} \in F
    BY <2>2, <2>3, <2>4
  <2>6. (T \ {x}) \cup {x} = T
    BY <2>2
  <2> QED
    BY <2>5, <2>6
<1>4. Cardinality(S) \in Nat
  BY <1>1
<1>5. 0..Cardinality(S) \subseteq A
  <2> HIDE DEF A
  <2> QED
    BY <1>2, <1>3, <1>4, UpTo
<1> QED
  BY <1>4, <1>5

\* n rounds over states in S, from s.
Loop(f, n, S, s, step) ==
  /\ f \in [0..n -> S]
  /\ f[0] = s
  /\ \A i \in 1..n : f[i] = step[i][f[i - 1]]

LEMMA Iterated ==
  ASSUME NEW n \in Nat, NEW S, NEW s \in S, NEW step \in [1..n -> [S -> S]]
  PROVE  \E f : Loop(f, n, S, s, step)
<1> DEFINE Right(f, i) == f[i] = IF i = 0 THEN s ELSE step[i][f[i - 1]]
           A == {m \in 0..n : \E f \in [0..n -> S] : \A i \in 0..m : Right(f, i)}
<1>1. 0 \in A
  <2> DEFINE f == [i \in 0..n |-> s]
  <2>1. f \in [0..n -> S] /\ \A i \in 0..0 : Right(f, i)
    OBVIOUS
  <2> HIDE DEF Right, f
  <2> QED
    BY <2>1
<1>2. ASSUME NEW m \in 0..(n - 1), m \in A PROVE m + 1 \in A
  <2>1. PICK f \in [0..n -> S] : \A i \in 0..m : Right(f, i)
    BY <1>2
  <2> DEFINE g == [f EXCEPT ![m + 1] = step[m + 1][f[m]]]
  <2>2. m + 1 \in 1..n /\ m \in 0..n /\ f[m] \in S
    OBVIOUS
  <2>3. step[m + 1][f[m]] \in S
    BY <2>2
  <2>4. g \in [0..n -> S]
    BY <2>2, <2>3
  <2>5. ASSUME NEW i \in 0..(m + 1) PROVE Right(g, i)
    <3>1. CASE i = m + 1
      <4>1. g[i] = step[m + 1][f[m]] /\ i - 1 = m /\ g[m] = f[m] /\ i # 0
        BY <2>2, <3>1
      <4> QED
        BY <3>1, <4>1
    <3>2. CASE i \in 0..m
      <4>1. Right(f, i)
        BY <2>1, <3>2
      <4>2. g[i] = f[i] /\ (i # 0 => g[i - 1] = f[i - 1])
        BY <3>2
      <4> HIDE DEF g
      <4> QED
        BY <4>1, <4>2
    <3> QED
      BY <3>1, <3>2
  <2> HIDE DEF Right, g
  <2> QED
    BY <2>4, <2>5
<1>3. 0..n \subseteq A
  <2> HIDE DEF A
  <2> QED
    BY <1>1, <1>2, UpTo
<1>4. PICK f \in [0..n -> S] : \A i \in 0..n : Right(f, i)
  BY <1>3
<1>5. Loop(f, n, S, s, step)
  BY <1>4 DEF Loop
<1> QED
  BY <1>5

---------------------------------------------------------------------------
(* The sum is what its recursion says                                       *)

Some(s) == CHOOSE x \in s : TRUE

Summing(g, f, S) ==
  g = [s \in SUBSET S |-> IF s = {} THEN 0 ELSE f[Some(s)] + g[s \ {Some(s)}]]

LEMMA SomeIn == ASSUME NEW s, s # {} PROVE Some(s) \in s
BY DEF Some

\* The recursion is over smaller and smaller sets.
LEMMA SomeSmaller ==
  ASSUME NEW S, IsFiniteSet(S), NEW s \in SUBSET S, s # {}
  PROVE  /\ Some(s) \in s /\ s \ {Some(s)} \in SUBSET S
         /\ Cardinality(s) \in Nat \ {0} /\ Cardinality(s \ {Some(s)}) = Cardinality(s) - 1
         /\ IsFiniteSet(s) /\ IsFiniteSet(s \ {Some(s)})
<1>1. Some(s) \in s
  BY DEF Some
<1>2. IsFiniteSet(s)
  BY FS_Subset
<1>3. Cardinality(s) \in Nat /\ Cardinality(s) # 0
  BY <1>2, FS_CardinalityType, FS_EmptySet
<1>4. Cardinality(s \ {Some(s)}) = Cardinality(s) - 1 /\ IsFiniteSet(s \ {Some(s)})
  BY <1>1, <1>2, FS_RemoveElement
<1> QED
  BY <1>1, <1>2, <1>3, <1>4

\* There is a function that sums all subsets of a finite set.
LEMMA SummingExists ==
  ASSUME NEW f, NEW S, IsFiniteSet(S)
  PROVE  \E g : Summing(g, f, S)
<1> DEFINE Good(g, s) == g[s] = IF s = {} THEN 0 ELSE f[Some(s)] + g[s \ {Some(s)}]
           A == {n \in Nat : \E g : \A s \in SUBSET S : Cardinality(s) <= n => Good(g, s)}
<1>0. \A s \in SUBSET S : Cardinality(s) \in Nat /\ (Cardinality(s) = 0 <=> s = {})
  BY FS_Subset, FS_CardinalityType, FS_EmptySet
<1>1. 0 \in A
  <2> DEFINE g == [s \in SUBSET S |-> 0]
  <2>1. \A s \in SUBSET S : Cardinality(s) <= 0 => Good(g, s)
    BY <1>0
  <2> HIDE DEF Good, g
  <2> QED
    BY <2>1
<1>2. ASSUME NEW n \in Nat, n \in A PROVE n + 1 \in A
  <2>1. PICK g : \A s \in SUBSET S : Cardinality(s) <= n => Good(g, s)
    BY <1>2
  <2> DEFINE h == [s \in SUBSET S |-> IF Cardinality(s) <= n THEN g[s]
                                      ELSE f[Some(s)] + g[s \ {Some(s)}]]
  <2>2. ASSUME NEW s \in SUBSET S, Cardinality(s) <= n + 1 PROVE Good(h, s)
    <3>1. CASE s = {}
      BY <1>0, <2>1, <3>1
    <3>2. CASE s # {}
      <4>1. s \ {Some(s)} \in SUBSET S /\ Cardinality(s \ {Some(s)}) <= n
        <5>1. /\ s \ {Some(s)} \in SUBSET S /\ Cardinality(s) \in Nat
              /\ Cardinality(s \ {Some(s)}) = Cardinality(s) - 1
          BY <3>2, SomeSmaller
        <5> QED
          BY <2>2, <5>1
      <4>2. h[s \ {Some(s)}] = g[s \ {Some(s)}]
        BY <4>1
      <4>3. h[s] = f[Some(s)] + g[s \ {Some(s)}]
        BY <2>1, <3>2
      <4> QED
        BY <3>2, <4>2, <4>3
    <3> QED
      BY <3>1, <3>2
  <2> HIDE DEF Good, h
  <2> QED
    BY <2>2
<1>3. Cardinality(S) \in Nat /\ \A s \in SUBSET S : Cardinality(s) <= Cardinality(S)
  BY FS_Subset, FS_CardinalityType
<1>4. Cardinality(S) \in A
  <2> HIDE DEF A
  <2>1. 0..Cardinality(S) \subseteq A
    BY <1>1, <1>2, <1>3, UpTo
  <2> QED
    BY <1>3, <2>1
<1>5. PICK g : \A s \in SUBSET S : Good(g, s)
  BY <1>3, <1>4
<1> DEFINE h == [s \in SUBSET S |-> g[s]]
<1>6. ASSUME NEW s \in SUBSET S PROVE Good(h, s)
  <2>1. s # {} => h[s \ {Some(s)}] = g[s \ {Some(s)}]
    BY SomeSmaller
  <2> QED
    BY <1>5, <2>1
<1>7. Summing(h, f, S)
  BY <1>6 DEF Summing
<1> QED
  BY <1>7

\* Two such functions agree where both are defined.
LEMMA SummingUnique ==
  ASSUME NEW f, NEW S, IsFiniteSet(S), NEW T, IsFiniteSet(T), NEW g, Summing(g, f, S),
         NEW h, Summing(h, f, T), NEW s \in SUBSET S, s \in SUBSET T
  PROVE  g[s] = h[s]
<1> DEFINE Differ(t) == t \in SUBSET S /\ t \in SUBSET T /\ g[t] # h[t]
           Bad == {Cardinality(t) : t \in {u \in SUBSET S : Differ(u)}}
<1> SUFFICES ASSUME g[s] # h[s] PROVE FALSE
  OBVIOUS
<1>1. \A t : Differ(t) => Cardinality(t) \in Bad /\ Cardinality(t) \in Nat
  BY FS_Subset, FS_CardinalityType
<1>2. Bad \in SUBSET Nat /\ Bad # {}
  <2>1. Differ(s)
    OBVIOUS
  <2>2. \A n \in Bad : n \in Nat
    BY <1>1
  <2> QED
    BY <1>1, <2>1, <2>2
<1>3. PICK t : Differ(t) /\ \A j \in Bad : Cardinality(t) <= j
  <2>1. PICK n \in Bad : \A j \in Bad : n <= j
    <3> HIDE DEF Bad
    <3> QED
      BY <1>2, LeastNatural
  <2> QED
    BY <2>1
<1>4. t # {}
  <2>1. g[{}] = 0 /\ h[{}] = 0
    BY DEF Summing
  <2> QED
    BY <1>3, <2>1
<1>5. PICK u : u = t \ {Some(t)}
  OBVIOUS
<1>6. u \in SUBSET S /\ u \in SUBSET T /\ ~(Cardinality(t) <= Cardinality(u))
  <2>1. /\ u \in SUBSET S /\ u \in SUBSET T
        /\ Cardinality(t) \in Nat /\ Cardinality(u) = Cardinality(t) - 1
    BY <1>3, <1>4, <1>5, SomeSmaller
  <2> QED
    BY <2>1
<1>7. g[u] = h[u]
  <2> HIDE DEF Bad
  <2> QED
    BY <1>1, <1>3, <1>6
<1>8. g[t] = f[Some(t)] + g[u] /\ h[t] = f[Some(t)] + h[u]
  <2>1. t \in SUBSET S /\ t \in SUBSET T
    BY <1>3
  <2> QED
    BY <1>4, <1>5, <2>1 DEF Summing
<1> QED
  BY <1>3, <1>7, <1>8

\* SumOf is the value of such a function.
LEMMA SumOfIs ==
  ASSUME NEW f, NEW S, IsFiniteSet(S)
  PROVE  \E g : Summing(g, f, S) /\ SumOf(f, S) = g[S]
<1> DEFINE g == CHOOSE h : Summing(h, f, S)
<1>1. Summing(g, f, S)
  BY SummingExists, Zenon
<1>2. SumOf(f, S) = g[S]
  BY DEF SumOf, MapThenSumSet, MapThenFoldSet, Summing, Some
<1> QED
  BY <1>1, <1>2

\* The two cases of the recursion.
LEMMA SumEmpty == ASSUME NEW f PROVE SumOf(f, {}) = 0
<1>1. PICK g : Summing(g, f, {}) /\ SumOf(f, {}) = g[{}]
  BY FS_EmptySet, SumOfIs
<1> QED
  BY <1>1 DEF Summing

LEMMA SumSome ==
  ASSUME NEW f, NEW S, IsFiniteSet(S), S # {}
  PROVE  SumOf(f, S) = f[Some(S)] + SumOf(f, S \ {Some(S)})
<1> DEFINE T == S \ {Some(S)}
<1>1. PICK g : Summing(g, f, S) /\ SumOf(f, S) = g[S]
  BY SumOfIs
<1>2. T \in SUBSET S /\ S \in SUBSET S /\ IsFiniteSet(T) /\ T \in SUBSET T
  BY SomeSmaller
<1>3. g[S] = f[Some(S)] + g[T]
  BY <1>1 DEF Summing
<1>4. SumOf(f, T) = g[T]
  <2> HIDE DEF T
  <2>1. PICK h : Summing(h, f, T) /\ SumOf(f, T) = h[T]
    BY <1>2, SumOfIs
  <2>2. h[T] = g[T]
    BY <1>1, <1>2, <2>1, SummingUnique
  <2> QED
    BY <2>1, <2>2
<1> QED
  BY <1>1, <1>3, <1>4

---------------------------------------------------------------------------
(* Sums of naturals                                                         *)

LEMMA SumNat ==
  ASSUME NEW S, IsFiniteSet(S), NEW f, \A x \in S : f[x] \in Nat
  PROVE  SumOf(f, S) \in Nat
<1> DEFINE A == {n \in Nat : \A T \in SUBSET S : Cardinality(T) = n => SumOf(f, T) \in Nat}
<1>0. \A T \in SUBSET S : IsFiniteSet(T) /\ Cardinality(T) \in Nat /\ (Cardinality(T) = 0 <=> T = {})
  BY FS_Subset, FS_CardinalityType, FS_EmptySet
<1>1. 0 \in A
  BY <1>0, SumEmpty
<1>2. ASSUME NEW n \in Nat, n \in A PROVE n + 1 \in A
  <2> SUFFICES ASSUME NEW T \in SUBSET S, Cardinality(T) = n + 1 PROVE SumOf(f, T) \in Nat
    OBVIOUS
  <2>1. T # {} /\ IsFiniteSet(T)
    BY <1>0
  <2>2. /\ Some(T) \in T /\ T \ {Some(T)} \in SUBSET S
        /\ Cardinality(T \ {Some(T)}) = Cardinality(T) - 1
    BY <2>1, SomeSmaller
  <2>3. SumOf(f, T \ {Some(T)}) \in Nat
    BY <1>2, <2>2
  <2> QED
    BY <2>1, <2>2, <2>3, SumSome
<1>3. 0..Cardinality(S) \subseteq A
  <2> HIDE DEF A
  <2> QED
    BY <1>0, <1>1, <1>2, UpTo
<1> QED
  BY <1>0, <1>3

\* Any element may be taken first.
LEMMA SumOne ==
  ASSUME NEW S, IsFiniteSet(S), NEW f, \A x \in S : f[x] \in Nat, NEW x \in S
  PROVE  SumOf(f, S) = f[x] + SumOf(f, S \ {x})
<1> DEFINE Right(T) == \A y \in T : SumOf(f, T) = f[y] + SumOf(f, T \ {y})
           A == {n \in Nat : \A T \in SUBSET S : Cardinality(T) = n => Right(T)}
<1>0. \A T \in SUBSET S : IsFiniteSet(T) /\ Cardinality(T) \in Nat /\ (Cardinality(T) = 0 <=> T = {})
  BY FS_Subset, FS_CardinalityType, FS_EmptySet
<1>1. 0 \in A
  BY <1>0
<1>2. ASSUME NEW n \in Nat, n \in A PROVE n + 1 \in A
  <2> SUFFICES ASSUME NEW T \in SUBSET S, Cardinality(T) = n + 1, NEW y \in T
               PROVE  SumOf(f, T) = f[y] + SumOf(f, T \ {y})
    OBVIOUS
  <2>0. \A U \in SUBSET S : SumOf(f, U) \in Nat
    BY <1>0, SumNat
  <2>1. T # {} /\ IsFiniteSet(T) /\ Some(T) \in T /\ Some(T) \in S /\ y \in S
    BY <1>0, SomeSmaller
  <2>2. PICK z : z = Some(T)
    OBVIOUS
  <2>3. SumOf(f, T) = f[z] + SumOf(f, T \ {z})
    BY <2>1, <2>2, SumSome
  <2>4. CASE y = z
    BY <2>3, <2>4
  <2>5. CASE y # z
    <3> DEFINE U == T \ {y}
               V == T \ {z}
               W == T \ {y, z}
    <3>1. /\ U \in SUBSET S /\ V \in SUBSET S /\ W \in SUBSET S
          /\ z \in U /\ y \in V /\ U \ {z} = W /\ V \ {y} = W
      BY <2>1, <2>2, <2>5
    <3>2. Cardinality(U) = n /\ Cardinality(V) = n
      <4>1. Cardinality(U) = Cardinality(T) - 1 /\ Cardinality(V) = Cardinality(T) - 1
        BY <2>1, <2>2, FS_RemoveElement
      <4> QED
        BY <4>1
    <3>3. Right(U) /\ Right(V)
      BY <1>2, <3>1, <3>2
    <3>4. SumOf(f, U) = f[z] + SumOf(f, W) /\ SumOf(f, V) = f[y] + SumOf(f, W)
      BY <3>1, <3>3
    <3> QED
      BY <2>0, <2>1, <2>2, <2>3, <3>1, <3>4
  <2> QED
    BY <2>4, <2>5
<1>3. 0..Cardinality(S) \subseteq A
  <2> HIDE DEF A
  <2> QED
    BY <1>0, <1>1, <1>2, UpTo
<1> QED
  BY <1>0, <1>3

LEMMA SumAdd ==
  ASSUME NEW S, IsFiniteSet(S), NEW f, NEW x, \A y \in S \cup {x} : f[y] \in Nat, x \notin S
  PROVE  SumOf(f, S \cup {x}) = f[x] + SumOf(f, S)
<1>1. IsFiniteSet(S \cup {x}) /\ (S \cup {x}) \ {x} = S
  BY FS_AddElement
<1> QED
  BY <1>1, SumOne

\* No summand but 0, no sum.
LEMMA SumZero ==
  ASSUME NEW S, IsFiniteSet(S), NEW f, \A x \in S : f[x] = 0
  PROVE  SumOf(f, S) = 0
<1> DEFINE F == {T \in SUBSET S : SumOf(f, T) = 0}
<1>1. {} \in F
  BY SumEmpty
<1>2. ASSUME NEW T \in SUBSET S, NEW x \in S, T \in F, x \notin T PROVE T \cup {x} \in F
  <2>1. IsFiniteSet(T) /\ \A y \in T \cup {x} : f[y] \in Nat
    BY FS_Subset
  <2>2. SumOf(f, T \cup {x}) = f[x] + SumOf(f, T)
    BY <1>2, <2>1, SumAdd
  <2> QED
    BY <1>2, <2>2
<1>3. S \in F
  <2> HIDE DEF F
  <2> QED
    BY <1>1, <1>2, FiniteInduction
<1> QED
  BY <1>3

\* Larger summands, larger sum; twice as large at most, twice the sum at most.
LEMMA SumMonotonic ==
  ASSUME NEW S, IsFiniteSet(S), NEW f, NEW g, \A x \in S : f[x] \in Nat /\ g[x] \in Nat
  PROVE  /\ (\A x \in S : f[x] <= g[x]) => SumOf(f, S) <= SumOf(g, S)
         /\ (\A x \in S : f[x] <= 2 * g[x]) => SumOf(f, S) <= 2 * SumOf(g, S)
         /\ (\A x \in S : f[x] = g[x]) => SumOf(f, S) = SumOf(g, S)
<1> DEFINE Right(T) ==
             /\ (\A x \in T : f[x] <= g[x]) => SumOf(f, T) <= SumOf(g, T)
             /\ (\A x \in T : f[x] <= 2 * g[x]) => SumOf(f, T) <= 2 * SumOf(g, T)
             /\ (\A x \in T : f[x] = g[x]) => SumOf(f, T) = SumOf(g, T)
           F == {T \in SUBSET S : Right(T)}
<1>1. {} \in F
  BY SumEmpty
<1>2. ASSUME NEW T \in SUBSET S, NEW x \in S, T \in F, x \notin T PROVE T \cup {x} \in F
  <2>1. IsFiniteSet(T) /\ \A y \in T \cup {x} : f[y] \in Nat /\ g[y] \in Nat
    BY FS_Subset
  <2>2. SumOf(f, T \cup {x}) = f[x] + SumOf(f, T) /\ SumOf(g, T \cup {x}) = g[x] + SumOf(g, T)
    BY <1>2, <2>1, SumAdd
  <2>3. SumOf(f, T) \in Nat /\ SumOf(g, T) \in Nat
    BY <2>1, SumNat
  <2> QED
    BY <1>2, <2>1, <2>2, <2>3
<1>3. S \in F
  <2> HIDE DEF F
  <2> QED
    BY <1>1, <1>2, FiniteInduction
<1> QED
  BY <1>3

\* More summands, larger sum.
LEMMA SumSubset ==
  ASSUME NEW S, IsFiniteSet(S), NEW f, \A x \in S : f[x] \in Nat, NEW T \in SUBSET S
  PROVE  SumOf(f, T) <= SumOf(f, S)
<1> DEFINE F == {U \in SUBSET S : SumOf(f, U \cap T) <= SumOf(f, U)}
<1>1. {} \in F
  BY SumEmpty
<1>2. ASSUME NEW U \in SUBSET S, NEW x \in S, U \in F, x \notin U PROVE U \cup {x} \in F
  <2> SUFFICES SumOf(f, (U \cup {x}) \cap T) <= SumOf(f, U \cup {x})
    OBVIOUS
  <2>1. IsFiniteSet(U) /\ IsFiniteSet(U \cap T) /\ U \cap T \in SUBSET S
    BY FS_Subset
  <2>2. SumOf(f, U \cup {x}) = f[x] + SumOf(f, U)
    BY <1>2, <2>1, SumAdd
  <2>3. SumOf(f, U \cap T) \in Nat /\ SumOf(f, U) \in Nat
    BY <2>1, SumNat
  <2>4. CASE x \in T
    <3>1. (U \cup {x}) \cap T = (U \cap T) \cup {x}
      BY <2>4
    <3>2. SumOf(f, (U \cap T) \cup {x}) = f[x] + SumOf(f, U \cap T)
      BY <1>2, <2>1, SumAdd
    <3>3. SumOf(f, (U \cup {x}) \cap T) = f[x] + SumOf(f, U \cap T) /\ f[x] \in Nat
      BY <3>1, <3>2
    <3>4. SumOf(f, U \cap T) <= SumOf(f, U)
      BY <1>2
    <3>5. SumOf(f, (U \cup {x}) \cap T) <= SumOf(f, U \cup {x})
      BY <2>2, <2>3, <3>3, <3>4
    <3> QED
      BY <3>5
  <2>5. CASE x \notin T
    <3>1. (U \cup {x}) \cap T = U \cap T
      BY <2>5
    <3>2. SumOf(f, U \cap T) <= SumOf(f, U) /\ f[x] \in Nat
      BY <1>2
    <3>3. SumOf(f, U \cap T) <= SumOf(f, U \cup {x})
      BY <2>2, <2>3, <3>2
    <3> QED
      BY <3>1, <3>3
  <2> QED
    BY <2>4, <2>5
<1>3. S \in F
  <2> HIDE DEF F
  <2> QED
    BY <1>1, <1>2, FiniteInduction
<1> QED
  BY <1>3

LEMMA SumElement ==
  ASSUME NEW S, IsFiniteSet(S), NEW f, \A x \in S : f[x] \in Nat, NEW x \in S
  PROVE  f[x] <= SumOf(f, S)
<1>1. IsFiniteSet(S \ {x})
  BY FS_RemoveElement
<1>2. SumOf(f, S \ {x}) \in Nat
  BY <1>1, SumNat
<1> QED
  BY <1>2, SumOne

\* One summand grows by c.
LEMMA SumUpdate ==
  ASSUME NEW S, IsFiniteSet(S), NEW f, \A x \in S : f[x] \in Nat, NEW x \in S, NEW c \in Nat,
         NEW g, g[x] = f[x] + c, \A y \in S \ {x} : g[y] = f[y]
  PROVE  SumOf(g, S) = SumOf(f, S) + c
<1> DEFINE T == S \ {x}
<1>1. IsFiniteSet(T) /\ \A y \in T : f[y] \in Nat /\ g[y] \in Nat
  BY FS_RemoveElement
<1>2. SumOf(g, T) = SumOf(f, T) /\ SumOf(f, T) \in Nat
  BY <1>1, SumMonotonic, SumNat
<1>3. SumOf(f, S) = f[x] + SumOf(f, T) /\ SumOf(g, S) = g[x] + SumOf(g, T)
  BY SumOne
<1> QED
  BY <1>2, <1>3

---------------------------------------------------------------------------
(* Arithmetic modulo m                                                      *)

\* Quotient and remainder.
LEMMA Remainder ==
  ASSUME NEW a \in Nat, NEW m \in Nat \ {0}
  PROVE  /\ a % m \in 0..(m - 1)
         /\ a < m => a % m = a
         /\ a \div m \in Nat
         /\ a = m * (a \div m) + (a % m)
         /\ a % m <= a
<1>1. a % m \in 0..(m - 1) /\ a \div m \in Nat /\ a = m * (a \div m) + (a % m)
  OBVIOUS
<1>2. a < m => a % m = a
  OBVIOUS
<1>3. a % m <= a
  <2>1. m * (a \div m) \in Nat
    BY <1>1
  <2> QED
    BY <1>1, <2>1
<1> QED
  BY <1>1, <1>2, <1>3

LEMMA RemainderOf ==
  ASSUME NEW m \in Nat \ {0}, NEW q \in Nat, NEW r \in 0..(m - 1)
  PROVE  (m * q + r) % m = r
OBVIOUS

\* What is added before or after the reduction modulo m.
LEMMA RemainderAdd ==
  ASSUME NEW a \in Nat, NEW c \in Nat, NEW m \in Nat \ {0}
  PROVE  ((a % m) + c) % m = (a + c) % m
<1> DEFINE b == (a % m) + c
           q == a \div m
           p == b \div m
<1>1. b \in Nat /\ q \in Nat /\ a = m * q + (a % m)
  BY Remainder
<1>2. b % m \in 0..(m - 1) /\ p \in Nat /\ b = m * p + (b % m)
  BY <1>1, Remainder
<1>3. a + c = m * q + b
  BY <1>1
<1> HIDE DEF b, q, p
<1>4. m * q + m * p = m * (q + p) /\ q + p \in Nat /\ m * q \in Nat /\ m * p \in Nat
  BY <1>1, <1>2
<1>5. a + c = m * (q + p) + (b % m)
  BY <1>1, <1>2, <1>3, <1>4
<1>6. (a + c) % m = b % m
  BY <1>2, <1>4, <1>5, RemainderOf
<1> QED
  BY <1>6 DEF b
=============================================================================
