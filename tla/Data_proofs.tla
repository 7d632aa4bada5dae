----------------------------- MODULE Data_proofs ----------------------------
(***************************************************************************)
(* What the operators of Sums and Decimals compute: sums of any function   *)
(* over any finite set, digits of any number.  Each induction is on the    *)
(* smallest set, or number, that would refute it.                          *)
(***************************************************************************)
EXTENDS Sums, Decimals, FiniteSetTheorems, TLAPS

\* Among some finite sets there is one that has no other of them in it.
LEMMA SmallestSet ==
  ASSUME NEW S, IsFiniteSet(S), NEW B \in SUBSET SUBSET S, B # {}
  PROVE  \E T \in B : \A U \in B : U \subseteq T => U = T
<1>1. IsWellFoundedOn(StrictSubsetOrdering(S), SUBSET S)
  BY FS_StrictSubsetOrderingWellFounded, FS_FiniteSubsetsOfFinite
<1>2. PICK T \in B : \A U \in B : ~ (<<U, T>> \in StrictSubsetOrdering(S))
  BY <1>1, WFMin
<1>3. ASSUME NEW U \in B, U \subseteq T PROVE U = T
  BY <1>2, <1>3 DEF StrictSubsetOrdering
<1> QED
  BY <1>3

\* Among some natural numbers there is a smallest one.
LEMMA SmallestNumber ==
  ASSUME NEW B \in SUBSET Nat, B # {}
  PROVE  \E n \in B : \A k \in B : n <= k
<1> DEFINE Less == {p \in Nat \X Nat : p[1] < p[2]}
<1>1. ASSUME NEW k \in Nat, NEW n \in Nat, k < n PROVE <<k, n>> \in Less
  BY <1>1
<1>2. OpToRel(<, Nat) = Less
  BY DEF OpToRel
<1>3. IsWellFoundedOn(Less, Nat)
  BY <1>2, NatLessThanWellFounded
<1> HIDE DEF Less
<1>4. PICK n \in B : \A k \in B : ~ (<<k, n>> \in Less)
  BY <1>3, WFMin
<1>5. ASSUME NEW k \in B PROVE n <= k
  <2>1. n \in Nat /\ k \in Nat
    OBVIOUS
  <2>2. ~ (k < n)
    BY <1>1, <1>4, <2>1
  <2> QED
    BY <2>1, <2>2
<1> QED
  BY <1>5

-----------------------------------------------------------------------------
(* The recursion behind SumOf has one solution.                            *)

First(S)       == CHOOSE x \in S : TRUE
Adds(f, g, s)  == IF s = {} THEN 0 ELSE f[First(s)] + g[s \ {First(s)}]
IsSum(f, g, S) == g = [s \in SUBSET S |-> Adds(f, g, s)]

LEMMA SumIsChosen ==
  ASSUME NEW f, NEW S
  PROVE  SumOf(f, S) = (CHOOSE g : IsSum(f, g, S))[S]
BY DEF SumOf, MapThenSumSet, MapThenFoldSet, IsSum, Adds, First

LEMMA FirstIn ==
  ASSUME NEW S, S # {}
  PROVE  First(S) \in S
BY DEF First

LEMMA OneSum ==
  ASSUME NEW f, NEW S, IsFiniteSet(S), NEW R \in SUBSET S,
         NEW g, IsSum(f, g, S), NEW h, IsSum(f, h, R)
  PROVE  \A s \in SUBSET R : g[s] = h[s]
<1> DEFINE B == {s \in SUBSET R : g[s] # h[s]}
<1> SUFFICES ASSUME B # {} PROVE FALSE
  OBVIOUS
<1>1. B \in SUBSET SUBSET S
  OBVIOUS
<1>2. PICK T \in B : \A U \in B : U \subseteq T => U = T
  <2> HIDE DEF B
  <2> QED
    BY <1>1, SmallestSet
<1>3. g[T] = Adds(f, g, T) /\ h[T] = Adds(f, h, T)
  BY <1>1, <1>2 DEF IsSum
<1>4. T # {}
  BY <1>2, <1>3 DEF Adds
<1>5. First(T) \in T
  BY <1>4, FirstIn
<1>6. g[T \ {First(T)}] = h[T \ {First(T)}]
  BY <1>2, <1>5
<1> QED
  BY <1>2, <1>3, <1>6 DEF Adds

LEMMA SumExists ==
  ASSUME NEW f, NEW S, IsFiniteSet(S)
  PROVE  \E g : IsSum(f, g, S)
<1> DEFINE B == {s \in SUBSET S : ~ \E g : IsSum(f, g, s)}
<1>1. CASE B = {}
  BY <1>1
<1>2. CASE B # {}
  <2>1. PICK T \in B : \A U \in B : U \subseteq T => U = T
    <3>1. B \in SUBSET SUBSET S
      OBVIOUS
    <3> HIDE DEF B
    <3> QED
      BY <1>2, <3>1, SmallestSet
  <2> DEFINE sol(s) == CHOOSE g : IsSum(f, g, s)
             x == First(T)
             h == [s \in SUBSET T |-> IF s = T THEN Adds(f, sol(T \ {x}), T) ELSE sol(s)[s]]
  <2>2. ASSUME NEW s \in SUBSET T, s # T PROVE IsSum(f, sol(s), s)
    BY <2>1, <2>2
  <2>3. ASSUME NEW s \in SUBSET T PROVE h[s] = Adds(f, h, s)
    <3>1. CASE s = {}
      <4>1. CASE T = {}
        BY <3>1, <4>1 DEF Adds
      <4>2. CASE T # {}
        <5>1. IsSum(f, sol(s), s)
          BY <2>2, <3>1, <4>2
        <5>2. sol(s)[s] = Adds(f, sol(s), s)
          BY <5>1 DEF IsSum
        <5> QED
          BY <3>1, <4>2, <5>2 DEF Adds
      <4> QED
        BY <4>1, <4>2
    <3>2. CASE s = T /\ T # {}
      <4>1. x \in T /\ T \ {x} # T
        BY <3>2, FirstIn
      <4>2. h[T] = f[x] + sol(T \ {x})[T \ {x}] /\ h[T \ {x}] = sol(T \ {x})[T \ {x}]
        BY <3>2, <4>1 DEF Adds
      <4> QED
        BY <3>2, <4>2 DEF Adds
    <3>3. CASE s # T /\ s # {}
      <4> DEFINE y == First(s)
                 r == s \ {y}
      <4>1. y \in s /\ r \in SUBSET s /\ r # s /\ r # T
        BY <3>3, FirstIn
      <4>2. IsSum(f, sol(s), s) /\ IsSum(f, sol(r), r) /\ IsFiniteSet(s)
        BY <2>2, <3>3, <4>1, FS_Subset
      <4>3. sol(s)[r] = sol(r)[r]
        <5> HIDE DEF sol, r
        <5> QED
          BY <4>1, <4>2, OneSum
      <4>4. sol(s)[s] = Adds(f, sol(s), s)
        BY <4>2 DEF IsSum
      <4>5. h[s] = f[y] + sol(r)[r]
        BY <3>3, <4>3, <4>4 DEF Adds
      <4>6. h[r] = sol(r)[r]
        BY <4>1
      <4> QED
        BY <3>3, <4>5, <4>6 DEF Adds
    <3> QED
      BY <3>1, <3>2, <3>3
  <2>4. IsSum(f, h, T)
    BY <2>3 DEF IsSum
  <2> QED
    BY <2>1, <2>4
<1> QED
  BY <1>1, <1>2

LEMMA SumUnfolds ==
  ASSUME NEW f, NEW S, IsFiniteSet(S)
  PROVE  SumOf(f, S) = IF S = {} THEN 0 ELSE f[First(S)] + SumOf(f, S \ {First(S)})
<1> DEFINE sol(s) == CHOOSE g : IsSum(f, g, s)
           x == First(S)
<1>1. IsSum(f, sol(S), S)
  BY SumExists
<1>2. SumOf(f, S) = Adds(f, sol(S), S)
  BY <1>1, SumIsChosen DEF IsSum
<1>3. CASE S = {}
  BY <1>2, <1>3 DEF Adds
<1>4. CASE S # {}
  <2> DEFINE R == S \ {x}
  <2>1. IsFiniteSet(R) /\ R \in SUBSET S
    BY FS_Subset
  <2>2. IsSum(f, sol(R), R) /\ SumOf(f, R) = sol(R)[R]
    BY <2>1, SumExists, SumIsChosen
  <2>3. sol(S)[R] = sol(R)[R]
    <3> HIDE DEF sol, R
    <3> QED
      BY <1>1, <2>1, <2>2, OneSum
  <2> QED
    BY <1>2, <1>4, <2>2, <2>3 DEF Adds
<1> QED
  BY <1>3, <1>4

-----------------------------------------------------------------------------
(* What the other proofs cite.                                             *)

LEMMA SumEmpty == ASSUME NEW f PROVE SumOf(f, {}) = 0
BY SumUnfolds, FS_EmptySet

\* A sum is an integer, and any one of its terms can be taken first.
LEMMA SumRemove ==
  ASSUME NEW f, NEW S, IsFiniteSet(S), \A s \in S : f[s] \in Int
  PROVE  /\ SumOf(f, S) \in Int
         /\ \A x \in S : SumOf(f, S) = f[x] + SumOf(f, S \ {x})
<1> DEFINE Fine(T) == /\ SumOf(f, T) \in Int
                      /\ \A x \in T : SumOf(f, T) = f[x] + SumOf(f, T \ {x})
           B == {T \in SUBSET S : ~ Fine(T)}
<1>1. CASE B = {}
  BY <1>1
<1>2. CASE B # {}
  <2>1. PICK T \in B : \A U \in B : U \subseteq T => U = T
    <3>1. B \in SUBSET SUBSET S
      OBVIOUS
    <3> HIDE DEF B
    <3> QED
      BY <1>2, <3>1, SmallestSet
  <2>2. T \in SUBSET S /\ IsFiniteSet(T) /\ ~ Fine(T)
    BY <2>1, FS_Subset
  <2>3. ASSUME NEW U \in SUBSET T, U # T PROVE Fine(U) /\ IsFiniteSet(U)
    BY <2>1, <2>2, <2>3, FS_Subset
  <2> HIDE DEF B
  <2>4. T # {}
    BY <2>2, SumEmpty
  <2> DEFINE y == First(T)
             R == T \ {y}
  <2>5. y \in T /\ R \in SUBSET T /\ R # T
    BY <2>4, FirstIn
  <2>6. SumOf(f, T) = f[y] + SumOf(f, R)
    BY <2>2, <2>4, SumUnfolds
  <2>7. Fine(R) /\ f[y] \in Int
    BY <2>2, <2>3, <2>5
  <2>8. ASSUME NEW x \in T PROVE SumOf(f, T) = f[x] + SumOf(f, T \ {x})
    <3>1. CASE x = y
      BY <2>6, <3>1
    <3>2. CASE x # y
      <4> DEFINE Q == T \ {x}
                 W == R \ {x}
      <4>1. x \in R /\ W = Q \ {y} /\ y \in Q /\ Q \in SUBSET T /\ Q # T /\ f[x] \in Int
            /\ W \in SUBSET T /\ W # T
        BY <2>2, <2>5, <3>2
      <4>2. Fine(Q) /\ Fine(W)
        BY <2>3, <4>1
      <4>3. SumOf(f, R) = f[x] + SumOf(f, W)
        BY <2>7, <4>1
      <4>4. SumOf(f, Q) = f[y] + SumOf(f, W)
        BY <4>1, <4>2
      <4>5. SumOf(f, W) \in Int
        BY <4>2
      <4> QED
        BY <2>6, <2>7, <4>1, <4>3, <4>4, <4>5
    <3> QED
      BY <3>1, <3>2
  <2>9. SumOf(f, T) \in Int
    BY <2>6, <2>7
  <2> QED
    BY <2>2, <2>8, <2>9
<1> QED
  BY <1>1, <1>2

\* Functions that agree on a set have the same sum over it.
LEMMA SumSame ==
  ASSUME NEW f, NEW g, NEW S, IsFiniteSet(S), \A s \in S : f[s] = g[s]
  PROVE  SumOf(f, S) = SumOf(g, S)
<1> DEFINE B == {T \in SUBSET S : SumOf(f, T) # SumOf(g, T)}
<1>1. CASE B = {}
  BY <1>1
<1>2. CASE B # {}
  <2>1. PICK T \in B : \A U \in B : U \subseteq T => U = T
    <3>1. B \in SUBSET SUBSET S
      OBVIOUS
    <3> HIDE DEF B
    <3> QED
      BY <1>2, <3>1, SmallestSet
  <2>2. T \in SUBSET S /\ IsFiniteSet(T) /\ SumOf(f, T) # SumOf(g, T)
    BY <2>1, FS_Subset
  <2>3. T # {}
    BY <2>2, SumEmpty
  <2>4. First(T) \in T
    BY <2>3, FirstIn
  <2>5. SumOf(f, T \ {First(T)}) = SumOf(g, T \ {First(T)})
    BY <2>1, <2>2, <2>4
  <2> QED
    BY <2>2, <2>3, <2>4, <2>5, SumUnfolds
<1> QED
  BY <1>1, <1>2

\* A sum of natural numbers is one.
LEMMA SumNat ==
  ASSUME NEW f, NEW S, IsFiniteSet(S), \A s \in S : f[s] \in Nat
  PROVE  SumOf(f, S) \in Nat
<1> DEFINE B == {T \in SUBSET S : SumOf(f, T) \notin Nat}
<1>1. CASE B = {}
  BY <1>1
<1>2. CASE B # {}
  <2>1. PICK T \in B : \A U \in B : U \subseteq T => U = T
    <3>1. B \in SUBSET SUBSET S
      OBVIOUS
    <3> HIDE DEF B
    <3> QED
      BY <1>2, <3>1, SmallestSet
  <2>2. T \in SUBSET S /\ IsFiniteSet(T) /\ SumOf(f, T) \notin Nat
    BY <2>1, FS_Subset
  <2>3. T # {}
    BY <2>2, SumEmpty
  <2>4. First(T) \in T
    BY <2>3, FirstIn
  <2>5. SumOf(f, T \ {First(T)}) \in Nat /\ f[First(T)] \in Nat
    BY <2>1, <2>2, <2>4
  <2> QED
    BY <2>2, <2>3, <2>5, SumUnfolds
<1> QED
  BY <1>1, <1>2

\* A sum of zeros is zero.
LEMMA SumZero ==
  ASSUME NEW f, NEW S, IsFiniteSet(S), \A s \in S : f[s] = 0
  PROVE  SumOf(f, S) = 0
<1> DEFINE B == {T \in SUBSET S : SumOf(f, T) # 0}
<1>1. CASE B = {}
  BY <1>1
<1>2. CASE B # {}
  <2>1. PICK T \in B : \A U \in B : U \subseteq T => U = T
    <3>1. B \in SUBSET SUBSET S
      OBVIOUS
    <3> HIDE DEF B
    <3> QED
      BY <1>2, <3>1, SmallestSet
  <2>2. T \in SUBSET S /\ IsFiniteSet(T) /\ SumOf(f, T) # 0
    BY <2>1, FS_Subset
  <2>3. T # {}
    BY <2>2, SumEmpty
  <2>4. First(T) \in T
    BY <2>3, FirstIn
  <2>5. SumOf(f, T \ {First(T)}) = 0 /\ f[First(T)] = 0
    BY <2>1, <2>2, <2>4
  <2> QED
    BY <2>2, <2>3, <2>5, SumUnfolds
<1> QED
  BY <1>1, <1>2

\* An element more adds its term.
LEMMA SumAdd ==
  ASSUME NEW f, NEW S, IsFiniteSet(S), NEW x, x \notin S,
         \A s \in S \cup {x} : f[s] \in Int
  PROVE  SumOf(f, S \cup {x}) = SumOf(f, S) + f[x]
<1>1. IsFiniteSet(S \cup {x}) /\ (S \cup {x}) \ {x} = S
  BY FS_AddElement
<1>2. SumOf(f, S \cup {x}) = f[x] + SumOf(f, S)
  BY <1>1, SumRemove
<1>3. SumOf(f, S) \in Int
  BY SumRemove
<1> QED
  BY <1>2, <1>3

\* The sum of one term.
LEMMA SumOne ==
  ASSUME NEW f, NEW x, f[x] \in Int
  PROVE  SumOf(f, {x}) = f[x]
<1>1. IsFiniteSet({x}) /\ {x} \ {x} = {}
  BY FS_Singleton
<1>2. SumOf(f, {x}) = f[x] + SumOf(f, {})
  BY <1>1, SumRemove
<1> QED
  BY <1>2, SumEmpty

\* A change of one term changes the sum by as much.
LEMMA SumChange ==
  ASSUME NEW f, NEW g, NEW S, IsFiniteSet(S), NEW x \in S,
         \A s \in S : f[s] \in Int /\ g[s] \in Int,
         \A s \in S \ {x} : f[s] = g[s]
  PROVE  SumOf(g, S) = SumOf(f, S) + g[x] - f[x]
<1>1. IsFiniteSet(S \ {x})
  BY FS_Subset
<1>2. SumOf(f, S \ {x}) = SumOf(g, S \ {x}) /\ SumOf(f, S \ {x}) \in Int
  BY <1>1, SumSame, SumRemove
<1>3. SumOf(f, S) = f[x] + SumOf(f, S \ {x}) /\ SumOf(g, S) = g[x] + SumOf(g, S \ {x})
  BY SumRemove
<1> QED
  BY <1>2, <1>3

\* Two sets without common elements sum up separately.
LEMMA SumDisjoint ==
  ASSUME NEW f, NEW S, IsFiniteSet(S), NEW R, IsFiniteSet(R), S \cap R = {},
         \A s \in S \cup R : f[s] \in Int
  PROVE  SumOf(f, S \cup R) = SumOf(f, S) + SumOf(f, R)
<1> DEFINE B == {T \in SUBSET R : SumOf(f, S \cup T) # SumOf(f, S) + SumOf(f, T)}
<1>1. CASE B = {}
  BY <1>1
<1>2. CASE B # {}
  <2>1. PICK T \in B : \A U \in B : U \subseteq T => U = T
    <3>1. B \in SUBSET SUBSET R
      OBVIOUS
    <3> HIDE DEF B
    <3> QED
      BY <1>2, <3>1, SmallestSet
  <2>2. T \in SUBSET R /\ IsFiniteSet(T) /\ SumOf(f, S \cup T) # SumOf(f, S) + SumOf(f, T)
    BY <2>1, FS_Subset
  <2>3. SumOf(f, S) \in Int
    BY SumRemove
  <2>4. T # {}
    <3> SUFFICES ASSUME T = {} PROVE FALSE
      OBVIOUS
    <3>1. S \cup T = S
      OBVIOUS
    <3> QED
      BY <2>2, <2>3, <3>1, SumEmpty
  <2> DEFINE x == First(T)
             U == T \ {x}
  <2>5. x \in T /\ x \notin S
    BY <2>2, <2>4, FirstIn
  <2>6. SumOf(f, S \cup U) = SumOf(f, S) + SumOf(f, U)
    BY <2>1, <2>2, <2>5
  <2>7. IsFiniteSet(S \cup T) /\ (S \cup T) \ {x} = S \cup U /\ x \in S \cup T
    BY <2>2, <2>5, FS_Union
  <2>8. SumOf(f, S \cup T) = f[x] + SumOf(f, S \cup U)
    <3>1. \A s \in S \cup T : f[s] \in Int
      BY <2>2
    <3>2. SumOf(f, S \cup T) = f[x] + SumOf(f, (S \cup T) \ {x})
      BY <2>7, <3>1, SumRemove
    <3> QED
      BY <2>7, <3>2
  <2>9. SumOf(f, T) = f[x] + SumOf(f, U)
    BY <2>2, <2>5, SumRemove
  <2>10. SumOf(f, U) \in Int /\ f[x] \in Int
    BY <2>2, <2>5, FS_Subset, SumRemove
  <2> QED
    BY <2>2, <2>3, <2>6, <2>8, <2>9, <2>10
<1> QED
  BY <1>1, <1>2

\* Natural numbers sum up to no more over a part of the set.
LEMMA SumSubset ==
  ASSUME NEW f, NEW S, IsFiniteSet(S), NEW T \in SUBSET S, \A s \in S : f[s] \in Nat
  PROVE  SumOf(f, T) <= SumOf(f, S)
<1> DEFINE R == S \ T
<1>1. IsFiniteSet(T) /\ IsFiniteSet(R) /\ T \cap R = {} /\ T \cup R = S
  BY FS_Subset
<1>2. SumOf(f, T) \in Nat /\ SumOf(f, R) \in Nat
  BY <1>1, SumNat
<1>3. SumOf(f, S) = SumOf(f, T) + SumOf(f, R)
  <2>1. \A s \in T \cup R : f[s] \in Int
    OBVIOUS
  <2>2. SumOf(f, T \cup R) = SumOf(f, T) + SumOf(f, R)
    BY <1>1, <2>1, SumDisjoint
  <2> QED
    BY <1>1, <2>2
<1> QED
  BY <1>2, <1>3

-----------------------------------------------------------------------------
(* Recursion.                                                              *)

Descends(down) ==
  down \in [Nat \ {0} -> Nat] /\ \A n \in Nat \ {0} : down[n] < n

Solves(f, base, down, op) ==
  \A n \in Nat : f[n] = IF n = 0 THEN base ELSE op[<<f[down[n]], n>>]

Operations(S) == [S \X Nat -> S]

\* A recursion on smaller numbers has a solution.
LEMMA Recursion ==
  ASSUME NEW S, NEW base \in S, NEW down, Descends(down), NEW op \in Operations(S)
  PROVE  \E f \in [Nat -> S] : Solves(f, base, down, op)
<1> USE DEF Descends, Operations
<1> DEFINE Val(g, n)  == IF n = 0 THEN base ELSE op[<<g[down[n]], n>>]
           Part(g, m) == g \in [0..m -> S] /\ \A n \in 0..m : g[n] = Val(g, n)
<1>1. ASSUME NEW k \in Nat, NEW m \in Nat, NEW g, NEW h, Part(g, k), Part(h, m),
             NEW i \in Nat, i <= k, i <= m
      PROVE  g[i] = h[i]
  <2> DEFINE B == {n \in Nat : n <= k /\ n <= m /\ g[n] # h[n]}
  <2>1. CASE B # {}
    <3>1. PICK n \in B : \A j \in B : n <= j
      <4>1. B \in SUBSET Nat
        OBVIOUS
      <4> HIDE DEF B
      <4> QED
        BY <2>1, <4>1, SmallestNumber
    <3>2. n \in 0..k /\ n \in 0..m /\ g[n] # h[n]
      OBVIOUS
    <3>3. n # 0
      BY <1>1, <3>2
    <3>4. down[n] \in Nat /\ down[n] < n
      BY <3>3
    <3>5. g[down[n]] = h[down[n]]
      <4>1. down[n] \notin B
        <5> HIDE DEF B
        <5>1. ~ (n <= down[n]) /\ n \in Nat
          BY <3>2, <3>4
        <5> QED
          BY <3>1, <5>1
      <4> QED
        BY <3>2, <3>4, <4>1
    <3> QED
      BY <1>1, <3>2, <3>3, <3>5
  <2> QED
    BY <1>1, <2>1
<1>2. ASSUME NEW m \in Nat PROVE \E g : Part(g, m)
  <2> DEFINE B == {n \in Nat : ~ \E g : Part(g, n)}
  <2>1. CASE B # {}
    <3>1. PICK n \in B : \A j \in B : n <= j
      <4>1. B \in SUBSET Nat
        OBVIOUS
      <4> HIDE DEF B
      <4> QED
        BY <2>1, <4>1, SmallestNumber
    <3>2. CASE n = 0
      <4> DEFINE g == [i \in 0..0 |-> base]
      <4>1. Part(g, 0)
        OBVIOUS
      <4> QED
        BY <3>2, <4>1
    <3>3. CASE n # 0
      <4>1. n \in Nat /\ n - 1 \in Nat /\ ~ (n <= n - 1)
        BY <3>3
      <4>2. PICK h : Part(h, n - 1)
        BY <3>1, <4>1
      <4> DEFINE g == [i \in 0..n |-> IF i = n THEN op[<<h[down[n]], n>>] ELSE h[i]]
      <4>3. ASSUME NEW i \in 0..n PROVE g[i] \in S /\ g[i] = Val(g, i)
        <5>1. i # 0 => down[i] \in 0..(n - 1) /\ down[i] # n /\ down[i] \in 0..n
          BY <4>1, <4>3
        <5>2. CASE i = n
          BY <3>3, <4>2, <5>1, <5>2
        <5>3. CASE i # n
          <6>1. i \in 0..(n - 1)
            BY <4>1, <5>3
          <6> QED
            BY <4>2, <5>1, <5>3, <6>1
        <5> QED
          BY <5>2, <5>3
      <4>4. Part(g, n)
        BY <4>3
      <4> QED
        BY <4>4
    <3> QED
      BY <3>2, <3>3
  <2> QED
    BY <2>1
<1> DEFINE sol(m) == CHOOSE g : Part(g, m)
           f == [n \in Nat |-> sol(n)[n]]
<1>3. ASSUME NEW n \in Nat PROVE Part(sol(n), n)
  <2> HIDE DEF Part
  <2> QED
    BY <1>2
<1>4. ASSUME NEW n \in Nat PROVE f[n] \in S /\ f[n] = Val(f, n)
  <2>1. sol(n) \in [0..n -> S] /\ sol(n)[n] = Val(sol(n), n)
    <3> HIDE DEF sol
    <3> QED
      BY <1>3
  <2>2. ASSUME n # 0 PROVE sol(n)[down[n]] = sol(down[n])[down[n]]
    <3>1. down[n] \in Nat /\ down[n] <= n /\ down[n] <= down[n]
      BY <2>2
    <3>2. Part(sol(n), n) /\ Part(sol(down[n]), down[n])
      <4> HIDE DEF Part, sol
      <4> QED
        BY <1>3, <3>1
    <3> HIDE DEF Part, sol
    <3> QED
      BY <1>1, <3>1, <3>2
  <2>3. f[n] = sol(n)[n] /\ (n # 0 => f[down[n]] = sol(down[n])[down[n]])
    <3> HIDE DEF sol
    <3> QED
      OBVIOUS
  <2> HIDE DEF sol, f
  <2>4. f[n] \in S
    BY <2>1, <2>3
  <2>5. CASE n = 0
    BY <2>1, <2>3, <2>4, <2>5
  <2>6. CASE n # 0
    <3>1. sol(n)[n] = op[<<sol(n)[down[n]], n>>]
      BY <2>1, <2>6
    <3>2. sol(n)[down[n]] = f[down[n]]
      BY <2>2, <2>3, <2>6
    <3>3. f[n] = op[<<f[down[n]], n>>]
      BY <2>3, <3>1, <3>2
    <3> QED
      BY <2>4, <2>6, <3>3
  <2> QED
    BY <2>5, <2>6
<1>5. f \in [Nat -> S]
  <2> HIDE DEF sol
  <2> QED
    BY <1>4
<1> HIDE DEF f
<1> QED
  BY <1>4, <1>5 DEF Solves

FoldSteps(S, m)      == [S \X (1..m) -> S]
Follows(g, base, op, m) == g = [k \in 0..m |-> IF k = 0 THEN base ELSE op[<<g[k - 1], k>>]]

\* A recursion along the positions of a sequence has a solution.
LEMMA Folding ==
  ASSUME NEW S, NEW base \in S, NEW m \in Nat, NEW op \in FoldSteps(S, m)
  PROVE  \E g : Follows(g, base, op, m)
<1> USE DEF FoldSteps
<1> DEFINE down == [n \in Nat \ {0} |-> n - 1]
           all == [p \in S \X Nat |-> IF p[2] \in 1..m THEN op[p] ELSE p[1]]
<1>1. Descends(down)
  BY DEF Descends
<1>2. all \in Operations(S)
  <2>1. ASSUME NEW p \in S \X Nat PROVE all[p] \in S
    <3>1. CASE p[2] \in 1..m
      <4>1. p \in S \X (1..m)
        BY <3>1
      <4> QED
        BY <3>1, <4>1
    <3>2. CASE p[2] \notin 1..m
      BY <3>2
    <3> QED
      BY <3>1, <3>2
  <2> QED
    BY <2>1 DEF Operations
<1>3. PICK f \in [Nat -> S] : Solves(f, base, down, all)
  <2> HIDE DEF down, all
  <2> QED
    BY <1>1, <1>2, Recursion, Zenon
<1> DEFINE g == [k \in 0..m |-> f[k]]
<1>4. ASSUME NEW k \in 0..m, k # 0 PROVE f[k] = op[<<f[k - 1], k>>]
  <2>1. k \in Nat /\ k \in 1..m /\ k - 1 \in Nat
    BY <1>4
  <2>2. f[k] = all[<<f[k - 1], k>>]
    <3>1. down[k] = k - 1
      BY <1>4, <2>1
    <3> HIDE DEF down, all
    <3> QED
      BY <1>3, <1>4, <2>1, <3>1 DEF Solves
  <2> QED
    BY <2>1, <2>2
<1>5. ASSUME NEW k \in 0..m PROVE g[k] = IF k = 0 THEN base ELSE op[<<g[k - 1], k>>]
  <2>1. k # 0 => k - 1 \in 0..m
    OBVIOUS
  <2>2. f[0] = base
    BY <1>3 DEF Solves
  <2> QED
    BY <1>4, <2>1, <2>2
<1>6. g = [k \in 0..m |-> g[k]]
  OBVIOUS
<1> HIDE DEF g
<1>7. Follows(g, base, op, m)
  BY <1>5, <1>6 DEF Follows
<1> QED
  BY <1>7

-----------------------------------------------------------------------------
(* Powers of two.                                                          *)

\* A set has as many subsets with a new element as without it.
LEMMA OneMoreElement ==
  ASSUME NEW S, IsFiniteSet(S), NEW x, x \notin S
  PROVE  Cardinality(SUBSET (S \cup {x})) = 2 * Cardinality(SUBSET S)
<1> DEFINE with == [T \in SUBSET S |-> T \cup {x}]
           W == {T \cup {x} : T \in SUBSET S}
<1>1. IsFiniteSet(SUBSET S) /\ Cardinality(SUBSET S) \in Nat
  <2>1. IsFiniteSet(SUBSET S)
    BY FS_SUBSET
  <2> QED
    BY <2>1, FS_CardinalityType
<1>2. with \in Bijection(SUBSET S, W)
  <2>1. with \in [SUBSET S -> W]
    OBVIOUS
  <2>2. \A T, U \in SUBSET S : with[T] = with[U] => T = U
    OBVIOUS
  <2>3. \A V \in W : \E T \in SUBSET S : with[T] = V
    OBVIOUS
  <2> HIDE DEF with, W
  <2> QED
    BY <2>1, <2>2, <2>3 DEF Bijection, Injection, Surjection, IsInjective
<1>3. IsFiniteSet(W) /\ Cardinality(W) = Cardinality(SUBSET S)
  <2>1. ExistsBijection(SUBSET S, W)
    <3> HIDE DEF with, W
    <3> QED
      BY <1>2 DEF ExistsBijection
  <2> HIDE DEF W
  <2> QED
    BY <1>1, <2>1, FS_Bijection
<1>4. SUBSET (S \cup {x}) = (SUBSET S) \cup W
  <2>1. ASSUME NEW V \in SUBSET (S \cup {x}) PROVE V \in (SUBSET S) \cup W
    <3>1. CASE x \in V
      <4>1. V \ {x} \in SUBSET S /\ V = (V \ {x}) \cup {x}
        BY <3>1
      <4> QED
        BY <4>1
    <3>2. CASE x \notin V
      BY <3>2
    <3> QED
      BY <3>1, <3>2
  <2>2. W \subseteq SUBSET (S \cup {x})
    OBVIOUS
  <2> QED
    BY <2>1, <2>2
<1>5. (SUBSET S) \cap W = {}
  OBVIOUS
<1> HIDE DEF W
<1>6. Cardinality((SUBSET S) \cup W)
        = Cardinality(SUBSET S) + Cardinality(W) - Cardinality((SUBSET S) \cap W)
  BY <1>1, <1>3, FS_Union
<1>7. Cardinality((SUBSET S) \cap W) = 0
  BY <1>5, FS_EmptySet
<1>8. Cardinality(SUBSET (S \cup {x})) = Cardinality(SUBSET S) + Cardinality(W) - 0
  BY <1>4, <1>6, <1>7, Zenon
<1>9. Cardinality(W) = Cardinality(SUBSET S)
  BY <1>3
<1> QED
  BY <1>1, <1>8, <1>9

\* Powers of two count subsets.
LEMMA PowerCounts ==
  ASSUME NEW n \in Nat
  PROVE  2^n = Cardinality(SUBSET (1..n)) /\ IsFiniteSet(1..n) /\ 2^n \in Nat
<1>1. 1 \in Int /\ n \in Int
  OBVIOUS
<1>2. IsFiniteSet(1..n) /\ Cardinality(1..n) = n
  BY <1>1, FS_Interval
<1>3. IsFiniteSet(SUBSET (1..n)) /\ Cardinality(SUBSET (1..n)) = 2^Cardinality(1..n)
  BY <1>2, FS_SUBSET
<1> QED
  BY <1>2, <1>3, FS_CardinalityType

LEMMA PowerOfNone == 2^0 = 1
<1>1. SUBSET (1..0) = {{}}
  OBVIOUS
<1>2. Cardinality({{}}) = 1
  BY FS_Singleton
<1>3. 2^0 = Cardinality(SUBSET (1..0))
  BY PowerCounts
<1> QED
  BY <1>1, <1>2, <1>3

LEMMA PowerDoubles ==
  ASSUME NEW n \in Nat
  PROVE  2^(n + 1) = 2 * 2^n
<1>1. 1..(n + 1) = (1..n) \cup {n + 1} /\ n + 1 \notin 1..n /\ n + 1 \in Nat
  OBVIOUS
<1>2. Cardinality(SUBSET ((1..n) \cup {n + 1})) = 2 * Cardinality(SUBSET (1..n))
  BY <1>1, PowerCounts, OneMoreElement
<1> QED
  BY <1>1, <1>2, PowerCounts

-----------------------------------------------------------------------------
(* Digits.                                                                 *)

LEMMA PoppedUnfolds ==
  Popped = [n \in Nat |-> IF n = 0 THEN <<>> ELSE <<n % 10>> \o Popped[n \div 10]]
<1> DEFINE S == Seq(0..9)
           down == [n \in Nat \ {0} |-> n \div 10]
           op == [p \in S \X Nat |-> <<p[2] % 10>> \o p[1]]
<1>1. Descends(down)
  BY DEF Descends
<1>2. op \in Operations(S)
  BY DEF Operations
<1>3. <<>> \in S
  OBVIOUS
<1>4. PICK f \in [Nat -> S] : Solves(f, <<>>, down, op)
  <2> HIDE DEF down, op, S
  <2> QED
    BY <1>1, <1>2, <1>3, Recursion, Zenon
<1>5. ASSUME NEW n \in Nat
      PROVE  f[n] = IF n = 0 THEN <<>> ELSE <<n % 10>> \o f[n \div 10]
  <2>1. n # 0 => down[n] = n \div 10 /\ n \div 10 \in Nat
    OBVIOUS
  <2>2. n # 0 => op[<<f[n \div 10], n>>] = <<n % 10>> \o f[n \div 10]
    BY <2>1
  <2> HIDE DEF down, op
  <2> QED
    BY <1>4, <2>1, <2>2 DEF Solves
<1>6. f = [n \in Nat |-> IF n = 0 THEN <<>> ELSE <<n % 10>> \o f[n \div 10]]
  <2>1. f = [n \in Nat |-> f[n]]
    OBVIOUS
  <2> QED
    BY <1>5, <2>1
<1> QED
  BY <1>6, Zenon DEF Popped

LEMMA PoppedNone == Popped[0] = <<>>
BY PoppedUnfolds

LEMMA PoppedOne ==
  ASSUME NEW n \in Nat, n # 0
  PROVE  Popped[n] = <<n % 10>> \o Popped[n \div 10]
BY PoppedUnfolds

LEMMA PoppedType == \A n \in Nat : Popped[n] \in Seq(0..9)
<1> DEFINE B == {n \in Nat : Popped[n] \notin Seq(0..9)}
<1>1. CASE B # {}
  <2>1. PICK n \in B : \A k \in B : n <= k
    <3>1. B \in SUBSET Nat
      OBVIOUS
    <3> HIDE DEF B
    <3> QED
      BY <1>1, <3>1, SmallestNumber
  <2>a. n \in Nat /\ Popped[n] \notin Seq(0..9)
    OBVIOUS
  <2>b. <<>> \in Seq(0..9)
    OBVIOUS
  <2>2. n # 0
    BY <2>a, <2>b, PoppedNone
  <2>3. n \div 10 \in Nat /\ ~ (n <= n \div 10) /\ n % 10 \in 0..9
    BY <2>a, <2>2
  <2>4. Popped[n \div 10] \in Seq(0..9)
    BY <2>1, <2>3
  <2>5. <<n % 10>> \o Popped[n \div 10] \in Seq(0..9)
    BY <2>3, <2>4
  <2> QED
    BY <2>a, <2>2, <2>5, PoppedOne
<1> QED
  BY <1>1

\* What NumberOf chooses.
IsNumber(s, g) == g = [k \in 0..Len(s) |-> IF k = 0 THEN 0 ELSE 10 * g[k - 1] + s[k]]

LEMMA NumberChosen ==
  ASSUME NEW s \in Seq(Nat)
  PROVE  \E g \in [0..Len(s) -> Nat] : IsNumber(s, g) /\ NumberOf(s) = g[Len(s)]
<1> DEFINE m == Len(s)
           op == [p \in Nat \X (1..m) |-> 10 * p[1] + s[p[2]]]
<1>1. m \in Nat /\ op \in FoldSteps(Nat, m)
  BY DEF FoldSteps
<1>2. PICK h : Follows(h, 0, op, m)
  <2>1. 0 \in Nat
    OBVIOUS
  <2> HIDE DEF m, op
  <2> QED
    BY <1>1, <2>1, Folding, Zenon
<1>3. \A k \in 0..m : h[k] \in Nat /\ (k # 0 => h[k] = 10 * h[k - 1] + s[k])
  <2> DEFINE B == {k \in 0..m : ~ (h[k] \in Nat /\ (k # 0 => h[k] = 10 * h[k - 1] + s[k]))}
  <2>1. CASE B # {}
    <3>1. PICK k \in B : \A j \in B : k <= j
      <4>1. B \in SUBSET Nat
        OBVIOUS
      <4> HIDE DEF B
      <4> QED
        BY <2>1, <4>1, SmallestNumber
    <3>2. k \in 0..m /\ k # 0
      BY <1>2 DEF Follows
    <3>3. k - 1 \in 0..m /\ k \in 1..m /\ ~ (k <= k - 1) /\ s[k] \in Nat
      BY <3>2
    <3>4. h[k - 1] \in Nat
      BY <3>1, <3>3
    <3>5. h[k] = op[<<h[k - 1], k>>]
      <4> HIDE DEF op, B
      <4> QED
        BY <1>2, <3>2 DEF Follows
    <3>6. h[k] = 10 * h[k - 1] + s[k]
      BY <3>3, <3>4, <3>5
    <3> QED
      BY <3>3, <3>4, <3>6
  <2> QED
    BY <2>1
<1>4. IsNumber(s, h)
  <2>1. h[0] = 0
    BY <1>2 DEF Follows
  <2>2. h = [k \in 0..m |-> h[k]]
    BY <1>2 DEF Follows
  <2>3. \A k \in 0..m : h[k] = IF k = 0 THEN 0 ELSE 10 * h[k - 1] + s[k]
    BY <1>3, <2>1
  <2> QED
    BY <2>2, <2>3 DEF IsNumber
<1> DEFINE n == CHOOSE g : IsNumber(s, g)
<1>5. NumberOf(s) = n[Len(s)]
  BY DEF NumberOf, IsNumber
<1>6. IsNumber(s, n)
  BY <1>4
<1>7. \A k \in 0..m : n[k] = h[k]
  <2> DEFINE B == {k \in 0..m : n[k] # h[k]}
  <2>1. CASE B # {}
    <3>1. PICK k \in B : \A j \in B : k <= j
      <4>1. B \in SUBSET Nat
        OBVIOUS
      <4> HIDE DEF B
      <4> QED
        BY <2>1, <4>1, SmallestNumber
    <3> HIDE DEF n
    <3>2. k \in 0..m /\ k # 0
      BY <1>4, <1>6 DEF IsNumber
    <3>3. k - 1 \in 0..m /\ ~ (k <= k - 1)
      BY <3>2
    <3>4. n[k - 1] = h[k - 1]
      BY <3>1, <3>3
    <3> QED
      BY <1>4, <1>6, <3>2, <3>4 DEF IsNumber
  <2> QED
    BY <2>1
<1> HIDE DEF n
<1>8. h \in [0..Len(s) -> Nat]
  BY <1>2, <1>3 DEF Follows
<1>9. NumberOf(s) = h[Len(s)]
  BY <1>5, <1>7
<1> QED
  BY <1>4, <1>8, <1>9

\* Two sequences that begin alike have begun numbers alike.
LEMMA NumbersAgree ==
  ASSUME NEW s \in Seq(Nat), NEW t \in Seq(Nat), NEW g, NEW h, IsNumber(s, g), IsNumber(t, h),
         NEW m \in Nat, m <= Len(s), m <= Len(t), \A k \in 1..m : s[k] = t[k]
  PROVE  g[m] = h[m]
<1> DEFINE B == {k \in 0..m : g[k] # h[k]}
<1>1. CASE B # {}
  <2>1. PICK k \in B : \A j \in B : k <= j
    <3>1. B \in SUBSET Nat
      OBVIOUS
    <3> HIDE DEF B
    <3> QED
      BY <1>1, <3>1, SmallestNumber
  <2>2. k \in 0..Len(s) /\ k \in 0..Len(t) /\ k # 0 /\ k \in 1..m
    BY DEF IsNumber
  <2>3. k - 1 \in 0..m /\ ~ (k <= k - 1)
    BY <2>2
  <2>4. g[k - 1] = h[k - 1]
    BY <2>1, <2>3
  <2>5. g[k] = 10 * g[k - 1] + s[k] /\ h[k] = 10 * h[k - 1] + t[k]
    BY <2>2 DEF IsNumber
  <2> QED
    BY <2>2, <2>4, <2>5
<1> QED
  BY <1>1

LEMMA NumberStep ==
  ASSUME NEW s \in Seq(Nat), NEW g, IsNumber(s, g), NEW k \in 1..Len(s)
  PROVE  g[k] = 10 * g[k - 1] + s[k]
<1>1. k \in 0..Len(s) /\ k # 0
  OBVIOUS
<1> QED
  BY <1>1 DEF IsNumber

LEMMA NumberEmpty == NumberOf(<<>>) = 0
<1>1. <<>> \in Seq(Nat) /\ Len(<<>>) = 0
  OBVIOUS
<1>2. PICK g : IsNumber(<<>>, g) /\ NumberOf(<<>>) = g[0]
  BY <1>1, NumberChosen
<1> QED
  BY <1>1, <1>2 DEF IsNumber

LEMMA NumberType ==
  ASSUME NEW s \in Seq(Nat)
  PROVE  NumberOf(s) \in Nat
BY NumberChosen

\* One digit more behind a number.
LEMMA NumberAppend ==
  ASSUME NEW s \in Seq(Nat), NEW d \in Nat
  PROVE  NumberOf(Append(s, d)) = 10 * NumberOf(s) + d
<1> DEFINE t == Append(s, d)
<1>1. t \in Seq(Nat) /\ Len(t) = Len(s) + 1 /\ t[Len(t)] = d /\ Len(t) - 1 = Len(s) /\ Len(s) <= Len(s) /\ Len(s) <= Len(t)
      /\ Len(s) \in Nat /\ \A k \in 1..Len(s) : s[k] = t[k]
  OBVIOUS
<1> HIDE DEF t
<1>2. PICK g : IsNumber(s, g) /\ NumberOf(s) = g[Len(s)]
  BY NumberChosen
<1>3. PICK h : IsNumber(t, h) /\ NumberOf(t) = h[Len(t)]
  BY <1>1, NumberChosen
<1>4. g[Len(s)] = h[Len(s)]
  BY <1>1, <1>2, <1>3, NumbersAgree
<1>5. h[Len(t)] = 10 * h[Len(s)] + d
  BY <1>1, <1>3 DEF IsNumber
<1>6. NumberOf(t) = 10 * NumberOf(s) + d
  BY <1>2, <1>3, <1>4, <1>5
<1> QED
  BY <1>6 DEF t

\* A zero in front adds nothing.
LEMMA NumberZero ==
  ASSUME NEW s \in Seq(Nat)
  PROVE  NumberOf(<<0>> \o s) = NumberOf(s)
<1> DEFINE t == <<0>> \o s
<1>1. t \in Seq(Nat) /\ Len(t) = Len(s) + 1 /\ Len(s) \in Nat /\ t[1] = 0
      /\ \A k \in 1..Len(s) : t[k + 1] = s[k]
  OBVIOUS
<1> HIDE DEF t
<1>2. PICK g : IsNumber(s, g) /\ NumberOf(s) = g[Len(s)]
  BY NumberChosen
<1>3. PICK h : IsNumber(t, h) /\ NumberOf(t) = h[Len(t)]
  BY <1>1, NumberChosen
<1>a. ASSUME NEW k \in 1..Len(t) PROVE h[k] = 10 * h[k - 1] + t[k]
  BY <1>1, <1>3, NumberStep
<1>b. ASSUME NEW k \in 1..Len(s) PROVE g[k] = 10 * g[k - 1] + s[k]
  BY <1>1, <1>2, NumberStep
<1>c. h[0] = 0 /\ g[0] = 0
  BY <1>1, <1>2, <1>3 DEF IsNumber
<1>4. \A k \in 0..Len(s) : h[k + 1] = g[k]
  <2> DEFINE B == {k \in 0..Len(s) : h[k + 1] # g[k]}
  <2>1. CASE B # {}
    <3>1. PICK k \in B : \A j \in B : k <= j
      <4>1. B \in SUBSET Nat
        BY <1>1
      <4> HIDE DEF B
      <4> QED
        BY <2>1, <4>1, SmallestNumber
    <3>2. k \in 0..Len(s) /\ h[k + 1] # g[k]
      OBVIOUS
    <3>3. k # 0
      <4>1. h[1] = 10 * h[1 - 1] + t[1]
        BY <1>1, <1>a
      <4>2. h[1] = 0
        BY <1>1, <1>c, <4>1
      <4> QED
        BY <1>c, <3>2, <4>2
    <3>0. k \in Nat /\ Len(s) \in Nat /\ Len(t) = Len(s) + 1 /\ k <= Len(s) /\ k # 0
      BY <1>1, <3>2, <3>3
    <3>4. k - 1 \in 0..Len(s) /\ ~ (k <= k - 1) /\ k \in 1..Len(s) /\ k + 1 \in 1..Len(t)
          /\ (k + 1) - 1 = k /\ (k - 1) + 1 = k
      <4> HIDE DEF B
      <4> QED
        BY <3>0
    <3>5. h[k] = g[k - 1]
      BY <3>1, <3>4
    <3>6. h[k + 1] = 10 * h[k] + t[k + 1] /\ g[k] = 10 * g[k - 1] + s[k]
      BY <1>a, <1>b, <3>4
    <3> QED
      BY <1>1, <3>2, <3>4, <3>5, <3>6
  <2> QED
    BY <2>1
<1>5. h[Len(t)] = g[Len(s)]
  BY <1>1, <1>4
<1> QED
  BY <1>2, <1>3, <1>5 DEF t

-----------------------------------------------------------------------------
(* A number, its digits and their reverse.                                 *)

Turned(s) == [i \in 1..Len(s) |-> s[Len(s) + 1 - i]]

LEMMA TurnedEmpty == Turned(<<>>) = <<>>
BY DEF Turned

LEMMA TurnedType ==
  ASSUME NEW S, NEW s \in Seq(S)
  PROVE  Turned(s) \in Seq(S) /\ Len(Turned(s)) = Len(s)
BY DEF Turned

LEMMA TurnedAppend ==
  ASSUME NEW s \in Seq(Nat), NEW d \in Nat
  PROVE  Turned(Append(s, d)) = <<d>> \o Turned(s)
BY DEF Turned

LEMMA TurnedPut ==
  ASSUME NEW s \in Seq(Nat), NEW d \in Nat
  PROVE  Turned(<<d>> \o s) = Append(Turned(s), d)
BY DEF Turned

\* The digits taken off a number, last first, are those of the number.
LEMMA DigitsMakeNumber ==
  \A n \in Nat : NumberOf(Turned(Popped[n])) = n
<1> DEFINE B == {n \in Nat : NumberOf(Turned(Popped[n])) # n}
<1>1. CASE B # {}
  <2>1. PICK n \in B : \A k \in B : n <= k
    <3>1. B \in SUBSET Nat
      OBVIOUS
    <3> HIDE DEF B
    <3> QED
      BY <1>1, <3>1, SmallestNumber
  <2>a. n \in Nat /\ NumberOf(Turned(Popped[n])) # n
    OBVIOUS
  <2>2. n # 0
    BY <2>a, PoppedNone, TurnedEmpty, NumberEmpty
  <2>3. n \div 10 \in Nat /\ ~ (n <= n \div 10) /\ n % 10 \in 0..9
        /\ 10 * (n \div 10) + (n % 10) = n
    BY <2>a, <2>2
  <2> DEFINE p == Popped[n \div 10]
  <2>4. NumberOf(Turned(p)) = n \div 10
    BY <2>1, <2>3
  <2>5. p \in Seq(Nat) /\ n % 10 \in Nat
    <3>1. p \in Seq(0..9)
      BY <2>3, PoppedType
    <3> HIDE DEF p
    <3> QED
      BY <2>3, <3>1
  <2>6. Popped[n] = <<n % 10>> \o p
    BY <2>a, <2>2, PoppedOne
  <2> HIDE DEF p
  <2>7. Turned(p) \in Seq(Nat)
    BY <2>5, TurnedType
  <2>8. NumberOf(Turned(Popped[n])) = NumberOf(Append(Turned(p), n % 10))
    BY <2>5, <2>6, TurnedPut
  <2>9. NumberOf(Turned(Popped[n])) = 10 * NumberOf(Turned(p)) + (n % 10)
    BY <2>5, <2>7, <2>8, NumberAppend
  <2> QED
    BY <2>a, <2>3, <2>4, <2>9
<1> QED
  BY <1>1

LEMMA LastDigit ==
  ASSUME NEW m \in Nat, NEW d \in 0..9
  PROVE  10 * m + d \in Nat /\ (10 * m + d) \div 10 = m /\ (10 * m + d) % 10 = d
OBVIOUS

\* Digits that do not begin with a zero come off their number again.
LEMMA NumberHasDigits ==
  ASSUME NEW s \in Seq(0..9), s # <<>> => s[1] # 0
  PROVE  Popped[NumberOf(s)] = Turned(s) /\ (s # <<>> => NumberOf(s) # 0)
<1> DEFINE Starts(t) == t \in Seq(0..9) /\ (t # <<>> => t[1] # 0)
           Comes(t)  == Popped[NumberOf(t)] = Turned(t) /\ (t # <<>> => NumberOf(t) # 0)
           B == {k \in Nat : \E t \in Seq(0..9) : Len(t) = k /\ Starts(t) /\ ~ Comes(t)}
<1>1. CASE B # {}
  <2>1. PICK k \in B : \A j \in B : k <= j
    <3>1. B \in SUBSET Nat
      OBVIOUS
    <3> HIDE DEF B
    <3> QED
      BY <1>1, <3>1, SmallestNumber
  <2>2. PICK t \in Seq(0..9) : Len(t) = k /\ Starts(t) /\ ~ Comes(t)
    OBVIOUS
  <2>3. t # <<>>
    BY <2>2, NumberEmpty, PoppedNone, TurnedEmpty
  <2> DEFINE r == SubSeq(t, 1, k - 1)
             d == t[k]
  <2>4. k \in Nat /\ k # 0 /\ k - 1 \in Nat /\ ~ (k <= k - 1) /\ d \in 0..9 /\ t[1] # 0
    BY <2>2, <2>3
  <2>5. r \in Seq(0..9) /\ Len(r) = k - 1 /\ (r # <<>> => r[1] = t[1]) /\ t = Append(r, d)
        /\ (r = <<>> => d = t[1])
    <3> HIDE DEF B
    <3>a. t \in Seq(0..9) /\ Len(t) = k
      BY <2>2
    <3>1. r \in Seq(0..9) /\ Len(r) = k - 1
      BY <2>4, <3>a
    <3>2. \A i \in 1..(k - 1) : r[i] = t[i]
      BY <2>4, <3>a
    <3>3. t = Append(r, d)
      BY <2>4, <3>a, <3>1, <3>2
    <3>4. r # <<>> => r[1] = t[1]
      BY <2>4, <3>1, <3>2
    <3>5. ASSUME r = <<>> PROVE d = t[1]
      <4>1. Len(r) = 0
        <5> HIDE DEF r
        <5> QED
          BY <3>5
      <4>2. k = 1
        <5> HIDE DEF r
        <5> QED
          BY <2>4, <3>1, <4>1
      <4> QED
        BY <4>2
    <3> QED
      BY <3>1, <3>3, <3>4, <3>5
  <2> HIDE DEF r, d
  <2>6. Starts(r)
    BY <2>4, <2>5
  <2>7. Comes(r)
    <3>1. k - 1 \notin B
      <4> HIDE DEF B
      <4> QED
        BY <2>1, <2>4
    <3> HIDE DEF Starts, Comes
    <3> QED
      BY <2>4, <2>5, <2>6, <3>1
  <2> DEFINE m == NumberOf(r)
             n == NumberOf(t)
  <2>8. r \in Seq(Nat) /\ d \in Nat /\ m \in Nat /\ n = 10 * m + d
    <3>0. r \in Seq(0..9) /\ d \in 0..9
      BY <2>4, <2>5
    <3>1. r \in Seq(Nat) /\ d \in Nat
      <4> HIDE DEF B, m, n
      <4> QED
        BY <3>0
    <3> QED
      BY <2>5, <3>1, NumberType, NumberAppend
  <2>9. n # 0
    <3>1. CASE r = <<>>
      <4>1. d # 0
        BY <2>4, <2>5, <3>1
      <4> HIDE DEF m, n
      <4> QED
        BY <2>8, <4>1
    <3>2. CASE r # <<>>
      <4>1. m # 0
        BY <2>7, <3>2
      <4> HIDE DEF m, n
      <4> QED
        BY <2>8, <4>1
    <3> QED
      BY <3>1, <3>2
  <2>10. n \in Nat /\ n \div 10 = m /\ n % 10 = d
    <3> HIDE DEF m, n
    <3> QED
      BY <2>4, <2>8, LastDigit
  <2>11. Popped[n] = <<d>> \o Popped[m]
    <3> HIDE DEF m, n
    <3> QED
      BY <2>9, <2>10, PoppedOne
  <2>12. Popped[m] = Turned(r)
    BY <2>7
  <2>13. Turned(t) = <<d>> \o Turned(r)
    BY <2>5, <2>8, TurnedAppend
  <2>14. Comes(t)
    <3> HIDE DEF m
    <3> QED
      BY <2>9, <2>11, <2>12, <2>13
  <2> QED
    BY <2>2, <2>14
<1>2. CASE B = {}
  <2>1. Len(s) \in Nat /\ Starts(s)
    OBVIOUS
  <2>2. Comes(s)
    <3> HIDE DEF Starts, Comes
    <3> QED
      BY <1>2, <2>1
  <2> QED
    BY <2>2
<1> QED
  BY <1>1, <1>2

LEMMA ZerosType ==
  ASSUME NEW n \in Nat
  PROVE  ZerosPut(n) \in Seq(Nat) /\ ZerosPut(n + 1) = Append(ZerosPut(n), 0)
BY DEF ZerosPut

LEMMA AppendBehind ==
  ASSUME NEW s \in Seq(Nat), NEW t \in Seq(Nat), NEW d \in Nat
  PROVE  s \o Append(t, d) = Append(s \o t, d) /\ s \o t \in Seq(Nat)
OBVIOUS

\* Reversing a number twice gives it back, but for the zeros at its end.
LEMMA ReversedTwice ==
  \A n \in Nat : \E zeros \in 0..Len(Popped[n]) :
    NumberOf(Popped[NumberOf(Popped[n])] \o ZerosPut(zeros)) = n
<1> DEFINE Twice(n) == Popped[NumberOf(Popped[n])]
           Back(n, z) == NumberOf(Twice(n) \o ZerosPut(z)) = n
           B == {n \in Nat : ~ \E z \in 0..Len(Popped[n]) : Back(n, z)}
<1>1. CASE B # {}
  <2>1. PICK n \in B : \A k \in B : n <= k
    <3>1. B \in SUBSET Nat
      OBVIOUS
    <3> HIDE DEF B
    <3> QED
      BY <1>1, <3>1, SmallestNumber
  <2>2. n \in Nat /\ ~ \E z \in 0..Len(Popped[n]) : Back(n, z)
    <3> HIDE DEF Back
    <3> QED
      OBVIOUS
  <2>3. n # 0
    <3> SUFFICES ASSUME n = 0 PROVE FALSE
      OBVIOUS
    <3>1. Popped[0] = <<>> /\ Twice(0) = <<>>
      BY PoppedNone, NumberEmpty
    <3>2. ZerosPut(0) = <<>>
      BY DEF ZerosPut
    <3>3. <<>> \o <<>> = <<>> /\ 0 \in 0..Len(<<>>)
      OBVIOUS
    <3>4. Back(0, 0)
      <4> HIDE DEF Twice
      <4> QED
        BY <3>1, <3>2, <3>3, NumberEmpty
    <3>5. 0 \in 0..Len(Popped[0])
      BY <3>1, <3>3
    <3> HIDE DEF Back
    <3> QED
      BY <2>2, <3>4, <3>5
  <2> DEFINE m == n \div 10
             d == n % 10
             p == Popped[m]
  <2>4. m \in Nat /\ ~ (n <= m) /\ d \in 0..9 /\ n = 10 * m + d
    BY <2>2, <2>3
  <2>5. Popped[n] = <<d>> \o p
    BY <2>2, <2>3, PoppedOne
  <2>6. p \in Seq(0..9) /\ p \in Seq(Nat)
    <3>1. p \in Seq(0..9)
      BY <2>4, PoppedType
    <3> HIDE DEF p
    <3> QED
      BY <3>1
  <2> HIDE DEF m, d, p
  <2>7. CASE d # 0
    <3> DEFINE q == Popped[n]
    <3>1. q \in Seq(0..9) /\ q[1] = d
      BY <2>4, <2>5, <2>6
    <3>2. Popped[NumberOf(q)] = Turned(q)
      <4> HIDE DEF q
      <4> QED
        BY <2>7, <3>1, NumberHasDigits
    <3>3. Turned(q) \in Seq(0..9)
      <4> HIDE DEF q
      <4> QED
        BY <3>1, TurnedType
    <3>4. Turned(q) \o ZerosPut(0) = Turned(q)
      <4>1. ZerosPut(0) = <<>>
        BY DEF ZerosPut
      <4> QED
        BY <3>3, <4>1
    <3>5. Back(n, 0)
      BY <2>2, <3>2, <3>4, DigitsMakeNumber
    <3>6. 0 \in 0..Len(Popped[n])
      <4> HIDE DEF Back
      <4> QED
        BY <3>1
    <3> HIDE DEF Back
    <3> QED
      BY <2>2, <3>5, <3>6
  <2>8. CASE d = 0
    <3>1. PICK z \in 0..Len(p) : Back(m, z)
      <4>1. m \notin B
        <5> HIDE DEF B
        <5> QED
          BY <2>1, <2>4
      <4> HIDE DEF Back
      <4> QED
        BY <2>4, <4>1 DEF p
    <3>2. Twice(n) = Twice(m)
      <4>1. NumberOf(Popped[n]) = NumberOf(p)
        BY <2>5, <2>6, <2>8, NumberZero
      <4> QED
        BY <4>1 DEF p
    <3> DEFINE s == Twice(m)
    <3>3. s \in Seq(Nat)
      <4>1. NumberOf(p) \in Nat
        BY <2>6, NumberType
      <4>2. s \in Seq(0..9)
        BY <4>1, PoppedType DEF p
      <4> HIDE DEF s
      <4> QED
        BY <4>2
    <3>4. z \in Nat /\ z + 1 \in 0..Len(Popped[n])
      <4> HIDE DEF Back
      <4>1. Len(Popped[n]) = Len(p) + 1 /\ Len(p) \in Nat
        BY <2>5, <2>6
      <4> QED
        BY <4>1
    <3>5. ZerosPut(z) \in Seq(Nat) /\ ZerosPut(z + 1) = Append(ZerosPut(z), 0)
      <4> HIDE DEF Back
      <4> QED
        BY <3>4, ZerosType
    <3> DEFINE t == s \o ZerosPut(z)
    <3>6. t \in Seq(Nat) /\ s \o ZerosPut(z + 1) = Append(t, 0)
      <4> DEFINE w == ZerosPut(z)
      <4>1. w \in Seq(Nat) /\ ZerosPut(z + 1) = Append(w, 0)
        BY <3>5
      <4> HIDE DEF s, Back, w
      <4>2. s \o Append(w, 0) = Append(s \o w, 0) /\ s \o w \in Seq(Nat)
        BY <3>3, <4>1, AppendBehind
      <4> QED
        BY <4>1, <4>2 DEF w
    <3>7. NumberOf(t) = m
      BY <3>1
    <3>8. NumberOf(Append(t, 0)) = n
      <4> HIDE DEF t
      <4>1. NumberOf(Append(t, 0)) = 10 * NumberOf(t) + 0
        BY <3>6, NumberAppend
      <4> QED
        BY <2>4, <2>8, <3>7, <4>1
    <3>9. Back(n, z + 1)
      BY <3>2, <3>6, <3>8
    <3> HIDE DEF Back
    <3> QED
      BY <2>2, <3>4, <3>9
  <2> QED
    BY <2>7, <2>8
<1> QED
  BY <1>1
=============================================================================
