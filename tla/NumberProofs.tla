---------------------------- MODULE NumberProofs ----------------------------
(***************************************************************************)
(* Facts about numbers that other proofs rest on: what is least, what is   *)
(* greatest, what comes again every so many.                               *)
(***************************************************************************)
EXTENDS Integers, FiniteSetTheorems, WellFoundedInduction, TLAPS

-----------------------------------------------------------------------------
(***************************************************************************)
(* Finite sets and the first of some numbers.                              *)
(***************************************************************************)
\* Some numbers have a least one: an induction goes by the least counterexample.
LEMMA LeastNat ==
    ASSUME NEW T, T \subseteq Nat, T # {}
    PROVE  \E m \in T : \A k \in T : m <= k
<1> DEFINE U == {0..m : m \in T}
           R == StrictSubsetOrdering(Nat)
<1>1. U \subseteq FiniteSubsetsOf(Nat) /\ U # {}
  <2>1. \A m \in T : 0..m \subseteq Nat /\ IsFiniteSet(0..m)
    BY FS_Interval
  <2> QED BY <2>1 DEF FiniteSubsetsOf
<1>2. PICK u \in U : \A v \in U : ~ (<<v, u>> \in R)
  <2> HIDE DEF U, R
  <2>1. IsWellFoundedOn(R, FiniteSubsetsOf(Nat))
    BY FS_StrictSubsetOrderingWellFounded DEF R
  <2> QED BY <1>1, <2>1, WFMin
<1>3. PICK m \in T : u = 0..m
  BY <1>2
<1>4. ASSUME NEW k \in T, ~(m <= k)
      PROVE  FALSE
  <2>1. k \in Nat /\ m \in Nat /\ k < m
    BY <1>4
  <2>2. 0..k \subseteq 0..m /\ 0..k # 0..m
    BY <2>1
  <2>3. 0..k \in SUBSET Nat /\ 0..m \in SUBSET Nat
    BY <2>1
  <2>4. <<0..k, 0..m>> \in R
    BY <2>2, <2>3 DEF StrictSubsetOrdering
  <2>5. 0..k \in U
    BY <1>4
  <2> HIDE DEF U, R
  <2> QED BY <1>2, <1>3, <2>4, <2>5
<1> QED BY <1>4

\* A finite set of things that are measured has one of the greatest measure.
LEMMA GreatestOf ==
    ASSUME NEW S, IsFiniteSet(S), S # {}, NEW f, \A x \in S : f[x] \in Int
    PROVE  \E x \in S : \A y \in S : f[y] <= f[x]
<1> DEFINE Has(U) == \E x \in U : \A y \in U : f[y] <= f[x]
           T == {U \in SUBSET S : U # {} /\ ~Has(U)}
           R == StrictSubsetOrdering(S)
<1>1. SUFFICES ASSUME T # {} PROVE FALSE
  OBVIOUS
<1>2. T \subseteq FiniteSubsetsOf(S)
  BY FS_Subset DEF FiniteSubsetsOf
<1>3. PICK U \in T : \A V \in T : ~ (<<V, U>> \in R)
  <2> HIDE DEF T, R
  <2>1. IsWellFoundedOn(R, FiniteSubsetsOf(S))
    BY FS_StrictSubsetOrderingWellFounded DEF R
  <2> QED BY <1>1, <1>2, <2>1, WFMin
<1>4. U \in SUBSET S /\ U # {} /\ ~Has(U)
  OBVIOUS
<1>5. PICK x \in U : TRUE
  BY <1>4
<1> DEFINE V == U \ {x}
<1>6. V \in SUBSET S /\ V # U /\ V \subseteq U
  BY <1>4
<1>7. <<V, U>> \in R
  <2> HIDE DEF V
  <2> QED BY <1>4, <1>6 DEF StrictSubsetOrdering
<1>8. V \notin T
  <2> HIDE DEF T, R
  <2> QED BY <1>3, <1>7
<1>9. CASE V = {}
  <2>1. U = {x}
    BY <1>9
  <2>2. f[x] \in Int
    BY <1>4
  <2> QED BY <1>4, <2>1, <2>2
<1>10. CASE V # {}
  <2>1. Has(V)
    BY <1>6, <1>8, <1>10
  <2>2. PICK z \in V : \A y \in V : f[y] <= f[z]
    BY <2>1
  <2>3. \A y \in U : f[y] \in Int
    BY <1>4
  <2>4. z \in U
    OBVIOUS
  <2>5. CASE f[x] <= f[z]
    <3>1. \A y \in U : f[y] <= f[z]
      BY <2>2, <2>5
    <3> QED BY <1>4, <2>4, <3>1
  <2>6. CASE ~(f[x] <= f[z])
    <3>1. \A y \in U : f[y] <= f[x]
      BY <2>2, <2>3, <2>4, <2>6
    <3> QED BY <1>4, <3>1
  <2> QED BY <2>5, <2>6
<1> QED BY <1>9, <1>10

\* The first n numbers are n.
LEMMA FirstNumbers ==
    ASSUME NEW n \in Nat
    PROVE  IsFiniteSet(1..n) /\ Cardinality(1..n) = n
<1>1. IsFiniteSet(1..n) /\ Cardinality(1..n) = IF 1 > n THEN 0 ELSE n - 1 + 1
  BY FS_Interval
<1> QED BY <1>1

\* The numbers of a span have a least and a greatest one.
LEMMA LeastOf ==
    ASSUME NEW a \in Int, NEW b \in Int, NEW T, T \subseteq a..b, T # {}
    PROVE  \E m \in T : \A k \in T : m <= k
<1> DEFINE U == {k - a : k \in T}
<1>1. U \subseteq Nat /\ U # {}
  <2>1. \A k \in T : k - a \in Nat
    OBVIOUS
  <2> QED BY <2>1
<1>2. PICK u \in U : \A v \in U : u <= v
  <2> HIDE DEF U
  <2> QED BY <1>1, LeastNat
<1>3. PICK m \in T : u = m - a
  OBVIOUS
<1>4. \A k \in T : m <= k
  <2> SUFFICES ASSUME NEW k \in T PROVE m <= k
    OBVIOUS
  <2>1. m - a <= k - a
    BY <1>2, <1>3
  <2> QED BY <2>1
<1> QED BY <1>4

LEMMA MostOf ==
    ASSUME NEW a \in Int, NEW b \in Int, NEW T, T \subseteq a..b, T # {}
    PROVE  \E m \in T : \A k \in T : k <= m
<1> DEFINE U == {b - k : k \in T}
<1>1. U \subseteq Nat /\ U # {}
  <2>1. \A k \in T : b - k \in Nat
    OBVIOUS
  <2> QED BY <2>1
<1>2. PICK u \in U : \A v \in U : u <= v
  <2> HIDE DEF U
  <2> QED BY <1>1, LeastNat
<1>3. PICK m \in T : u = b - m
  OBVIOUS
<1>4. \A k \in T : k <= m
  <2> SUFFICES ASSUME NEW k \in T PROVE k <= m
    OBVIOUS
  <2>1. b - m <= b - k
    BY <1>2, <1>3
  <2> QED BY <2>1
<1> QED BY <1>4

\* Only 0 of the multiples of k is within k of 0.
LEMMA NoMultiple ==
    ASSUME NEW k \in Nat \ {0}, NEW z \in Int, -k < k * z, k * z < k
    PROVE  z = 0
<1>1. ASSUME z >= 1 PROVE FALSE
  <2>1. k * z >= k
    BY <1>1
  <2> QED BY <2>1
<1>2. ASSUME z <= -1 PROVE FALSE
  <2>1. k * z <= -k
    BY <1>2
  <2> QED BY <2>1
<1> QED BY <1>1, <1>2

LEMMA Dividing ==
    ASSUME NEW k \in Nat \ {0}, NEW n \in Int
    PROVE  /\ n \div k \in Int /\ n % k \in 0..(k - 1)
           /\ n = k * (n \div k) + (n % k)
OBVIOUS

\* What comes every k comes again.
LEMMA ComesAgain ==
    ASSUME NEW k \in Nat \ {0}, NEW v \in Int, NEW q \in Int
    PROVE  (v + k * q) % k = v % k
<1> DEFINE n == v + k * q
           z == n \div k - v \div k - q
<1>1. k * q \in Int
  OBVIOUS
<1>2. n = k * (n \div k) + (n % k) /\ n \div k \in Int /\ n % k \in 0..(k - 1)
  BY <1>1, Dividing
<1>3. v = k * (v \div k) + (v % k) /\ v \div k \in Int /\ v % k \in 0..(k - 1)
  BY Dividing
<1>4. z \in Int /\ k * z = (v % k) - (n % k)
  BY <1>2, <1>3
<1>5. v % k \in Int /\ n % k \in Int /\ -k < (v % k) - (n % k) /\ (v % k) - (n % k) < k
  <2> HIDE DEF n
  <2> QED BY <1>2, <1>3
<1>6. z = 0
  <2> HIDE DEF z, n
  <2>1. -k < k * z /\ k * z < k
    BY <1>4, <1>5
  <2> QED BY <1>4, <2>1, NoMultiple
<1>7. (v % k) - (n % k) = 0
  <2> HIDE DEF z, n
  <2> QED BY <1>4, <1>6
<1>8. n % k = v % k
  <2> HIDE DEF n
  <2> QED BY <1>5, <1>7
<1> QED BY <1>8

\* What comes every k and comes at u came before, in any span of k that is over by then.
LEMMA CameBefore ==
    ASSUME NEW k \in Nat \ {0}, NEW a \in Int, NEW u \in Int, a < u
    PROVE  \E v \in (a + 1)..(a + k) : v <= u /\ v % k = u % k
<1> DEFINE d == u - (a + 1)
           v == (a + 1) + (d % k)
           q == d \div k
<1>1. d \in Nat /\ d = k * q + (d % k) /\ q \in Int /\ d % k \in 0..(k - 1)
  BY Dividing
<1>2. v \in (a + 1)..(a + k) /\ u = v + k * q
  BY <1>1
<1>3. d % k <= d
  <2>1. q >= 0
    <3> HIDE DEF d, q
    <3>1. ASSUME q <= -1 PROVE FALSE
      <4>1. k * q <= -k
        BY <1>1, <3>1
      <4> QED BY <1>1, <4>1
    <3> QED BY <1>1, <3>1
  <2>2. k * q >= 0
    <3> HIDE DEF d, q
    <3> QED BY <1>1, <2>1
  <2> HIDE DEF d, q
  <2> QED BY <1>1, <2>2
<1>4. v <= u
  BY <1>3
<1>5. v % k = u % k
  <2> HIDE DEF v, q
  <2>1. v \in Int /\ q \in Int
    BY <1>1, <1>2
  <2>2. (v + k * q) % k = v % k
    BY <2>1, ComesAgain
  <2> QED BY <1>2, <2>2
<1> QED BY <1>2, <1>4, <1>5

=============================================================================
