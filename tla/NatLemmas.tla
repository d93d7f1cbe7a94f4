----------------------------- MODULE NatLemmas -----------------------------
(***************************************************************************)
(* Facts about natural numbers that the proofs of more than one component  *)
(* need: the least element, induction, iteration and the remainder.        *)
(***************************************************************************)
EXTENDS Integers, FiniteSets, FiniteSetTheorems, WellFoundedInduction, TLAPS

\* Every set of natural numbers that is not empty has a least one.
LEMMA LeastNatural ==
    ASSUME NEW T \in SUBSET Nat, T # {}
    PROVE  \E m \in T : \A n \in T : m <= n
<1>1. PICK b \in T : TRUE
  OBVIOUS
<1> DEFINE Below == {0 .. x : x \in {y \in T : y <= b}}
<1>2. Below # {} /\ Below \subseteq SUBSET (0 .. b)
  <2>1. (0 .. b) \in Below
    BY <1>1
  <2>2. ASSUME NEW x \in T, x <= b
        PROVE  (0 .. x) \subseteq (0 .. b)
    BY <1>1, <2>2
  <2> QED
    BY <2>1, <2>2
<1>3. FiniteSubsetsOf(0 .. b) = SUBSET (0 .. b)
  <2>1. IsFiniteSet(0 .. b)
    BY <1>1, FS_Interval
  <2> QED
    BY <2>1, FS_FiniteSubsetsOfFinite
<1>4. IsWellFoundedOn(StrictSubsetOrdering(0 .. b), SUBSET (0 .. b))
  BY <1>3, FS_StrictSubsetOrderingWellFounded
<1>5. PICK s \in Below : \A r \in Below : <<r, s>> \notin StrictSubsetOrdering(0 .. b)
  <2> HIDE DEF Below
  <2> QED
    BY <1>2, <1>4, WFMin
<1>6. PICK m \in T : m <= b /\ s = 0 .. m
  BY <1>5
<1>7. ASSUME NEW n \in T, n < m
      PROVE  FALSE
  <2>1. (0 .. n) \in Below
    BY <1>6, <1>7
  <2>2. (0 .. n) \subseteq (0 .. m) /\ m \in 0 .. m /\ m \notin 0 .. n
    BY <1>7
  <2>3. <<0 .. n, s>> \in StrictSubsetOrdering(0 .. b)
    <3>1. (0 .. n) \in SUBSET (0 .. b) /\ s \in SUBSET (0 .. b)
      BY <1>2, <1>5, <2>1
    <3> QED
      BY <1>6, <2>2, <3>1 DEF StrictSubsetOrdering
  <2> QED
    BY <1>5, <2>1, <2>3
<1> QED
  BY <1>6, <1>7

\* Induction, over a set: what holds of 0, and of n + 1 when it holds of n, holds
\* of every number.  The provers cannot instantiate a predicate.
LEMMA Induction ==
    ASSUME NEW T, 0 \in T, \A n \in Nat : n \in T => n + 1 \in T
    PROVE  Nat \subseteq T
<1> SUFFICES ASSUME Nat \ T # {} PROVE FALSE
  OBVIOUS
<1>1. PICK m \in Nat \ T : \A n \in Nat \ T : m <= n
  BY LeastNatural
<1>2. m # 0 /\ m - 1 \in Nat
  BY <1>1
<1>3. m - 1 \in T
  BY <1>1, <1>2
<1> QED
  BY <1>1, <1>2, <1>3

\* The N turns of a loop that starts with x and whose body is g[n] in turn n.
Runs(N, S, x, g) ==
    {f \in [0 .. N -> S] : f[0] = x /\ \A n \in 1 .. N : f[n] = g[n][f[n - 1]]}

\* A body that stays in S can be repeated any number of times.
LEMMA Iteration ==
    ASSUME NEW N \in Nat, NEW S, NEW x \in S, NEW g \in [1 .. N -> [S -> S]]
    PROVE  Runs(N, S, x, g) # {}
<1> DEFINE T == {n \in Nat : n <= N => Runs(n, S, x, g) # {}}
<1>1. 0 \in T
  <2>1. [n \in 0 .. 0 |-> x] \in Runs(0, S, x, g)
    BY DEF Runs
  <2> QED
    BY <2>1
<1>2. ASSUME NEW n \in Nat, n \in T
      PROVE  n + 1 \in T
  <2> SUFFICES ASSUME n + 1 <= N
               PROVE  Runs(n + 1, S, x, g) # {}
    OBVIOUS
  <2>1. PICK f \in Runs(n, S, x, g) : TRUE
    BY <1>2
  <2>2. f \in [0 .. n -> S] /\ f[0] = x /\ \A m \in 1 .. n : f[m] = g[m][f[m - 1]]
    BY DEF Runs
  <2> DEFINE h == [m \in 0 .. n + 1 |-> IF m = n + 1 THEN g[m][f[n]] ELSE f[m]]
  <2>3. h \in [0 .. n + 1 -> S] /\ h[0] = x
    BY <2>2
  <2>4. ASSUME NEW m \in 1 .. n + 1
        PROVE  h[m] = g[m][h[m - 1]]
    <3>1. CASE m = n + 1
      BY <2>2, <3>1
    <3>2. CASE m \in 1 .. n
      BY <2>2, <3>2
    <3> QED
      BY <3>1, <3>2
  <2>5. h \in Runs(n + 1, S, x, g)
    BY <2>3, <2>4 DEF Runs
  <2> QED
    BY <2>5
<1>3. N \in T
  <2> HIDE DEF T
  <2>1. Nat \subseteq T
    BY <1>1, <1>2, Induction
  <2> QED
    BY <2>1
<1> QED
  BY <1>3

-----------------------------------------------------------------------------
\* A counter modulo N.
LEMMA NextModulo ==
    ASSUME NEW N \in Nat \ {0}, NEW c \in 0 .. N - 1
    PROVE  (c + 1) % N = IF c + 1 = N THEN 0 ELSE c + 1
  OBVIOUS

LEMMA Division ==
    ASSUME NEW g \in Nat \ {0}, NEW c \in Nat
    PROVE  c = g * (c \div g) + (c % g) /\ c \div g \in Nat /\ c % g \in 0 .. g - 1
  OBVIOUS

\* Zero is the only multiple of g between -g and g.
LEMMA SmallMultiple ==
    ASSUME NEW g \in Nat \ {0}, NEW k \in Int, NEW e \in Int, g * k = e, -g < e, e < g
    PROVE  e = 0
<1>1. ASSUME k >= 1
      PROVE  FALSE
  <2>1. g * k >= g
    BY <1>1
  <2> QED
    BY <2>1
<1>2. ASSUME k <= -1
      PROVE  FALSE
  <2>1. g * k <= -g
    BY <1>2
  <2> QED
    BY <2>1
<1> QED
  BY <1>1, <1>2

\* The remainder is the only number below g that a multiple of g is short of c.
LEMMA RemainderUnique ==
    ASSUME NEW g \in Nat \ {0}, NEW q \in Nat, NEW r \in 0 .. g - 1,
           NEW c \in Nat, c = g * q + r
    PROVE  c % g = r
<1> DEFINE d == c \div g
           m == c % g
           k == q - d
           e == m - r
<1>1. c = g * d + m /\ d \in Nat /\ m \in 0 .. g - 1
  BY Division
<1> HIDE DEF d, m
<1>2. k \in Int /\ e \in Int /\ g * k = e /\ -g < e /\ e < g
  BY <1>1
<1>3. e = 0
  <2> HIDE DEF k, e
  <2> QED
    BY <1>2, SmallMultiple
<1> QED
  BY <1>1, <1>3 DEF m

\* A remainder that does not wrap has grown by one.
LEMMA NextRemainder ==
    ASSUME NEW g \in Nat \ {0}, NEW c \in Nat, (c + 1) % g # 0
    PROVE  (c + 1) % g = (c % g) + 1
<1> DEFINE q == c \div g
           r == c % g
<1>1. c = g * q + r /\ q \in Nat /\ r \in 0 .. g - 1
  BY Division
<1> HIDE DEF q, r
<1>2. r # g - 1
  <2> SUFFICES ASSUME r = g - 1 PROVE FALSE
    OBVIOUS
  <2>1. c + 1 = g * (q + 1) + 0
    BY <1>1
  <2> QED
    BY <1>1, <2>1, RemainderUnique
<1>3. c + 1 = g * q + (r + 1)
  BY <1>1
<1>4. (c + 1) % g = r + 1
  BY <1>1, <1>2, <1>3, RemainderUnique
<1> QED
  BY <1>4 DEF r
=============================================================================
