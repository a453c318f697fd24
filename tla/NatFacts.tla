------------------------------ MODULE NatFacts ------------------------------
(***************************************************************************)
(* Facts about natural numbers that the proofs share: division, and         *)
(* induction.  Induction is stated about sets rather than about predicates, *)
(* so that the provers can use it: a statement about all n is proved for    *)
(* the set of the numbers it holds of.                                      *)
(***************************************************************************)
EXTENDS Integers, FiniteSetTheorems, WellFoundedInduction, TLAPS

----------------------------------------------------------------------------
(* Division *)

LEMMA Division ==
    ASSUME NEW n \in Nat \ {0}, NEW a \in Nat
    PROVE  /\ a \div n \in Nat /\ a % n \in Nat /\ a = n * (a \div n) + (a % n)
           /\ n * (a \div n) <= a /\ a < n * (a \div n) + n
OBVIOUS

LEMMA Products ==
    ASSUME NEW n \in Nat, NEW a \in Int, NEW b \in Int, a <= b
    PROVE  n * a <= n * b
OBVIOUS

\* What modular arithmetic does.
LEMMA Wrapped ==
    ASSUME NEW n \in Nat \ {0}, NEW a \in Int
    PROVE  /\ a % n \in 0 .. n - 1
           /\ a \in 0 .. n - 1 => a % n = a
           /\ a \in -n .. -1 => a % n = a + n
OBVIOUS

\* An index into a ring.
LEMMA Remainder ==
    ASSUME NEW n \in Nat \ {0}, NEW a \in 0 .. 2 * n - 1
    PROVE  a % n = IF a < n THEN a ELSE a - n
OBVIOUS

----------------------------------------------------------------------------
(* Induction *)

\* Every non-empty set of natural numbers has a least element: what first fit
\* and first free choose exists.  (The intervals below its elements are finite
\* sets, which strict inclusion orders well.)
THEOREM NatMinimum ==
    ASSUME NEW S, S \subseteq Nat, S # {}
    PROVE  \E m \in S : \A n \in S : m <= n
<1> DEFINE Below(n) == 0 .. n - 1
           T == {Below(n) : n \in S}
<1>1. IsWellFoundedOn(StrictSubsetOrdering(Nat), FiniteSubsetsOf(Nat))
  BY FS_StrictSubsetOrderingWellFounded
<1>2. T \subseteq FiniteSubsetsOf(Nat)
  <2> SUFFICES ASSUME NEW n \in S PROVE Below(n) \in FiniteSubsetsOf(Nat)
    OBVIOUS
  <2>1. n \in Nat /\ 0 \in Int /\ n - 1 \in Int
    OBVIOUS
  <2>2. IsFiniteSet(Below(n))
    BY <2>1, FS_Interval
  <2>3. Below(n) \subseteq Nat
    BY <2>1
  <2> QED
    BY <2>2, <2>3 DEF FiniteSubsetsOf
<1>3. T # {}
  OBVIOUS
<1> HIDE DEF T
<1>4. PICK x \in T : \A y \in T : ~(<<y, x>> \in StrictSubsetOrdering(Nat))
  BY <1>1, <1>2, <1>3, WFMin
<1>5. PICK m \in S : x = Below(m)
  BY DEF T
<1>6. ASSUME NEW n \in S, n < m
      PROVE  FALSE
  <2>1. m \in Nat /\ n \in Nat
    OBVIOUS
  <2>2. Below(n) \in T
    BY DEF T
  <2>3. Below(n) \subseteq Below(m) /\ n \in Below(m) /\ n \notin Below(n)
    BY <1>6, <2>1
  <2>4. Below(n) \in SUBSET Nat /\ Below(m) \in SUBSET Nat
    BY <2>1
  <2> HIDE DEF Below
  <2>5. <<Below(n), x>> \in StrictSubsetOrdering(Nat)
    BY <1>5, <2>3, <2>4 DEF StrictSubsetOrdering
  <2> QED
    BY <1>4, <2>2, <2>5
<1> QED
  BY <1>6

\* A set that has 0, and with each number its successor, has all of them.
THEOREM NatSetInduction ==
    ASSUME NEW Q, 0 \in Q, \A n \in Nat : n \in Q => n + 1 \in Q
    PROVE  Nat \subseteq Q
<1> SUFFICES ASSUME Nat \ Q # {} PROVE FALSE
  OBVIOUS
<1>1. PICK m \in Nat \ Q : \A n \in Nat \ Q : m <= n
  BY NatMinimum
<1>2. m # 0 /\ m - 1 \in Nat /\ m - 1 \notin Nat \ Q
  BY <1>1
<1>3. (m - 1) + 1 \in Q
  BY <1>2
<1> QED
  BY <1>1, <1>2, <1>3

\* A loop whose i-th round takes a state x of S to step[i][x], and the records of
\* N rounds from x0 on.
Steps(S) == [Nat -> [S -> S]]
Runs(S, x0, step, N) ==
    {f \in [0 .. N -> S] : f[0] = x0 /\ \A i \in 0 .. N - 1 : f[i + 1] = step[i][f[i]]}

\* Every loop can be recorded round by round: what a recursive function over the
\* rounds asks for exists.
THEOREM LoopStates ==
    ASSUME NEW S, NEW x0 \in S, NEW step \in Steps(S), NEW N \in Nat
    PROVE  Runs(S, x0, step, N) # {}
<1>0. step \in [Nat -> [S -> S]]
  BY DEF Steps
<1> DEFINE Records(f, n) == f[0] = x0 /\ \A i \in 0 .. n - 1 : f[i + 1] = step[i][f[i]]
           Q == {n \in Nat : \E f \in [0 .. n -> S] : Records(f, n)}
<1>1. 0 \in Q
  <2> DEFINE f == [i \in 0 .. 0 |-> x0]
  <2>1. f \in [0 .. 0 -> S] /\ Records(f, 0)
    OBVIOUS
  <2> HIDE DEF Records, f
  <2> QED
    BY <2>1
<1>2. ASSUME NEW n \in Nat, n \in Q
      PROVE  n + 1 \in Q
  <2>1. PICK g \in [0 .. n -> S] : Records(g, n)
    BY <1>2
  <2> DEFINE f == [i \in 0 .. n + 1 |-> IF i <= n THEN g[i] ELSE step[n][g[n]]]
  <2>2. step[n][g[n]] \in S
    BY <1>0
  <2>3. f \in [0 .. n + 1 -> S]
    BY <2>2
  <2>4. f[0] = x0
    BY <2>1
  <2>5. ASSUME NEW i \in 0 .. (n + 1) - 1
        PROVE  f[i + 1] = step[i][f[i]]
    <3>1. CASE i = n
      BY <3>1
    <3>2. CASE i # n
      <4>1. i \in 0 .. n - 1 /\ f[i] = g[i] /\ f[i + 1] = g[i + 1]
        BY <3>2
      <4> QED
        BY <2>1, <4>1
    <3> QED
      BY <3>1, <3>2
  <2>6. Records(f, n + 1)
    BY <2>4, <2>5
  <2> HIDE DEF Records, f
  <2> QED
    BY <2>3, <2>6
<1> HIDE DEF Q
<1>3. Nat \subseteq Q
  BY <1>1, <1>2, NatSetInduction
<1> QED
  BY <1>3 DEF Q, Runs

\* What holds before the first round of a loop and is kept by every round holds
\* after each.  (P[i] is the set of the states in which it holds after i rounds.)
THEOREM LoopInvariant ==
    ASSUME NEW N \in Nat, NEW f, NEW P, f[0] \in P[0],
           \A i \in 0 .. N - 1 : f[i] \in P[i] => f[i + 1] \in P[i + 1]
    PROVE  \A i \in 0 .. N : f[i] \in P[i]
<1> DEFINE Q == {i \in Nat : i <= N => f[i] \in P[i]}
<1>1. 0 \in Q
  OBVIOUS
<1>2. \A n \in Nat : n \in Q => n + 1 \in Q
  OBVIOUS
<1> HIDE DEF Q
<1>3. Nat \subseteq Q
  BY <1>1, <1>2, NatSetInduction
<1> QED
  BY <1>3 DEF Q
=============================================================================
