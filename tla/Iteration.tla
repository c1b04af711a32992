------------------------------ MODULE Iteration ------------------------------
(***************************************************************************)
(* What proofs about iterations rest on: induction, as a statement about    *)
(* sets of numbers, and that a recursion over numbers has a value.          *)
(***************************************************************************)
EXTENDS Integers, WellFoundedInduction, TLAPS

LEMMA Least ==
  ASSUME NEW S, S \subseteq Nat, S # {}
  PROVE  \E m \in S : \A k \in S : m <= k
<1> DEFINE Less == OpToRel(<, Nat)
<1>1. IsWellFoundedOn(Less, Nat)
  BY NatLessThanWellFounded
<1>2. \A k, m \in Nat : k < m => <<k, m>> \in Less
  BY DEF OpToRel
<1> HIDE DEF Less
<1>3. PICK m \in S : \A k \in S : ~(<<k, m>> \in Less)
  BY <1>1, WFMin
<1>4. \A k \in S : ~(k < m)
  BY <1>2, <1>3
<1> QED BY <1>4

LEMMA Induction ==
  ASSUME NEW S, 0 \in S, \A n \in Nat : n \in S => n + 1 \in S
  PROVE  \A n \in Nat : n \in S
<1> SUFFICES ASSUME Nat \ S # {}
             PROVE  FALSE
  OBVIOUS
<1>1. PICK m \in Nat \ S : \A k \in Nat \ S : m <= k
  BY Least
<1>2. m - 1 \in Nat /\ m - 1 \in S
  BY <1>1
<1> QED BY <1>1, <1>2

\* What each of N steps does with a value of S.
Steps(N, S) == [1..N -> [S -> S]]

\* What they make of a value, one after the other.
Iterations(N, S, a, F) ==
  {f \in [0..N -> S] : f[0] = a /\ \A k \in 1..N : f[k] = F[k][f[k - 1]]}

\* A recursion over numbers defines a function: each value is a step away from the one before.
LEMMA Iterates ==
  ASSUME NEW N \in Nat, NEW S, NEW a \in S, NEW F \in Steps(N, S)
  PROVE  Iterations(N, S, a, F) # {}
<1> DEFINE Upto(n, f) == f[0] = a /\ \A k \in 1..n : f[k] = F[k][f[k - 1]]
           T == {n \in Nat : n <= N => \E f \in [0..n -> S] : Upto(n, f)}
<1> USE DEF Steps
<1>1. 0 \in T
  <2> DEFINE f == [k \in 0..0 |-> a]
  <2>1. f \in [0..0 -> S] /\ Upto(0, f)
    OBVIOUS
  <2> QED BY <2>1
<1>2. ASSUME NEW n \in Nat, n \in T
      PROVE  n + 1 \in T
  <2> SUFFICES ASSUME n + 1 <= N
               PROVE  \E f \in [0..(n + 1) -> S] : Upto(n + 1, f)
    OBVIOUS
  <2>1. PICK f \in [0..n -> S] : Upto(n, f)
    BY <1>2
  <2> DEFINE g == [k \in 0..(n + 1) |-> IF k = n + 1 THEN F[n + 1][f[n]] ELSE f[k]]
  <2>2. f[n] \in S /\ F[n + 1][f[n]] \in S
    BY <2>1
  <2>3. g \in [0..(n + 1) -> S]
    BY <2>1, <2>2
  <2>4. ASSUME NEW k \in 1..(n + 1)
        PROVE  g[k] = F[k][g[k - 1]]
    <3>1. k - 1 \in 0..n /\ g[k - 1] = f[k - 1]
      OBVIOUS
    <3>2. CASE k = n + 1
      BY <3>1, <3>2
    <3>3. CASE k \in 1..n
      BY <2>1, <3>1, <3>3
    <3> QED BY <3>2, <3>3
  <2>5. g[0] = a
    BY <2>1
  <2> QED BY <2>3, <2>4, <2>5
<1> HIDE DEF T
<1>3. N \in T
  BY <1>1, <1>2, Induction
<1> QED BY <1>3 DEF T, Iterations
==============================================================================
