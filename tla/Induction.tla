----------------------------- MODULE Induction ------------------------------
(***************************************************************************)
(* Induction over the natural numbers, stated over sets, and what follows  *)
(* from it: a recursive function of a number is defined at every number.   *)
(* With these the loops that build a sequence or a map one element after   *)
(* the other can be reasoned about for every input.                        *)
(***************************************************************************)
EXTENDS Naturals, WellFoundedInduction, TLAPS

\* A set of numbers that is not empty has a least member.
LEMMA Least ==
    ASSUME NEW I \in SUBSET Nat, I # {}
    PROVE  \E i \in I : \A j \in I : i <= j
<1> DEFINE Below == OpToRel(<, Nat)
<1>1. \E i \in I : \A j \in I : <<j, i>> \notin Below
  BY WFMin, NatLessThanWellFounded
<1>2. ASSUME NEW i \in Nat, NEW j \in Nat, <<j, i>> \notin Below
      PROVE  i <= j
  <2>1. ~ (j < i)
    BY <1>2 DEF OpToRel
  <2>2. QED
    BY <2>1
<1> HIDE DEF Below
<1>3. PICK i \in I : \A j \in I : <<j, i>> \notin Below
  BY <1>1
<1>4. \A j \in I : i <= j
  BY <1>2, <1>3
<1>5. QED
  BY <1>4

\* A set that has 0, and with a number below N the next one, has all numbers
\* up to N.
LEMMA SetInduction ==
    ASSUME NEW N \in Nat, NEW S, 0 \in S, \A n \in 0..N : n \in S /\ n < N => n + 1 \in S
    PROVE  \A n \in 0..N : n \in S
<1> SUFFICES ASSUME NEW n \in 0..N, n \notin S PROVE FALSE
  OBVIOUS
<1> DEFINE I == {k \in 0..N : k \notin S}
<1>0. I \in SUBSET Nat /\ I # {}
  OBVIOUS
<1> HIDE DEF I
<1>1. PICK k \in I : \A j \in I : k <= j
  BY <1>0, Least
<1>2. k \in 0..N /\ k \notin S /\ k # 0
  BY <1>1 DEF I
<1>3. k - 1 \in 0..N /\ k - 1 < N /\ (k - 1) + 1 = k /\ ~ (k <= k - 1)
  BY <1>2
<1>4. k - 1 \in S
  BY <1>1, <1>3 DEF I
<1>5. QED
  BY <1>2, <1>3, <1>4

\* A value in V that starts as `base' and is changed by `step' once for each
\* number up to N has a history.
History(N, V, base, step) ==
    {f \in [0..N -> V] : f[0] = base /\ \A n \in 1..N : f[n] = step[n][f[n - 1]]}

LEMMA RecursionDefines ==
    ASSUME NEW N \in Nat, NEW V, NEW base \in V, NEW step \in [1..N -> [V -> V]]
    PROVE  History(N, V, base, step) # {}
<1> DEFINE Upto(n, f) == f[0] = base /\ \A m \in 1..n : f[m] = step[m][f[m - 1]]
           S == {n \in 0..N : \E f \in [0..n -> V] : Upto(n, f)}
<1>1. 0 \in S
  <2> DEFINE f == [m \in 0..0 |-> base]
  <2>1. f \in [0..0 -> V] /\ f[0] = base /\ 1..0 = {}
    OBVIOUS
  <2> HIDE DEF f
  <2>2. Upto(0, f)
    BY <2>1
  <2>3. QED
    BY <2>1, <2>2
<1>2. ASSUME NEW n \in 0..N, n \in S, n < N
      PROVE  n + 1 \in S
  <2>1. PICK f \in [0..n -> V] : Upto(n, f)
    BY <1>2
  <2> DEFINE g == [m \in 0..n + 1 |-> IF m = n + 1 THEN step[n + 1][f[n]] ELSE f[m]]
  <2>2. n + 1 \in 1..N /\ f[n] \in V
    BY <1>2
  <2>3. step[n + 1][f[n]] \in V
    BY <2>2
  <2>4. g \in [0..n + 1 -> V]
    BY <2>3
  <2>5. /\ g[0] = f[0] /\ g[n + 1] = step[n + 1][g[(n + 1) - 1]]
        /\ \A m \in 1..n : g[m] = f[m] /\ g[m - 1] = f[m - 1]
    OBVIOUS
  <2>6. \A m \in 1..n + 1 : m \in 1..n \/ m = n + 1
    OBVIOUS
  <2> HIDE DEF g
  <2>7. Upto(n + 1, g)
    BY <2>1, <2>5, <2>6
  <2>8. QED
    BY <2>2, <2>4, <2>7
<1>3. N \in S
  <2> HIDE DEF S
  <2>1. \A n \in 0..N : n \in S /\ n < N => n + 1 \in S
    BY <1>2
  <2>2. \A n \in 0..N : n \in S
    BY <1>1, <2>1, SetInduction
  <2>3. QED
    BY <2>2
<1>4. QED
  BY <1>3 DEF History
=============================================================================
