-------------------------- MODULE InductionProofs --------------------------
(***************************************************************************)
(* Induction and recursion over the naturals in a form that needs no       *)
(* operator as a parameter: the set of the numbers a claim holds for, and  *)
(* the step of a recursion as a function.                                  *)
(***************************************************************************)
EXTENDS Integers, Sequences, NaturalsInduction, WellFoundedInduction, TLAPS

\* Every non-empty set of naturals has a least element.
LEMMA LeastNumber ==
  ASSUME NEW T, T \subseteq Nat, T # {}
  PROVE  \E n \in T : \A m \in T : n <= m
<1>1. PICK n \in T : \A m \in T : ~ (<<m, n>> \in OpToRel(<, Nat))
  BY NatLessThanWellFounded, WFMin
<1>2. \A m \in T : ~ (m < n)
  BY <1>1 DEF OpToRel
<1> QED BY <1>2

\* Induction: a set with 0 that contains the successor of its elements.
LEMMA SetInduction ==
  ASSUME NEW T, T \subseteq Nat, 0 \in T, \A n \in T : n + 1 \in T
  PROVE  T = Nat
<1> SUFFICES ASSUME Nat \ T # {} PROVE FALSE
  OBVIOUS
<1>1. PICK n \in Nat \ T : \A m \in Nat \ T : n <= m
  BY LeastNumber
<1>2. n # 0 /\ n - 1 \in Nat /\ n - 1 \in T
  BY <1>1
<1>3. (n - 1) + 1 \in T
  BY <1>2
<1> QED BY <1>1, <1>2, <1>3

\* f is the function that a first value and a step for each number define.
Recurs(f, S, a, step, N) ==
  /\ f \in [0..N -> S]
  /\ f[0] = a
  /\ \A n \in 1..N : f[n] = step[n][f[n - 1]]

\* There is such a function.
LEMMA Recursion ==
  ASSUME NEW S, NEW a \in S, NEW N \in Nat, NEW step \in [1..N -> [S -> S]]
  PROVE  \E f : Recurs(f, S, a, step, N)
<1> DEFINE T == {m \in Nat : m <= N => \E f : Recurs(f, S, a, step, m)}
<1>1. 0 \in T
  <2>1. Recurs([i \in 0..0 |-> a], S, a, step, 0)
    BY DEF Recurs
  <2> QED BY <2>1
<1>2. ASSUME NEW m \in T PROVE m + 1 \in T
  <2> SUFFICES ASSUME m + 1 <= N
               PROVE  \E f : Recurs(f, S, a, step, m + 1)
    OBVIOUS
  <2>1. PICK f : Recurs(f, S, a, step, m)
    OBVIOUS
  <2> DEFINE g == [i \in 0..(m + 1) |-> IF i = m + 1 THEN step[m + 1][f[m]] ELSE f[i]]
  <2>2. f[m] \in S /\ step[m + 1] \in [S -> S]
    BY <2>1 DEF Recurs
  <2>3. g \in [0..(m + 1) -> S]
    BY <2>1, <2>2 DEF Recurs
  <2>4. g[0] = a
    BY <2>1 DEF Recurs
  <2>5. ASSUME NEW n \in 1..(m + 1) PROVE g[n] = step[n][g[n - 1]]
    <3>1. CASE n = m + 1
      BY <3>1
    <3>2. CASE n # m + 1
      <4>1. n \in 1..m /\ g[n] = f[n] /\ g[n - 1] = f[n - 1]
        BY <3>2
      <4> QED BY <2>1, <4>1 DEF Recurs
    <3> QED BY <3>1, <3>2
  <2> HIDE DEF g
  <2>6. Recurs(g, S, a, step, m + 1)
    BY <2>3, <2>4, <2>5 DEF Recurs
  <2> QED BY <2>6
<1>3. T = Nat
  BY <1>1, <1>2, SetInduction
<1>4. N \in T
  BY <1>3
<1> QED BY <1>4

\* A function that obeys the equations as long as it stays in S stays in S.
LEMMA RecursionStays ==
  ASSUME NEW S, NEW a \in S, NEW N \in Nat, NEW step \in [1..N -> [S -> S]],
         NEW f, f = [n \in 0..N |-> f[n]], f[0] = a,
         \A n \in 1..N : f[n - 1] \in S => f[n] = step[n][f[n - 1]]
  PROVE  Recurs(f, S, a, step, N)
<1> DEFINE T == {n \in Nat : n <= N => f[n] \in S}
<1>1. 0 \in T
  OBVIOUS
<1>2. ASSUME NEW n \in T PROVE n + 1 \in T
  <2> SUFFICES ASSUME n + 1 <= N PROVE f[n + 1] \in S
    OBVIOUS
  <2>1. n + 1 \in 1..N /\ (n + 1) - 1 = n /\ f[n] \in S
    OBVIOUS
  <2>2. f[n + 1] = step[n + 1][f[n]]
    BY <2>1
  <2> QED BY <2>1, <2>2
<1>3. T = Nat
  BY <1>1, <1>2, SetInduction
<1>4. \A n \in 0..N : f[n] \in S
  <2>1. \A n \in 0..N : n \in Nat /\ n <= N
    OBVIOUS
  <2>2. \A n \in 0..N : n \in T
    BY <1>3, <2>1
  <2> QED BY <2>1, <2>2
<1>5. f \in [0..N -> S]
  <2>1. [n \in 0..N |-> f[n]] \in [0..N -> S]
    BY <1>4
  <2> QED BY <2>1, Zenon
<1>6. ASSUME NEW n \in 1..N PROVE f[n] = step[n][f[n - 1]]
  <2>1. n - 1 \in 0..N
    OBVIOUS
  <2>2. f[n - 1] \in S
    BY <1>4, <2>1
  <2> QED BY <2>2
<1> QED BY <1>5, <1>6 DEF Recurs

\* Induction over an initial part of the naturals.
LEMMA UpToInduction ==
  ASSUME NEW N \in Nat, NEW T, 0 \in T,
         \A n \in 0..(N - 1) : n \in T => n + 1 \in T
  PROVE  \A n \in 0..N : n \in T
<1> DEFINE U == {n \in Nat : n <= N => n \in T}
<1>1. 0 \in U /\ \A n \in U : n + 1 \in U
  OBVIOUS
<1>2. U = Nat
  BY <1>1, SetInduction
<1> QED BY <1>2
=============================================================================
