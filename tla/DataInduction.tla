---------------------------- MODULE DataInduction -----------------------------
(***************************************************************************)
(* Induction over the natural numbers, for what a recursively defined      *)
(* function yields.  The principle is stated for sets: a predicate is the  *)
(* set of the numbers that have it.  It follows from the least element of  *)
(* a set of naturals, which the order's well-foundedness gives.            *)
(***************************************************************************)
EXTENDS Naturals, WellFoundedInduction, TLAPS

\* A set of naturals that is not empty has a least one.
LEMMA LeastNumber ==
    ASSUME NEW T \in SUBSET Nat, T # {}
    PROVE  \E x \in T : \A y \in T : x <= y
<1> DEFINE R == {ss \in Nat \X Nat : ss[1] < ss[2]}
<1>1. IsWellFoundedOn(R, Nat)
  BY NatLessThanWellFounded DEF OpToRel
<1>2. PICK x \in T : \A y \in T : ~(<<y, x>> \in R)
  <2> HIDE DEF R
  <2> QED BY <1>1, WFMin
<1>3. \A y \in T : ~(y < x)
  BY <1>2
<1> QED BY <1>3

\* A set that begins with 0 and goes on by one has every number.
LEMMA Induct ==
    ASSUME NEW S, 0 \in S, \A n \in Nat : n \in S => n + 1 \in S
    PROVE  \A n \in Nat : n \in S
<1> DEFINE T == {n \in Nat : n \notin S}
<1> SUFFICES ASSUME T # {} PROVE FALSE
  OBVIOUS
<1>1. PICK x \in T : \A y \in T : x <= y
  BY LeastNumber
<1>2. x - 1 \in Nat /\ x - 1 \notin T
  BY <1>1
<1> QED BY <1>2

\* The same as far as N.
LEMMA InductTo ==
    ASSUME NEW N \in Nat, NEW S, 0 \in S, \A n \in 0 .. N : n \in S /\ n < N => n + 1 \in S
    PROVE  \A n \in 0 .. N : n \in S
<1> DEFINE T == {n \in Nat : n > N \/ n \in S}
<1>1. \A n \in Nat : n \in T
  <2>1. 0 \in T /\ \A n \in Nat : n \in T => n + 1 \in T
    OBVIOUS
  <2> HIDE DEF T
  <2> QED BY <2>1, Induct
<1> QED BY <1>1

\* f begins with b and goes on with s, as far as N.
Iterates(f, N, b, s) == f[0] = b /\ \A n \in 1 .. N : f[n] = s[f[n - 1]]

\* A first value and a function from each value to the next make a sequence.
LEMMA IterationExists ==
    ASSUME NEW N \in Nat, NEW A, NEW b \in A, NEW s \in [A -> A]
    PROVE  \E f \in [0 .. N -> A] : Iterates(f, N, b, s)
<1> DEFINE S == {m \in Nat : \E f \in [0 .. m -> A] : Iterates(f, m, b, s)}
<1>1. 0 \in S
  <2>1. [i \in 0 .. 0 |-> b] \in [0 .. 0 -> A] /\ Iterates([i \in 0 .. 0 |-> b], 0, b, s)
    BY DEF Iterates
  <2> QED BY <2>1
<1>2. ASSUME NEW m \in Nat, m \in S
      PROVE  m + 1 \in S
  <2> PICK f \in [0 .. m -> A] : Iterates(f, m, b, s)
    BY <1>2
  <2> DEFINE g == [i \in 0 .. (m + 1) |-> IF i = m + 1 THEN s[f[m]] ELSE f[i]]
  <2>1. g \in [0 .. (m + 1) -> A] /\ g[0] = b
    BY DEF Iterates
  <2>2. ASSUME NEW n \in 1 .. (m + 1) PROVE g[n] = s[g[n - 1]]
    <3>1. CASE n = m + 1
      BY <3>1
    <3>2. CASE n # m + 1
      <4>1. n \in 1 .. m /\ n - 1 \in 0 .. (m + 1) /\ n - 1 # m + 1 /\ n \in 0 .. (m + 1)
        BY <3>2
      <4>2. g[n] = f[n] /\ g[n - 1] = f[n - 1]
        BY <3>2, <4>1
      <4> QED BY <4>1, <4>2 DEF Iterates
    <3> QED BY <3>1, <3>2
  <2> HIDE DEF g
  <2>3. Iterates(g, m + 1, b, s)
    BY <2>1, <2>2 DEF Iterates
  <2> QED BY <2>1, <2>3
<1>3. \A n \in Nat : n \in S
  <2> HIDE DEF S
  <2> QED BY <1>1, <1>2, Induct
<1> QED BY <1>3

\* f begins with b, and its n-th value is made of the one before by s[n].
Unrolls(f, N, b, s) == f[0] = b /\ \A n \in 1 .. N : f[n] = s[n][f[n - 1]]

\* The same when each step has a function of its own.
LEMMA UnrollingExists ==
    ASSUME NEW N \in Nat, NEW A, NEW b \in A, NEW s \in [1 .. N -> [A -> A]]
    PROVE  \E f \in [0 .. N -> A] : Unrolls(f, N, b, s)
<1> DEFINE S == {m \in Nat : m <= N => \E f \in [0 .. m -> A] : Unrolls(f, m, b, s)}
<1>1. 0 \in S
  <2>1. [i \in 0 .. 0 |-> b] \in [0 .. 0 -> A] /\ Unrolls([i \in 0 .. 0 |-> b], 0, b, s)
    BY DEF Unrolls
  <2> QED BY <2>1
<1>2. ASSUME NEW m \in Nat, m \in S
      PROVE  m + 1 \in S
  <2> SUFFICES ASSUME m + 1 <= N
               PROVE  \E f \in [0 .. (m + 1) -> A] : Unrolls(f, m + 1, b, s)
    OBVIOUS
  <2>0. PICK f \in [0 .. m -> A] : Unrolls(f, m, b, s)
    BY <1>2
  <2> DEFINE g == [i \in 0 .. (m + 1) |-> IF i = m + 1 THEN s[m + 1][f[m]] ELSE f[i]]
  <2>4. s[m + 1] \in [A -> A] /\ f[m] \in A
    BY <2>0
  <2>1. g \in [0 .. (m + 1) -> A] /\ g[0] = b
    BY <2>0, <2>4 DEF Unrolls
  <2>2. ASSUME NEW n \in 1 .. (m + 1) PROVE g[n] = s[n][g[n - 1]]
    <3>1. CASE n = m + 1
      BY <2>0, <3>1
    <3>2. CASE n # m + 1
      <4>1. n \in 1 .. m /\ n - 1 \in 0 .. (m + 1) /\ n - 1 # m + 1 /\ n \in 0 .. (m + 1)
        BY <3>2
      <4>2. g[n] = f[n] /\ g[n - 1] = f[n - 1]
        BY <3>2, <4>1
      <4> QED BY <2>0, <4>1, <4>2 DEF Unrolls
    <3> QED BY <3>1, <3>2
  <2> HIDE DEF g
  <2>3. Unrolls(g, m + 1, b, s)
    BY <2>1, <2>2 DEF Unrolls
  <2> QED BY <2>1, <2>3
<1>3. \A n \in Nat : n \in S
  <2> HIDE DEF S
  <2> QED BY <1>1, <1>2, Induct
<1> QED BY <1>3
=============================================================================
