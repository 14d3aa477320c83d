---------------------------- MODULE DataInduction ----------------------------
(***************************************************************************)
(* Induction over the natural numbers, with a set in the place of a        *)
(* predicate: it follows from the well-foundedness of < on Nat alone, so   *)
(* first-order provers can use it.  What a recursive function makes of a   *)
(* sequence of any length is proved with it.                               *)
(***************************************************************************)
EXTENDS Integers, WellFoundedInduction, TLAPS

\* A set of natural numbers that is not empty has a least element.
LEMMA LeastElement ==
  ASSUME NEW T \in SUBSET Nat, T # {}
  PROVE  \E n \in T : \A m \in T : n <= m
<1>1. PICK x \in T : \A y \in T : ~(<<y, x>> \in OpToRel(<, Nat))
  BY NatLessThanWellFounded, WFMin
<1>2. \A y \in T : ~(y < x)
  BY <1>1 DEF OpToRel
<1> QED BY <1>2

\* What holds at 0, and at every number up to n if it holds at the one before, holds up to n.
LEMMA InductionTo ==
  ASSUME NEW n \in Nat, NEW S, 0 \in S, \A i \in 1 .. n : i - 1 \in S => i \in S
  PROVE  \A i \in 0 .. n : i \in S
<1> DEFINE T == {i \in 0 .. n : i \notin S}
<1> SUFFICES ASSUME T # {} PROVE FALSE
  OBVIOUS
<1>1. T \in SUBSET Nat /\ T # {}
  OBVIOUS
<1>2. PICK i \in T : \A m \in T : i <= m
  <2> HIDE DEF T
  <2> QED BY <1>1, LeastElement
<1>3. i \in 1 .. n /\ i - 1 \notin T
  BY <1>2
<1> QED BY <1>2, <1>3

\* The functions on 0 .. n, with values in V, that begin with v and go on with the given steps.
Steps(n, V) == [1 .. n -> [V -> V]]
Solutions(n, V, v, step) ==
  {f \in [0 .. n -> V] : f[0] = v /\ \A i \in 1 .. n : f[i] = step[i][f[i - 1]]}

\* A recursion over 1 .. n that stays in a set V has a solution.
LEMMA RecursionTo ==
  ASSUME NEW n \in Nat, NEW V, NEW v \in V, NEW step \in Steps(n, V)
  PROVE  \E f : f \in Solutions(n, V, v, step)
<1> USE DEF Steps
<1> DEFINE Solves(f, m) == f[0] = v /\ \A i \in 1 .. m : f[i] = step[i][f[i - 1]]
           S == {m \in 0 .. n : \E f \in [0 .. m -> V] : Solves(f, m)}
<1>1. 0 \in S
  <2> DEFINE f == [i \in 0 .. 0 |-> v]
  <2>1. f \in [0 .. 0 -> V] /\ Solves(f, 0) /\ 0 \in 0 .. n
    OBVIOUS
  <2> QED BY <2>1
<1>2. ASSUME NEW m \in 1 .. n, m - 1 \in S PROVE m \in S
  <2>1. PICK f \in [0 .. m - 1 -> V] : Solves(f, m - 1)
    BY <1>2
  <2> DEFINE e == [i \in 0 .. m |-> IF i = m THEN step[m][f[m - 1]] ELSE f[i]]
  <2>2. e \in [0 .. m -> V]
    <3>1. m - 1 \in 0 .. m - 1
      OBVIOUS
    <3>2. f[m - 1] \in V
      BY <3>1
    <3>3. step[m][f[m - 1]] \in V
      BY <3>2
    <3> QED BY <3>3
  <2>3. e[0] = v
    BY <2>1
  <2>4. ASSUME NEW i \in 1 .. m PROVE e[i] = step[i][e[i - 1]]
    <3>1. CASE i = m
      <4>1. m - 1 \in 0 .. m /\ m - 1 # m /\ m \in 0 .. m
        OBVIOUS
      <4>2. e[m - 1] = f[m - 1] /\ e[m] = step[m][f[m - 1]]
        BY <4>1
      <4> HIDE DEF e
      <4> QED BY <3>1, <4>2
    <3>2. CASE i # m
      <4>1. i \in 1 .. m - 1 /\ e[i] = f[i] /\ e[i - 1] = f[i - 1]
        BY <3>2
      <4> HIDE DEF e
      <4> QED BY <2>1, <4>1
    <3> QED BY <3>1, <3>2
  <2> HIDE DEF e
  <2>5. Solves(e, m)
    BY <2>3, <2>4
  <2> HIDE DEF Solves
  <2>6. \E g \in [0 .. m -> V] : Solves(g, m)
    BY <2>2, <2>5
  <2>7. m \in 0 .. n
    OBVIOUS
  <2> QED BY <2>6, <2>7
<1> HIDE DEF S
<1>3. \A m \in 0 .. n : m \in S
  BY <1>1, <1>2, InductionTo
<1>4. n \in S
  BY <1>3
<1> QED BY <1>4 DEF S, Solutions
=============================================================================
