------------------------------ MODULE Induction ------------------------------
(***************************************************************************)
(* Induction over the natural numbers, stated for sets, and what follows    *)
(* from it for a loop: a computation that goes from each state of a set to  *)
(* a state of the set exists, step by step.                                 *)
(***************************************************************************)
EXTENDS Integers, WellFoundedInduction, TLAPS

(* A set of numbers with 0 and the successor of each member has them all.   *)
LEMMA AllNaturals ==
  ASSUME NEW S \in SUBSET Nat, 0 \in S, \A n \in S : n + 1 \in S
  PROVE  S = Nat
<1> DEFINE T == Nat \ S
<1> SUFFICES ASSUME T # {} PROVE FALSE
  OBVIOUS
<1>1. PICK x \in T : \A y \in T : ~(<<y, x>> \in OpToRel(<, Nat))
  <2>1. T \subseteq Nat
    OBVIOUS
  <2> HIDE DEF T
  <2> QED
    BY <2>1, WFMin, NatLessThanWellFounded
<1>2. \A y \in T : ~(y < x)
  BY <1>1 DEF OpToRel
<1>3. x \in Nat /\ x # 0
  OBVIOUS
<1>4. x - 1 \in S
  BY <1>2, <1>3
<1> QED
  BY <1>3, <1>4

(* A set of numbers that has a member has a least one.                      *)
LEMMA LeastMember ==
  ASSUME NEW I \in SUBSET Nat, NEW m \in I
  PROVE  \E k \in I : \A i \in I : k <= i
<1>1. PICK x \in I : \A y \in I : ~(<<y, x>> \in OpToRel(<, Nat))
  BY WFMin, NatLessThanWellFounded
<1>2. \A y \in I : ~(y < x)
  BY <1>1 DEF OpToRel
<1> QED
  BY <1>2

(* The same up to a bound.                                                  *)
LEMMA UpTo ==
  ASSUME NEW n \in Nat, NEW S, 0 \in S, \A i \in 0..(n - 1) : i \in S => i + 1 \in S
  PROVE  0..n \subseteq S
<1> DEFINE T == {i \in Nat : i <= n => i \in S}
<1>1. 0 \in T
  OBVIOUS
<1>2. ASSUME NEW i \in T PROVE i + 1 \in T
  <2>1. CASE i + 1 <= n
    BY <1>2, <2>1
  <2>2. CASE ~(i + 1 <= n)
    BY <1>2, <2>2
  <2> QED
    BY <2>1, <2>2
<1>3. T \in SUBSET Nat
  OBVIOUS
<1>4. T = Nat
  <2> HIDE DEF T
  <2> QED
    BY <1>1, <1>2, <1>3, AllNaturals
<1> QED
  BY <1>4

(* Go[<<i, a>>] is what turn i of a loop of n turns makes of state a, and   *)
(* f[i] the state after turn i when it starts in a0.                        *)
IsLoop(Go, n, A) == Go \in [(1..n) \X A -> A]
IsRun(f, Go, n, A, a0) ==
  f \in [0..n -> A] /\ f[0] = a0 /\ \A i \in 1..n : f[i] = Go[<<i, f[i - 1]>>]

LEMMA LoopRuns ==
  ASSUME NEW n \in Nat, NEW A, NEW a0 \in A, NEW Go, IsLoop(Go, n, A)
  PROVE  \E f : IsRun(f, Go, n, A, a0)
<1> USE DEF IsLoop
<1> DEFINE Runs(k, f) == f[0] = a0 /\ \A i \in 1..k : f[i] = Go[<<i, f[i - 1]>>]
           S == {k \in 0..n : \E f \in [0..k -> A] : Runs(k, f)}
<1>1. 0 \in S
  <2> DEFINE h == [i \in 0..0 |-> a0]
  <2>1. h \in [0..0 -> A] /\ h[0] = a0 /\ \A i \in 1..0 : FALSE
    OBVIOUS
  <2> HIDE DEF h
  <2>2. Runs(0, h)
    BY <2>1
  <2> QED
    BY <2>1, <2>2
<1>2. ASSUME NEW k \in 0..(n - 1), k \in S PROVE k + 1 \in S
  <2>1. PICK f \in [0..k -> A] : Runs(k, f)
    BY <1>2
  <2> DEFINE h == [i \in 0..(k + 1) |-> IF i = k + 1 THEN Go[<<i, f[k]>>] ELSE f[i]]
  <2>0. k \in Nat /\ k + 1 \in 1..n /\ k + 1 \in 0..n
    OBVIOUS
  <2>2. h \in [0..(k + 1) -> A]
    <3>1. f[k] \in A
      BY <2>0
    <3>2. Go[<<k + 1, f[k]>>] \in A
      BY <2>0, <3>1
    <3> QED
      BY <2>0, <3>2
  <2>3. h[0] = a0
    BY <2>0, <2>1
  <2>4. ASSUME NEW i \in 1..(k + 1) PROVE h[i] = Go[<<i, h[i - 1]>>]
    <3>1. i \in 0..(k + 1) /\ i - 1 \in 0..(k + 1) /\ i - 1 # k + 1
      BY <2>0
    <3>2. CASE i = k + 1
      <4>1. i - 1 = k /\ k \in 0..(k + 1) /\ k # k + 1
        BY <2>0, <3>2
      <4> QED
        BY <3>1, <3>2, <4>1
    <3>3. CASE i # k + 1
      <4>1. i \in 1..k /\ h[i] = f[i] /\ h[i - 1] = f[i - 1]
        BY <2>0, <3>1, <3>3
      <4> QED
        BY <2>1, <4>1
    <3> QED
      BY <3>2, <3>3
  <2>5. Runs(k + 1, h)
    BY <2>3, <2>4
  <2> HIDE DEF h, Runs
  <2> QED
    BY <2>0, <2>2, <2>5
<1>3. 0..n \subseteq S
  <2> HIDE DEF S
  <2> QED
    BY <1>1, <1>2, UpTo
<1>4. PICK f \in [0..n -> A] : Runs(n, f)
  BY <1>3
<1>5. IsRun(f, Go, n, A, a0)
  BY <1>4 DEF IsRun
<1> QED
  BY <1>5
=============================================================================
