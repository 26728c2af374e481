------------------------------ MODULE Induction -----------------------------
(***************************************************************************)
(* Induction over the natural numbers with a set in the place of the       *)
(* predicate, and functions defined by recursion with a function in the    *)
(* place of the step: first-order forms that the provers can apply.        *)
(***************************************************************************)
EXTENDS Integers, NaturalsInduction, WellFoundedInduction, TLAPS

(* A set of natural numbers has a least element. *)
LEMMA LeastElement ==
  ASSUME NEW T \in SUBSET Nat, T # {}
  PROVE  \E x \in T : \A y \in T : x <= y
  <1> DEFINE R == {ss \in Nat \X Nat : ss[1] < ss[2]}
  <1>1. IsWellFoundedOn(R, Nat)
    BY NatLessThanWellFounded DEF OpToRel
  <1>2. PICK x \in T : \A y \in T : ~(<<y, x>> \in R)
    <2> HIDE DEF R
    <2> QED BY <1>1, WFMin
  <1>3. \A y \in T : ~(y < x)
    BY <1>2
  <1>4. QED
    BY <1>3

(* A set with 0 and with the successors of its elements is all of Nat. *)
LEMMA NatSetInduction ==
  ASSUME NEW P \in SUBSET Nat, 0 \in P, \A n \in P : n + 1 \in P
  PROVE  P = Nat
  <1>1. SUFFICES ASSUME P # Nat PROVE FALSE
    OBVIOUS
  <1>2. PICK x \in Nat \ P : \A y \in Nat \ P : x <= y
    <2>1. Nat \ P \in SUBSET Nat /\ Nat \ P # {}
      BY <1>1
    <2>2. QED
      BY <2>1, LeastElement
  <1>3. x # 0 /\ x - 1 \in Nat /\ x - 1 + 1 = x
    BY <1>2
  <1>4. x - 1 \in P
    BY <1>2, <1>3
  <1>5. QED
    BY <1>2, <1>3, <1>4

(* Repeating a step: for every start and every step there is the function  *)
(* of the results.                                                         *)
Iterate(f, S, base, step) ==
  /\ f \in [Nat -> S]
  /\ f[0] = base
  /\ \A k \in Nat : f[k + 1] = step[<<k, f[k]>>]

LEMMA Iterates ==
  ASSUME NEW S, NEW base \in S, NEW step \in [Nat \X S -> S]
  PROVE  \E f : Iterate(f, S, base, step)
  <1> DEFINE Upto(n) == {g \in [0 .. n -> S] : g[0] = base /\ \A k \in 0 .. n - 1 : g[k + 1] = step[<<k, g[k]>>]}
             P == {n \in Nat : \E g : g \in Upto(n)}
  <1>1. 0 \in P
    <2>1. [k \in 0 .. 0 |-> base] \in Upto(0)
      OBVIOUS
    <2>2. QED
      BY <2>1
  <1>2. \A n \in P : n + 1 \in P
    <2> SUFFICES ASSUME NEW n \in P PROVE n + 1 \in P
      OBVIOUS
    <2>1. PICK g : g \in Upto(n)
      OBVIOUS
    <2> DEFINE h == [k \in 0 .. n + 1 |-> IF k = n + 1 THEN step[<<n, g[n]>>] ELSE g[k]]
    <2>0. n \in Nat /\ g[n] \in S /\ step[<<n, g[n]>>] \in S
      BY <2>1
    <2>2. h \in [0 .. n + 1 -> S] /\ h[0] = base
      BY <2>0, <2>1
    <2>3. \A k \in 0 .. n : g[k] = h[k]
      BY <2>0
    <2>4. \A k \in 0 .. n : h[k + 1] = step[<<k, h[k]>>]
      <3> SUFFICES ASSUME NEW k \in 0 .. n PROVE h[k + 1] = step[<<k, h[k]>>]
        OBVIOUS
      <3>1. CASE k = n
        <4>1. h[n + 1] = step[<<n, g[n]>>]
          BY <2>0
        <4>2. g[n] = h[n]
          BY <2>0, <2>3
        <4> HIDE DEF h
        <4>3. QED
          BY <3>1, <4>1, <4>2
      <3>2. CASE k # n
        <4>1. k \in 0 .. n - 1 /\ k + 1 \in 0 .. n
          BY <2>0, <3>2
        <4>2. g[k + 1] = step[<<k, g[k]>>]
          BY <2>1, <4>1
        <4> HIDE DEF h
        <4>3. QED
          BY <2>3, <4>1, <4>2
      <3>3. QED
        BY <3>1, <3>2
    <2>5. h \in Upto(n + 1)
      <3> HIDE DEF h
      <3>1. n + 1 - 1 = n
        BY <2>0
      <3>2. QED
        BY <2>2, <2>4, <3>1
    <2>6. QED
      <3> HIDE DEF h, Upto
      <3> QED BY <2>0, <2>5
  <1>3. P = Nat
    <2> HIDE DEF P
    <2>1. P \in SUBSET Nat
      BY DEF P
    <2>2. QED
      BY <1>1, <1>2, <2>1, NatSetInduction
  <1>4. ASSUME NEW m \in Nat, NEW n \in Nat, m <= n, NEW g \in Upto(m), NEW h \in Upto(n)
        PROVE  \A k \in 0 .. m : g[k] = h[k]
    <2> DEFINE A == {k \in Nat : k <= m => g[k] = h[k]}
    <2>1. A \in SUBSET Nat /\ 0 \in A
      OBVIOUS
    <2>2. \A k \in A : k + 1 \in A
      <3> SUFFICES ASSUME NEW k \in A, k + 1 <= m PROVE g[k + 1] = h[k + 1]
        OBVIOUS
      <3>1. g[k] = h[k] /\ k \in 0 .. m - 1 /\ k \in 0 .. n - 1
        BY <1>4
      <3>2. QED
        BY <3>1, <1>4
    <2>3. A = Nat
      <3> HIDE DEF A
      <3> QED BY <2>1, <2>2, NatSetInduction
    <2>4. QED
      BY <2>3
  <1> DEFINE G(n) == CHOOSE g : g \in Upto(n)
             f == [n \in Nat |-> G(n)[n]]
  <1>5. \A n \in Nat : G(n) \in Upto(n)
    <2> HIDE DEF Upto
    <2> QED BY <1>3
  <1> HIDE DEF G
  <1>6. f \in [Nat -> S]
    BY <1>5
  <1>7. f[0] = base
    BY <1>5
  <1>8. \A n \in Nat : f[n + 1] = step[<<n, f[n]>>]
    <2> SUFFICES ASSUME NEW n \in Nat PROVE f[n + 1] = step[<<n, f[n]>>]
      OBVIOUS
    <2>1. G(n + 1)[n + 1] = step[<<n, G(n + 1)[n]>>]
      BY <1>5
    <2>2. G(n)[n] = G(n + 1)[n]
      <3>1. G(n) \in Upto(n) /\ G(n + 1) \in Upto(n + 1) /\ n + 1 \in Nat /\ n <= n + 1 /\ n \in 0 .. n
        BY <1>5
      <3> HIDE DEF Upto
      <3> QED BY <3>1, <1>4
    <2>3. QED
      BY <2>1, <2>2
  <1>9. QED
    BY <1>6, <1>7, <1>8 DEF Iterate
(* The same for n steps, as a recursive function over 0 .. n. *)
IterateUpTo(g, n, S, base, step) ==
  /\ g \in [0 .. n -> S]
  /\ g = [k \in 0 .. n |-> IF k = 0 THEN base ELSE step[<<k, g[k - 1]>>]]

LEMMA IteratesUpTo ==
  ASSUME NEW n \in Nat, NEW S, NEW base \in S, NEW step \in [(1 .. n) \X S -> S]
  PROVE  \E g : IterateUpTo(g, n, S, base, step)
  <1> DEFINE all == [x \in Nat \X S |-> IF x[1] + 1 \in 1 .. n THEN step[<<x[1] + 1, x[2]>>] ELSE x[2]]
  <1>1. all \in [Nat \X S -> S]
    <2> SUFFICES ASSUME NEW k \in Nat, NEW s \in S
                 PROVE  (IF k + 1 \in 1 .. n THEN step[<<k + 1, s>>] ELSE s) \in S
      OBVIOUS
    <2> QED OBVIOUS
  <1>2. PICK f : Iterate(f, S, base, all)
    <2> HIDE DEF all
    <2> QED BY <1>1, Iterates
  <1> DEFINE g == [k \in 0 .. n |-> f[k]]
  <1>3. g \in [0 .. n -> S]
    BY <1>2 DEF Iterate
  <1>4. ASSUME NEW k \in 0 .. n
        PROVE  g[k] = IF k = 0 THEN base ELSE step[<<k, g[k - 1]>>]
    <2>1. CASE k = 0
      BY <1>2, <2>1 DEF Iterate
    <2>2. CASE k # 0
      <3>1. k - 1 \in Nat /\ k - 1 + 1 = k /\ k \in 1 .. n /\ g[k] = f[k] /\ g[k - 1] = f[k - 1]
        BY <2>2
      <3>2. f[k] = all[<<k - 1, f[k - 1]>>]
        <4> HIDE DEF all
        <4> QED BY <1>2, <3>1 DEF Iterate
      <3>3. all[<<k - 1, f[k - 1]>>] = step[<<k, f[k - 1]>>]
        <4>1. f[k - 1] \in S
          BY <1>2, <3>1 DEF Iterate
        <4>2. QED
          BY <3>1, <4>1
      <3> HIDE DEF g, all
      <3>4. QED
        BY <2>2, <3>1, <3>2, <3>3
    <2>3. QED
      BY <2>1, <2>2
  <1>5. g = [k \in 0 .. n |-> IF k = 0 THEN base ELSE step[<<k, g[k - 1]>>]]
    <2> HIDE DEF g
    <2> QED BY <1>3, <1>4
  <1>6. QED
    BY <1>3, <1>5 DEF IterateUpTo
=============================================================================
