------------------------------ MODULE Recursion ------------------------------
(* What is defined by recursion on the naturals: such a function exists,   *)
(* and what holds of every natural is proved by its least exception.       *)
EXTENDS Integers, WellFoundedInduction, TLAPS

(* A set of naturals has a least element, unless it is empty. *)
LEMMA LeastNatural ==
  ASSUME NEW T \in SUBSET Nat, T # {} PROVE \E x \in T : \A y \in T : x <= y
<1> DEFINE R == {p \in Nat \X Nat : p[1] < p[2]}
<1>1. IsWellFoundedOn(R, Nat)
  BY NatLessThanWellFounded DEF OpToRel
<1>2. T \subseteq Nat
  OBVIOUS
<1>3. \A x, y \in Nat : <<y, x>> \notin R => x <= y
  OBVIOUS
<1> HIDE DEF R
<1>4. \E x \in T : \A y \in T : <<y, x>> \notin R
  BY <1>1, <1>2, WFMin, Zenon
<1> QED
  BY <1>2, <1>3, <1>4

(* A set with zero and all successors of its members has all the naturals. *)
LEMMA Induction ==
  ASSUME NEW T, 0 \in T, \A n \in Nat : n \in T => n + 1 \in T
  PROVE  Nat \subseteq T
<1> SUFFICES ASSUME Nat \ T # {} PROVE FALSE
  OBVIOUS
<1>1. PICK x \in Nat \ T : \A y \in Nat \ T : x <= y
  BY LeastNatural
<1>2. x - 1 \in Nat /\ x - 1 \in T
  BY <1>1
<1> QED
  BY <1>1, <1>2

(* g is the beginning of a function that starts with base and goes on as   *)
(* step says, up to n.                                                     *)
Begins(g, n, base, step) ==
  /\ DOMAIN g = 0 .. n
  /\ g[0] = base
  /\ \A k \in 0 .. n - 1 : g[k + 1] = step[<<k, g[k]>>]

LEMMA BeginningExists ==
  ASSUME NEW base, NEW step PROVE \A n \in Nat : \E g : Begins(g, n, base, step)
<1> DEFINE T == {n \in Nat : \E g : Begins(g, n, base, step)}
<1>1. 0 \in T
  <2>1. Begins([k \in 0 .. 0 |-> base], 0, base, step)
    BY DEF Begins
  <2> QED
    BY <2>1
<1>2. ASSUME NEW n \in Nat, n \in T PROVE n + 1 \in T
  <2>1. PICK g : Begins(g, n, base, step)
    BY <1>2
  <2> DEFINE h == [k \in 0 .. n + 1 |-> IF k = n + 1 THEN step[<<n, g[n]>>] ELSE g[k]]
  <2>2. h[0] = base
    BY <2>1 DEF Begins
  <2>3. ASSUME NEW k \in 0 .. (n + 1) - 1 PROVE h[k + 1] = step[<<k, h[k]>>]
    <3>1. k \in 0 .. n /\ k + 1 \in 0 .. n + 1 /\ h[k] = g[k]
      OBVIOUS
    <3>2. CASE k = n
      BY <3>1, <3>2
    <3>3. CASE k # n
      <4>1. k \in 0 .. n - 1 /\ k + 1 # n + 1
        BY <3>3
      <4>2. h[k + 1] = g[k + 1]
        BY <3>1, <4>1
      <4> QED
        BY <2>1, <3>1, <4>1, <4>2 DEF Begins
    <3> QED
      BY <3>2, <3>3
  <2>4. DOMAIN h = 0 .. n + 1
    OBVIOUS
  <2> HIDE DEF h
  <2>5. Begins(h, n + 1, base, step)
    BY <2>2, <2>3, <2>4 DEF Begins
  <2> QED
    BY <2>5
<1> HIDE DEF T
<1>3. Nat \subseteq T
  BY <1>1, <1>2, Induction
<1> QED
  BY <1>3 DEF T

LEMMA BeginningsAgree ==
  ASSUME NEW base, NEW step, NEW n \in Nat, NEW m \in n .. n + 1, NEW g, NEW h,
         Begins(g, n, base, step), Begins(h, m, base, step)
  PROVE  g[n] = h[n]
<1> DEFINE T == {k \in Nat : k <= n => g[k] = h[k]}
<1>1. 0 \in T
  BY DEF Begins
<1>2. ASSUME NEW k \in Nat, k \in T PROVE k + 1 \in T
  <2> SUFFICES ASSUME k + 1 <= n PROVE g[k + 1] = h[k + 1]
    OBVIOUS
  <2>1. k \in 0 .. n - 1 /\ k \in 0 .. m - 1 /\ g[k] = h[k]
    BY <1>2
  <2> QED
    BY <2>1 DEF Begins
<1> HIDE DEF T
<1>3. Nat \subseteq T
  BY <1>1, <1>2, Induction
<1> QED
  BY <1>3 DEF T

(* f is such a function, and all its values are in S. *)
Follows(f, S, base, step) ==
  /\ f \in [Nat -> S]
  /\ f[0] = base
  /\ \A n \in Nat : f[n + 1] = step[<<n, f[n]>>]

Step(S) == [Nat \X S -> S]

(* There is a function that starts with base and goes on as step says.     *)
LEMMA RecursiveFunction ==
  ASSUME NEW S, NEW base \in S, NEW step \in Step(S)
  PROVE  \E f : Follows(f, S, base, step)
<1> USE DEF Step
<1> DEFINE G(n) == CHOOSE g : Begins(g, n, base, step)
           F == [n \in Nat |-> G(n)[n]]
           T == {n \in Nat : F[n] \in S}
<1>1. \A n \in Nat : Begins(G(n), n, base, step)
  BY BeginningExists, Zenon
<1> HIDE DEF G
<1>2. F[0] = base
  BY <1>1 DEF Begins
<1>3. ASSUME NEW n \in Nat PROVE F[n + 1] = step[<<n, F[n]>>]
  <2>1. G(n + 1)[n + 1] = step[<<n, G(n + 1)[n]>>]
    BY <1>1 DEF Begins
  <2>2. G(n)[n] = G(n + 1)[n]
    <3>1. n + 1 \in n .. n + 1 /\ n + 1 \in Nat
      OBVIOUS
    <3> QED
      BY <1>1, <3>1, BeginningsAgree
  <2> QED
    BY <2>1, <2>2
<1>4. F = [n \in Nat |-> F[n]]
  OBVIOUS
<1> HIDE DEF F
<1>5. 0 \in T
  BY <1>2
<1>6. ASSUME NEW n \in Nat, n \in T PROVE n + 1 \in T
  <2>1. <<n, F[n]>> \in Nat \X S
    BY <1>6
  <2>2. F[n + 1] \in S
    BY <1>3, <2>1
  <2> QED
    BY <2>2
<1> HIDE DEF T
<1>7. Nat \subseteq T
  BY <1>5, <1>6, Induction
<1>8. \A n \in Nat : F[n] \in S
  BY <1>7 DEF T
<1>9. F \in [Nat -> S]
  BY <1>4, <1>8
<1> QED
  BY <1>2, <1>3, <1>9 DEF Follows
=============================================================================
