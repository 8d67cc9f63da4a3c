------------------------------ MODULE Induction ------------------------------
(***************************************************************************)
(* Induction over the natural numbers in a form that names sets instead of *)
(* predicates, and what follows from it for functions defined by           *)
(* recursion: the definition of such a function is a choice, and it        *)
(* satisfies its equation only if some function does.                      *)
(***************************************************************************)
EXTENDS Integers, Sequences, WellFoundedInduction, TLAPS

\* A set that holds zero and is closed under successor is Nat.
LEMMA SetInduction ==
  ASSUME NEW T \in SUBSET Nat, 0 \in T, \A n \in T : n + 1 \in T
  PROVE  T = Nat
<1> DEFINE R == {ss \in Nat \X Nat : ss[1] < ss[2]}
<1>1. IsWellFoundedOn(R, Nat)
  BY NatLessThanWellFounded, SMT DEF OpToRel
<1>2. SUFFICES ASSUME Nat \ T # {} PROVE FALSE
  OBVIOUS
<1> HIDE DEF R
<1>3. PICK x \in Nat \ T : \A y \in Nat \ T : ~(<<y, x>> \in R)
  BY <1>1, <1>2, WFMin
<1>4. x - 1 \in T
  <2>1. x # 0 /\ x \in Nat
    BY <1>3
  <2>2. x - 1 \in Nat /\ x - 1 < x
    BY <2>1
  <2>3. <<x - 1, x>> \in R
    BY <2>1, <2>2 DEF R
  <2> QED
    BY <1>3, <2>2, <2>3
<1> QED
  BY <1>3, <1>4

\* The same up to a bound.
LEMMA BoundedInduction ==
  ASSUME NEW N \in Nat, NEW T, 0 \in T, \A n \in 0 .. N - 1 : n \in T => n + 1 \in T
  PROVE  0 .. N \subseteq T
<1> DEFINE U == {n \in Nat : n <= N => n \in T}
<1>1. 0 \in U
  OBVIOUS
<1>2. ASSUME NEW n \in U PROVE n + 1 \in U
  OBVIOUS
<1>3. U \in SUBSET Nat
  OBVIOUS
<1> HIDE DEF U
<1>4. U = Nat
  BY <1>1, <1>2, <1>3, SetInduction
<1> QED
  BY <1>4 DEF U

\* What computes the next value of a function, and a function that follows it.
StepFunctions(S, N) == [S \X (1 .. N) -> S]

Follows(f, start, step, N) ==
  f[0] = start /\ \A i \in 1 .. N : f[i] = step[<<f[i - 1], i>>]

\* Whatever is given for the next value, there is a function that follows it.
LEMMA RecursionExists ==
  ASSUME NEW N \in Nat, NEW S, NEW start \in S, NEW step \in StepFunctions(S, N)
  PROVE  \E f \in [0 .. N -> S] : Follows(f, start, step, N)
<1> USE DEF StepFunctions, Follows
<1> DEFINE T == {n \in 0 .. N : \E f \in [0 .. N -> S] : Follows(f, start, step, n)}
<1>1. 0 \in T
  <2> DEFINE f == [i \in 0 .. N |-> start]
  <2>1. f \in [0 .. N -> S] /\ f[0] = start
    OBVIOUS
  <2> HIDE DEF f
  <2> QED
    BY <2>1
<1>2. ASSUME NEW n \in 0 .. N - 1, n \in T PROVE n + 1 \in T
  <2>1. PICK f \in [0 .. N -> S] : Follows(f, start, step, n)
    BY <1>2
  <2> DEFINE g == [f EXCEPT ![n + 1] = step[<<f[n], n + 1>>]]
  <2>2. step[<<f[n], n + 1>>] \in S
    OBVIOUS
  <2>3. g \in [0 .. N -> S] /\ g[n + 1] = step[<<f[n], n + 1>>]
    BY <2>2
  <2>4. \A i \in 0 .. n : g[i] = f[i]
    OBVIOUS
  <2> HIDE DEF g
  <2>5. g[0] = start
    BY <2>1, <2>4
  <2>6. ASSUME NEW i \in 1 .. n + 1 PROVE g[i] = step[<<g[i - 1], i>>]
    <3>1. CASE i = n + 1
      <4>1. g[i - 1] = f[n]
        BY <2>4, <3>1
      <4> QED
        BY <2>3, <3>1, <4>1
    <3>2. CASE i # n + 1
      <4>1. i \in 1 .. n /\ i \in 0 .. n /\ i - 1 \in 0 .. n
        BY <2>6, <3>2
      <4>2. f[i] = step[<<f[i - 1], i>>]
        BY <2>1, <4>1
      <4>3. g[i] = f[i] /\ g[i - 1] = f[i - 1]
        BY <2>4, <4>1
      <4> QED
        BY <4>2, <4>3
    <3> QED
      BY <3>1, <3>2
  <2>7. Follows(g, start, step, n + 1)
    BY <2>5, <2>6
  <2> HIDE DEF Follows
  <2>8. \E h \in [0 .. N -> S] : Follows(h, start, step, n + 1)
    BY <2>3, <2>7
  <2>9. n + 1 \in 0 .. N
    OBVIOUS
  <2> QED
    BY <2>8, <2>9
<1> HIDE DEF T, Follows
<1>3. 0 .. N \subseteq T
  BY <1>1, <1>2, BoundedInduction
<1>4. N \in 0 .. N
  OBVIOUS
<1> QED
  BY <1>3, <1>4 DEF T

=============================================================================
