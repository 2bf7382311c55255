------------------------------ MODULE Recursion ------------------------------
(***************************************************************************)
(* A function that is defined by recursion exists when every argument leads *)
(* to one with a smaller measure.  The library states this of definitions  *)
(* given as operators; here step, combination and measure are functions,   *)
(* so that the theorem can be applied by naming them.                      *)
(***************************************************************************)
EXTENDS Integers, WellFoundedInduction, TLAPS

(* A non-empty set of natural numbers has a smallest member.  This is also how
   an induction is done: the set is that of the counterexamples. *)
LEMMA LeastNumber ==
  ASSUME NEW T \in SUBSET Nat, T # {}
  PROVE  \E n \in T : \A k \in T : n <= k
<1>1. PICK x \in T : \A y \in T : ~ (<<y, x>> \in OpToRel(<, Nat))
  BY WFMin, NatLessThanWellFounded
<1>2. \A y \in T : ~ (y < x)
  BY <1>1, Zenon DEF OpToRel
<1> QED
  BY <1>2

(* Of each x in S the function answers Ground[x], or else what Up makes of x and of
   the answer of Down[x]. *)
Recursive(f, S, End, Ground, Up, Down) ==
    f = [x \in S |-> IF x \in End THEN Ground[x] ELSE Up[<<x, f[Down[x]]>>]]

(* f obeys the definition wherever the measure is below n. *)
Obeys(f, n, S, End, Ground, Up, Down, Size) ==
    \A x \in S : Size[x] < n =>
        f[x] = IF x \in End THEN Ground[x] ELSE Up[<<x, f[Down[x]]>>]

LEMMA ObeyAgree ==
  ASSUME NEW S, NEW End, NEW Ground, NEW Up, NEW Down, NEW Size \in [S -> Nat],
         \A x \in S \ End : Down[x] \in S /\ Size[Down[x]] < Size[x],
         NEW f, NEW g, NEW n \in Nat, NEW m \in Nat,
         Obeys(f, n, S, End, Ground, Up, Down, Size),
         Obeys(g, m, S, End, Ground, Up, Down, Size)
  PROVE  \A x \in S : Size[x] < n /\ Size[x] < m => f[x] = g[x]
<1> DEFINE Bad == {x \in S : Size[x] < n /\ Size[x] < m /\ f[x] # g[x]}
           Sizes == {Size[x] : x \in Bad}
<1> SUFFICES ASSUME Bad # {} PROVE FALSE
  OBVIOUS
<1>1. Sizes \in SUBSET Nat /\ Sizes # {}
  OBVIOUS
<1>2. PICK k \in Sizes : \A j \in Sizes : k <= j
  BY <1>1, LeastNumber
<1>3. PICK x \in Bad : Size[x] = k
  BY <1>2
<1>4. x \notin End
  BY <1>3 DEF Obeys
<1>5. Down[x] \in S /\ Size[Down[x]] < Size[x] /\ Size[Down[x]] \in Nat
  BY <1>4
<1>6. Down[x] \notin Bad
  <2> SUFFICES ASSUME Down[x] \in Bad PROVE FALSE
    OBVIOUS
  <2>1. Size[Down[x]] \in Sizes
    OBVIOUS
  <2> QED
    BY <2>1, <1>1, <1>2, <1>3, <1>5
<1>7. f[Down[x]] = g[Down[x]]
  BY <1>5, <1>6, <1>3
<1>8. f[x] = Up[<<x, f[Down[x]]>>] /\ g[x] = Up[<<x, g[Down[x]]>>]
  BY <1>4 DEF Obeys
<1> QED
  BY <1>7, <1>8

LEMMA ObeyExists ==
  ASSUME NEW S, NEW R, NEW End, NEW Ground \in [S -> R], NEW Up \in [S \X R -> R], NEW Down,
         NEW Size \in [S -> Nat],
         \A x \in S \ End : Down[x] \in S /\ Size[Down[x]] < Size[x]
  PROVE  \A n \in Nat : \E f \in [S -> R] : Obeys(f, n, S, End, Ground, Up, Down, Size)
<1> DEFINE Good(f, n) == Obeys(f, n, S, End, Ground, Up, Down, Size)
           Bad == {n \in Nat : ~ \E f \in [S -> R] : Good(f, n)}
<1> SUFFICES ASSUME Bad # {} PROVE FALSE
  OBVIOUS
<1>1. PICK n \in Bad : \A j \in Bad : n <= j
  BY LeastNumber
<1>2. Good(Ground, 0)
  BY DEF Obeys
<1>3. n > 0
  BY <1>2
<1>4. n - 1 \in Nat /\ n - 1 \notin Bad
  BY <1>1, <1>3
<1>5. PICK f \in [S -> R] : Good(f, n - 1)
  BY <1>4
<1> DEFINE g == [x \in S |-> IF Size[x] < n - 1 THEN f[x]
                             ELSE IF x \in End THEN Ground[x] ELSE Up[<<x, f[Down[x]]>>]]
<1>6. g \in [S -> R]
  <2> SUFFICES ASSUME NEW x \in S PROVE g[x] \in R
    OBVIOUS
  <2>1. x \notin End => Up[<<x, f[Down[x]]>>] \in R
    OBVIOUS
  <2> QED
    BY <2>1
<1>7. Good(g, n)
  <2> SUFFICES ASSUME NEW x \in S, Size[x] < n
               PROVE  g[x] = IF x \in End THEN Ground[x] ELSE Up[<<x, g[Down[x]]>>]
    BY DEF Obeys
  <2>1. g[x] = IF x \in End THEN Ground[x] ELSE Up[<<x, f[Down[x]]>>]
    BY <1>5 DEF Obeys
  <2>2. x \notin End => g[Down[x]] = f[Down[x]]
    <3> SUFFICES ASSUME x \notin End PROVE g[Down[x]] = f[Down[x]]
      OBVIOUS
    <3>1. Down[x] \in S /\ Size[Down[x]] \in Nat /\ Size[x] \in Nat /\ Size[Down[x]] < n - 1
      OBVIOUS
    <3> QED
      BY <3>1
  <2> QED
    BY <2>1, <2>2
<1> QED
  BY <1>6, <1>7

(* A definition by recursion, written as its four parts, has a function that obeys it
   everywhere: of each n the functions that obey it below n agree, and one of them is
   picked for each argument. *)
LEMMA RecursionExists ==
  ASSUME NEW S, NEW R, NEW End, NEW Ground \in [S -> R], NEW Up \in [S \X R -> R], NEW Down,
         NEW Size \in [S -> Nat],
         \A x \in S \ End : Down[x] \in S /\ Size[Down[x]] < Size[x]
  PROVE  \E f \in [S -> R] : Recursive(f, S, End, Ground, Up, Down)
<1> DEFINE Good(f, n) == Obeys(f, n, S, End, Ground, Up, Down, Size)
           pick == [n \in Nat |-> CHOOSE f \in [S -> R] : Good(f, n)]
           F == [x \in S |-> pick[Size[x] + 1][x]]
<1>1. \A n \in Nat : pick[n] \in [S -> R] /\ Good(pick[n], n)
  <2> TAKE n \in Nat
  <2>1. \E f \in [S -> R] : Good(f, n)
    BY ObeyExists
  <2> HIDE DEF Good
  <2> QED
    BY <2>1
<1> HIDE DEF pick
<1>2. F \in [S -> R]
  <2> SUFFICES ASSUME NEW x \in S PROVE pick[Size[x] + 1][x] \in R
    OBVIOUS
  <2>1. Size[x] + 1 \in Nat
    OBVIOUS
  <2> QED
    BY <2>1, <1>1
<1>3. ASSUME NEW x \in S
      PROVE  F[x] = IF x \in End THEN Ground[x] ELSE Up[<<x, F[Down[x]]>>]
  <2> DEFINE n == Size[x] + 1
  <2>1. n \in Nat /\ Size[x] < n
    OBVIOUS
  <2>2. F[x] = IF x \in End THEN Ground[x] ELSE Up[<<x, pick[n][Down[x]]>>]
    BY <2>1, <1>1 DEF Obeys
  <2>3. ASSUME x \notin End PROVE pick[n][Down[x]] = F[Down[x]]
    <3> DEFINE y == Down[x]
    <3>1. y \in S /\ Size[y] \in Nat /\ Size[y] < Size[x] /\ Size[y] + 1 \in Nat
      BY <2>3
    <3>2. Good(pick[n], n) /\ Good(pick[Size[y] + 1], Size[y] + 1)
      BY <2>1, <3>1, <1>1
    <3> DEFINE k == Size[y] + 1
               f == pick[n]
               g == pick[k]
    <3>3. Good(f, n) /\ Good(g, k) /\ n \in Nat /\ k \in Nat /\ y \in S /\ Size[y] < n /\ Size[y] < k
      BY <2>1, <3>1, <3>2
    <3>4. f[y] = g[y]
      <4> HIDE DEF f, g, n, k, y
      <4> QED
        BY <3>3, ObeyAgree
    <3> QED
      BY <3>1, <3>4
  <2> QED
    BY <2>2, <2>3
<1>4. Recursive(F, S, End, Ground, Up, Down)
  BY <1>3 DEF Recursive
<1> QED
  BY <1>2, <1>4
=============================================================================
