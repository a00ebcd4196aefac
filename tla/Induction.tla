----------------------------- MODULE Induction -----------------------------
(***************************************************************************)
(* Induction over the natural numbers, and functions defined by recursion. *)
(*                                                                         *)
(* The library's rules take an operator, which no prover can instantiate;  *)
(* these are the same over a set and over functions, from the              *)
(* well-foundedness of < on Nat.                                           *)
(***************************************************************************)
EXTENDS Integers, WellFoundedInduction, TLAPS

(* From all smaller numbers to each.                                       *)
LEMMA BelowInduction ==
    ASSUME NEW S,
           \A n \in Nat : (\A m \in Nat : m < n => m \in S) => n \in S
    PROVE  Nat \subseteq S
  <1> SUFFICES ASSUME Nat \ S # {} PROVE FALSE
    OBVIOUS
  <1> DEFINE Less == OpToRel(<, Nat)
  <1>1. IsWellFoundedOn(Less, Nat)
    BY NatLessThanWellFounded
  <1> HIDE DEF Less
  <1>2. PICK x \in Nat \ S : \A y \in Nat \ S : <<y, x>> \notin Less
    BY <1>1, WFMin
  <1>3. \A m \in Nat : m < x => <<m, x>> \in Less
    BY <1>2 DEF OpToRel, Less
  <1>4. \A m \in Nat : m < x => m \in S
    BY <1>2, <1>3
  <1> QED
    BY <1>2, <1>4

(* From each number to the next. *)
LEMMA NextInduction ==
    ASSUME NEW S, 0 \in S, \A n \in Nat : n \in S => n + 1 \in S
    PROVE  Nat \subseteq S
  <1>1. ASSUME NEW n \in Nat, \A m \in Nat : m < n => m \in S
        PROVE  n \in S
    <2>1. CASE n = 0
      BY <2>1
    <2>2. CASE n # 0
      <3>1. n - 1 \in Nat /\ n - 1 < n /\ (n - 1) + 1 = n
        BY <2>2
      <3>2. n - 1 \in S
        BY <1>1, <3>1
      <3>3. (n - 1) + 1 \in S
        BY <3>1, <3>2
      <3> QED BY <3>1, <3>3
    <2> QED BY <2>1, <2>2
  <1> QED BY <1>1, BelowInduction

(* What step says of x depends on the values at lower ranks alone.         *)
DependsBelow(step, rank, D, R) == \A x \in D : \A f, g \in [D -> R] :
    (\A y \in D : rank[y] < rank[x] => f[y] = g[y]) => step[x][f] = step[x][g]

StepsOn(D, R) == [D -> [[D -> R] -> R]]

Solvable(step, D, R) == \E f \in [D -> R] : \A x \in D : f[x] = step[x][f]

(* Such a recursion has a solution. *)
LEMMA Recursion ==
    ASSUME NEW D, NEW R, NEW start \in R,
           NEW bound \in Nat, NEW rank \in [D -> 0..bound],
           NEW step \in StepsOn(D, R), DependsBelow(step, rank, D, R)
    PROVE  Solvable(step, D, R)
  <1> USE DEF StepsOn
  <1> DEFINE Solves(f, n) == \A x \in D : rank[x] < n => f[x] = step[x][f]
             S == {n \in Nat : \E f \in [D -> R] : Solves(f, n)}
  <1>1. 0 \in S
    <2>1. [x \in D |-> start] \in [D -> R]
      OBVIOUS
    <2>2. \A x \in D : ~(rank[x] < 0)
      OBVIOUS
    <2> QED BY <2>1, <2>2
  <1>2. ASSUME NEW n \in Nat, n \in S
        PROVE  n + 1 \in S
    <2>1. PICK f \in [D -> R] : Solves(f, n)
      BY <1>2
    <2>2. PICK g \in [D -> R] : \A x \in D : g[x] = IF rank[x] < n THEN f[x] ELSE step[x][f]
      <3>1. \A x \in D : f[x] \in R /\ step[x][f] \in R
        OBVIOUS
      <3>2. [x \in D |-> IF rank[x] < n THEN f[x] ELSE step[x][f]] \in [D -> R]
        BY <3>1
      <3> QED BY <3>2
    <2>3. ASSUME NEW x \in D, rank[x] < n + 1
          PROVE  g[x] = step[x][g]
      <3>1. \A y \in D : rank[y] < rank[x] => rank[y] < n
        BY <2>3
      <3>2. \A y \in D : rank[y] < rank[x] => f[y] = g[y]
        BY <2>2, <3>1
      <3>3. step[x][f] = step[x][g]
        BY <3>2 DEF DependsBelow
      <3>4. CASE rank[x] < n
        BY <2>1, <2>2, <3>3, <3>4
      <3>5. CASE ~(rank[x] < n)
        BY <2>2, <3>3, <3>5
      <3> QED BY <3>4, <3>5
    <2>4. Solves(g, n + 1)
      BY <2>3
    <2> QED BY <2>4
  <1>3. bound + 1 \in S
    <2> HIDE DEF S
    <2> QED BY <1>1, <1>2, NextInduction
  <1>4. PICK f \in [D -> R] : Solves(f, bound + 1)
    BY <1>3
  <1> QED BY <1>4 DEF Solvable

(* The same, from each number to the next. *)
TurnsOn(n, R) == [1..n -> [R -> R]]

Runs(f, n, R, start, step) ==
    f \in [0..n -> R] /\ f[0] = start /\ \A k \in 1..n : f[k] = step[k][f[k - 1]]

LEMMA Steps ==
    ASSUME NEW n \in Nat, NEW R, NEW start \in R, NEW step \in TurnsOn(n, R)
    PROVE  \E f : Runs(f, n, R, start, step)
  <1> USE DEF TurnsOn
  <1> DEFINE D == 0..n
             rank == [k \in D |-> k]
             Turn(k, f) == IF k = 0 THEN start ELSE step[k][f[k - 1]]
             turn == [k \in D |-> [f \in [D -> R] |-> Turn(k, f)]]
  <1>1. rank \in [D -> 0..n] /\ \A k \in D : rank[k] = k
    OBVIOUS
  <1>2. ASSUME NEW k \in D PROVE k = 0 \/ (k \in 1..n /\ k - 1 \in D /\ k - 1 < k)
    OBVIOUS
  <1>3. ASSUME NEW k \in D, NEW f \in [D -> R]
        PROVE  Turn(k, f) \in R
    <2>1. CASE k = 0
      BY <2>1
    <2>2. CASE k \in 1..n /\ k - 1 \in D
      <3>1. f[k - 1] \in R /\ step[k] \in [R -> R] /\ k # 0
        BY <2>2
      <3> QED BY <3>1
    <2> QED BY <1>2, <2>1, <2>2
  <1>4. \A k \in D, f \in [D -> R] : turn[k][f] = Turn(k, f)
    BY Zenon
  <1>5. turn \in [D -> [[D -> R] -> R]]
    <2>1. \A k \in D : [f \in [D -> R] |-> Turn(k, f)] \in [[D -> R] -> R]
      <3> HIDE DEF Turn
      <3> QED BY <1>3
    <2> QED BY <2>1
  <1>6. ASSUME NEW k \in D, NEW f \in [D -> R], NEW g \in [D -> R],
               \A y \in D : rank[y] < rank[k] => f[y] = g[y]
        PROVE  turn[k][f] = turn[k][g]
    <2>1. k # 0 => f[k - 1] = g[k - 1]
      <3> SUFFICES ASSUME k # 0 PROVE f[k - 1] = g[k - 1]
        OBVIOUS
      <3>1. k - 1 \in D /\ k - 1 < k
        BY <1>2
      <3>2. rank[k - 1] < rank[k]
        BY <1>1, <3>1
      <3> QED BY <1>6, <3>1, <3>2
    <2>2. Turn(k, f) = Turn(k, g)
      BY <2>1
    <2> QED BY <1>4, <2>2
  <1> HIDE DEF rank, turn, D
  <1>8. PICK f \in [D -> R] : \A k \in D : f[k] = turn[k][f]
    <2>1. DependsBelow(turn, rank, D, R)
      BY <1>6 DEF DependsBelow
    <2>2. rank \in [D -> 0..n]
      BY <1>1
    <2>3. turn \in StepsOn(D, R)
      BY <1>5 DEF StepsOn
    <2>4. Solvable(turn, D, R)
      BY <2>1, <2>2, <2>3, Recursion
    <2> QED BY <2>4 DEF Solvable
  <1>9. \A k \in D : f[k] = Turn(k, f)
    BY <1>4, <1>8
  <1>10. 0 \in D /\ \A k \in 1..n : k \in D /\ k # 0
    BY DEF D
  <1> QED BY <1>9, <1>10 DEF D, Runs

(* Two functions that agree at 0 and, with each value, in the next.        *)
LEMMA SameSteps ==
    ASSUME NEW n \in Nat, NEW f, NEW g, f[0] = g[0],
           \A k \in 1..n : f[k - 1] = g[k - 1] => f[k] = g[k]
    PROVE  \A k \in 0..n : f[k] = g[k]
  <1> DEFINE S == {k \in Nat : k <= n => f[k] = g[k]}
  <1>1. 0 \in S
    OBVIOUS
  <1>2. ASSUME NEW k \in Nat, k \in S PROVE k + 1 \in S
    <2> SUFFICES ASSUME k + 1 <= n PROVE f[k + 1] = g[k + 1]
      OBVIOUS
    <2>1. k + 1 \in 1..n /\ (k + 1) - 1 = k /\ k <= n
      OBVIOUS
    <2>2. f[k] = g[k]
      BY <1>2, <2>1
    <2> QED BY <2>1, <2>2
  <1>3. Nat \subseteq S
    <2> HIDE DEF S
    <2> QED BY <1>1, <1>2, NextInduction
  <1> QED BY <1>3
=============================================================================
