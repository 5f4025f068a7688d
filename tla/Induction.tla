----------------------------- MODULE Induction -----------------------------
(***************************************************************************)
(* Induction over the natural numbers and the solution of recursive        *)
(* equations, stated with sets and functions: what the proofs about the    *)
(* functions that keep no state rest on.                                   *)
(***************************************************************************)
EXTENDS Integers, WellFoundedInduction, TLAPS

(* A set of natural numbers that is not empty has a least element; from it *)
(* follow induction over sets of numbers and the solution of recursive     *)
(* equations.                                                              *)
LEMMA LeastNumber ==
    ASSUME NEW T, T \subseteq Nat, T # {}
    PROVE  \E x \in T : \A y \in T : x <= y
<1> DEFINE R == OpToRel(<, Nat)
<1>1. IsWellFoundedOn(R, Nat)
  BY NatLessThanWellFounded
<1>2. \A x, y \in Nat : y < x => <<y, x>> \in R
  BY DEF OpToRel
<1> HIDE DEF R
<1>3. PICK x \in T : \A y \in T : ~ (<<y, x>> \in R)
  BY <1>1, WFMin
<1>4. x \in Nat /\ \A y \in T : y \in Nat
  OBVIOUS
<1>5. \A y \in T : ~ (y < x)
  BY <1>2, <1>3, <1>4
<1>6. \A y \in T : x <= y
  BY <1>4, <1>5
<1> QED BY <1>3, <1>6

LEMMA GreatestNumber ==
    ASSUME NEW n \in Nat, NEW T, T \subseteq 0 .. n, T # {}
    PROVE  \E x \in T : \A y \in T : y <= x
<1> DEFINE R == {n - x : x \in T}
<1>0. \A x \in T : x \in 0 .. n /\ n - x \in Nat
  OBVIOUS
<1>1. R \subseteq Nat /\ R # {}
  BY <1>0
<1>2. PICK r \in R : \A y \in R : r <= y
  <2> HIDE DEF R
  <2> QED BY <1>1, LeastNumber
<1>3. PICK x \in T : r = n - x
  BY <1>2
<1>4. ASSUME NEW y \in T PROVE y <= x
  <2>1. n - y \in R /\ x \in 0 .. n /\ y \in 0 .. n
    BY <1>0
  <2>2. r <= n - y
    BY <1>2, <2>1
  <2> QED BY <1>3, <2>1, <2>2
<1> QED BY <1>4

Inductive(n, P) == n \in Nat /\ 0 \in P /\ \A j \in 0 .. n - 1 : j \in P => j + 1 \in P

LEMMA UpwardInduction ==
    ASSUME NEW n, NEW P, Inductive(n, P)
    PROVE  \A j \in 0 .. n : j \in P
<1> USE DEF Inductive
<1> DEFINE T == {j \in 0 .. n : j \notin P}
<1> SUFFICES ASSUME T # {} PROVE FALSE
  OBVIOUS
<1>0. T \subseteq Nat
  OBVIOUS
<1>1. PICK x \in T : \A y \in T : x <= y
  <2> HIDE DEF T
  <2> QED BY <1>0, LeastNumber
<1>2. x \in 1 .. n /\ x - 1 \in 0 .. n - 1 /\ x - 1 \notin T
  BY <1>1
<1> QED BY <1>2

Progressive(n, P) ==
    n \in Nat /\ \A j \in 0 .. n : (\A i \in 0 .. j - 1 : i \in P) => j \in P

LEMMA StrongInduction ==
    ASSUME NEW n, NEW P, Progressive(n, P)
    PROVE  \A j \in 0 .. n : j \in P
<1> USE DEF Progressive
<1> DEFINE T == {j \in 0 .. n : j \notin P}
<1> SUFFICES ASSUME T # {} PROVE FALSE
  OBVIOUS
<1>0. T \subseteq Nat
  OBVIOUS
<1>1. PICK x \in T : \A y \in T : x <= y
  <2> HIDE DEF T
  <2> QED BY <1>0, LeastNumber
<1>2. \A i \in 0 .. x - 1 : i \in P
  BY <1>1
<1> QED BY <1>2

(* An equation that gives the value at each place from the values at       *)
(* places of lower rank has a solution.                                    *)
Ranked(D, S, n, rank, next) ==
    /\ S # {} /\ n \in Nat
    /\ rank \in [D -> 0 .. n] /\ next \in [D -> [[D -> S] -> S]]
    /\ \A x \in D : \A g, h \in [D -> S] :
          (\A y \in D : rank[y] < rank[x] => g[y] = h[y]) => next[x][g] = next[x][h]

LEMMA Recursion ==
    ASSUME NEW D, NEW S, NEW n, NEW rank, NEW next, Ranked(D, S, n, rank, next)
    PROVE  \E f \in [D -> S] : \A x \in D : f[x] = next[x][f]
<1> USE DEF Ranked
<1> DEFINE Upto(f, j) == \A x \in D : rank[x] < j => f[x] = next[x][f]
           P == {j \in 0 .. n + 1 : \E f \in [D -> S] : Upto(f, j)}
<1>1. 0 \in P
  <2>1. PICK s \in S : TRUE
    OBVIOUS
  <2>2. [x \in D |-> s] \in [D -> S]
    OBVIOUS
  <2>3. Upto([x \in D |-> s], 0)
    OBVIOUS
  <2> QED BY <2>2, <2>3
<1>2. ASSUME NEW j \in 0 .. n, j \in P PROVE j + 1 \in P
  <2>1. PICK f \in [D -> S] : Upto(f, j)
    BY <1>2
  <2> DEFINE h == [x \in D |-> IF rank[x] < j THEN f[x] ELSE next[x][f]]
  <2>2. h \in [D -> S]
    OBVIOUS
  <2>3. \A x \in D : rank[x] < j => h[x] = f[x]
    OBVIOUS
  <2>4. \A x \in D : h[x] = next[x][f]
    BY <2>1
  <2>5. ASSUME NEW x \in D, rank[x] < j + 1 PROVE h[x] = next[x][h]
    <3>1. \A y \in D : rank[y] < rank[x] => f[y] = h[y]
      BY <2>3, <2>5
    <3>2. next[x][f] = next[x][h]
      <4> HIDE DEF h
      <4> QED BY <2>2, <3>1
    <3> QED BY <2>4, <3>2
  <2> HIDE DEF h
  <2> QED BY <2>2, <2>5
<1>3. n + 1 \in P
  <2>1. \A j \in 0 .. n : j \in P => j + 1 \in P
    BY <1>2
  <2> HIDE DEF P
  <2>2. n + 1 \in Nat /\ (n + 1) - 1 = n /\ n + 1 \in 0 .. n + 1
    BY DEF Ranked
  <2>3. Inductive(n + 1, P)
    BY <1>1, <2>1, <2>2 DEF Inductive
  <2>4. \A j \in 0 .. n + 1 : j \in P
    BY <2>3, UpwardInduction
  <2> QED BY <2>2, <2>4
<1>4. PICK f \in [D -> S] : Upto(f, n + 1)
  BY <1>3
<1> QED BY <1>4

(* A loop: what holds after each round is made of what held before it.     *)
Rounds(n, S, first, step) ==
    n \in Nat /\ first \in S /\ step \in [1 .. n -> [S -> S]]

LEMMA Iteration ==
    ASSUME NEW n, NEW S, NEW first, NEW step, Rounds(n, S, first, step)
    PROVE  \E f \in [0 .. n -> S] :
              \A j \in 0 .. n : f[j] = IF j = 0 THEN first ELSE step[j][f[j - 1]]
<1> DEFINE D == 0 .. n
           rank == [j \in D |-> j]
           next == [j \in D |-> [g \in [D -> S] |->
                                    IF j = 0 THEN first ELSE step[j][g[j - 1]]]]
<1> USE DEF Rounds
<1>1. rank \in [D -> 0 .. n] /\ S # {}
  OBVIOUS
<1>2. next \in [D -> [[D -> S] -> S]]
  <2> SUFFICES ASSUME NEW j \in D, NEW g \in [D -> S], j # 0
               PROVE  step[j][g[j - 1]] \in S
    OBVIOUS
  <2>1. j \in 1 .. n /\ j - 1 \in D
    OBVIOUS
  <2> QED BY <2>1
<1>3. ASSUME NEW j \in D, NEW g \in [D -> S], NEW h \in [D -> S],
             \A i \in D : rank[i] < rank[j] => g[i] = h[i]
      PROVE  next[j][g] = next[j][h]
  <2>1. j # 0 => j - 1 \in D /\ g[j - 1] = h[j - 1]
    BY <1>3
  <2> QED BY <2>1
<1>4. \A j \in D : \A g \in [D -> S] :
         next[j][g] = IF j = 0 THEN first ELSE step[j][g[j - 1]]
  OBVIOUS
<1>5. \E f \in [D -> S] : \A j \in D : f[j] = next[j][f]
  <2>1. \A j \in D : \A g, h \in [D -> S] :
           (\A i \in D : rank[i] < rank[j] => g[i] = h[i]) => next[j][g] = next[j][h]
    BY <1>3
  <2>2. Ranked(D, S, n, rank, next)
    <3> HIDE DEF rank, next, D
    <3> QED BY <1>1, <1>2, <2>1 DEF Ranked
  <2> HIDE DEF rank, next, D
  <2> QED BY <2>2, Recursion
<1> HIDE DEF next
<1> QED BY <1>4, <1>5

(* A function of 1 .. n + 1 whose value at i depends on those further on.  *)
Backward(n, S, next) ==
    /\ S # {} /\ n \in Nat
    /\ next \in [1 .. n + 1 -> [[1 .. n + 1 -> S] -> S]]
    /\ \A i \in 1 .. n + 1 : \A g, h \in [1 .. n + 1 -> S] :
          (\A j \in 1 .. n + 1 : i < j => g[j] = h[j]) => next[i][g] = next[i][h]

LEMMA BackwardRecursion ==
    ASSUME NEW n, NEW S, NEW next, Backward(n, S, next)
    PROVE  \E f \in [1 .. n + 1 -> S] : \A i \in 1 .. n + 1 : f[i] = next[i][f]
<1> DEFINE D == 1 .. n + 1
           rank == [i \in D |-> n + 1 - i]
<1>1. n \in Nat /\ rank \in [D -> 0 .. n]
  BY DEF Backward
<1>2. \A i, j \in D : i < j => rank[j] < rank[i]
  BY <1>1
<1> HIDE DEF rank
<1>3. \A x \in D : \A g, h \in [D -> S] :
         (\A y \in D : rank[y] < rank[x] => g[y] = h[y]) => next[x][g] = next[x][h]
  BY <1>2 DEF Backward
<1>4. Ranked(D, S, n, rank, next)
  BY <1>1, <1>3 DEF Ranked, Backward
<1> HIDE DEF D
<1>5. \E f \in [D -> S] : \A i \in D : f[i] = next[i][f]
  BY <1>4, Recursion
<1> QED BY <1>5 DEF D

LEMMA BackwardInduction ==
    ASSUME NEW n \in Nat, NEW P,
           \A i \in 1 .. n + 1 : (\A j \in i + 1 .. n + 1 : j \in P) => i \in P
    PROVE  \A i \in 1 .. n + 1 : i \in P
<1> DEFINE Q == {k \in 0 .. n : n + 1 - k \in P}
<1>1. ASSUME NEW k \in 0 .. n, \A m \in 0 .. k - 1 : m \in Q PROVE k \in Q
  <2>1. n + 1 - k \in 1 .. n + 1
    OBVIOUS
  <2>2. ASSUME NEW j \in (n + 1 - k) + 1 .. n + 1 PROVE j \in P
    <3>1. n + 1 - j \in 0 .. k - 1 /\ n + 1 - (n + 1 - j) = j
      OBVIOUS
    <3>2. n + 1 - j \in Q
      BY <1>1, <3>1
    <3> QED BY <3>1, <3>2
  <2> QED BY <2>1, <2>2
<1>2. Progressive(n, Q)
  BY <1>1 DEF Progressive
<1>3. \A k \in 0 .. n : k \in Q
  <2> HIDE DEF Q
  <2> QED BY <1>2, StrongInduction
<1>4. \A i \in 1 .. n + 1 : n + 1 - i \in 0 .. n /\ n + 1 - (n + 1 - i) = i
  OBVIOUS
<1> QED BY <1>3, <1>4
=============================================================================
