---------------------------- MODULE HasherProofs ----------------------------
(***************************************************************************)
(* The fork's hasher and the witness's, for every block and chunk length,  *)
(* SIMD degree, offset, split of the input over update calls, and length   *)
(* of the input: what either is finalized to is the root of the tree over  *)
(* the bytes it was given.                                                 *)
(*                                                                         *)
(* The stack over a chunks holds a subtree for every one-bit of a, but for *)
(* the value the fork's hasher pushed last, which is merged late.  That    *)
(* and how the state of a chunk is filled make the invariants of the two   *)
(* hashers; the invariant of their callers says how far each of the two    *)
(* was fed.  The lemmas before them are about the recursive functions of   *)
(* the model: their equations, and the arithmetic of powers of two.        *)
(***************************************************************************)
EXTENDS TagHash, SequenceTheorems, FiniteSetTheorems, WellFoundedInduction, TLAPS

-----------------------------------------------------------------------------
(* Induction over sets of numbers, and recursion *)

\* A set of numbers that is not empty has a least member.
LEMMA Least ==
  ASSUME NEW T, T \subseteq Nat, T # {}
  PROVE  \E m \in T : \A k \in T : m <= k
<1> DEFINE R == StrictSubsetOrdering(Nat)
           U == {0..n : n \in T}
<1>1. IsWellFoundedOn(R, FiniteSubsetsOf(Nat))
  BY FS_StrictSubsetOrderingWellFounded
<1>2. U \subseteq FiniteSubsetsOf(Nat) /\ U # {}
  <2>1. \A n \in Nat : IsFiniteSet(0..n)
    BY FS_Interval
  <2>2. \A n \in T : 0..n \in FiniteSubsetsOf(Nat)
    BY <2>1 DEF FiniteSubsetsOf
  <2> QED
    BY <2>2
<1>3. PICK x \in U : \A y \in U : ~(<<y, x>> \in R)
  <2> HIDE DEF R, U
  <2> QED
    BY <1>1, <1>2, WFMin
<1>4. PICK m \in T : x = 0..m
  OBVIOUS
<1>5. ASSUME NEW k \in T, k < m
      PROVE  FALSE
  <2>1. 0..k \subseteq 0..m /\ 0..k # 0..m /\ 0..k \in U
    <3>1. m \in 0..m /\ m \notin 0..k
      BY <1>5
    <3>2. 0..k \subseteq 0..m
      BY <1>5
    <3> QED
      BY <3>1, <3>2
  <2>2. <<0..k, 0..m>> \in (SUBSET Nat) \X (SUBSET Nat)
    OBVIOUS
  <2>3. <<0..k, 0..m>> \in R
    BY <2>1, <2>2 DEF StrictSubsetOrdering
  <2> QED
    BY <1>3, <1>4, <2>1, <2>3
<1> QED
  BY <1>5

\* What holds of zero, and of the next of all it holds of, holds of every natural.
LEMMA Induction ==
  ASSUME NEW S, 0 \in S, \A n \in Nat : n \in S => n + 1 \in S
  PROVE  Nat \subseteq S
<1> SUFFICES ASSUME Nat \ S # {} PROVE FALSE
  OBVIOUS
<1>1. PICK m \in Nat \ S : \A k \in Nat \ S : m <= k
  BY Least
<1>2. m - 1 \in Nat /\ m - 1 \in S
  BY <1>1
<1>3. (m - 1) + 1 = m
  OBVIOUS
<1> QED
  BY <1>1, <1>2, <1>3

\* f follows a recursion on the numbers of S, which ends in L and goes down by prev.
Descends(f, S, L, start, prev, G) ==
  \A n \in S : f[n] = IF n \in L THEN start[n] ELSE G[n][f[prev[n]]]

\* A recursion that goes down has a solution.
LEMMA Descent ==
  ASSUME NEW S, S \subseteq Nat, NEW L, NEW V, NEW start \in [S -> V], NEW prev \in [S -> S],
         NEW G \in [S -> [V -> V]], \A n \in S \ L : prev[n] < n
  PROVE  \E f \in [S -> V] : Descends(f, S, L, start, prev, G)
<1> DEFINE Low(k) == {n \in S : n < k}
           Works(f, k) == f \in [Low(k) -> V] /\ Descends(f, Low(k), L, start, prev, G)
           P == {k \in Nat : \E f : Works(f, k)}
           g(k) == CHOOSE f : Works(f, k)
<1>0. \A n \in S : n \in Nat /\ prev[n] \in S /\ prev[n] \in Nat /\ (n \notin L => prev[n] < n)
  OBVIOUS
<1>1. 0 \in P
  <2> DEFINE f == [n \in Low(0) |-> start[n]]
  <2>1. \A n \in S : ~(n < 0)
    BY <1>0
  <2>2. Works(f, 0)
    BY <2>1 DEF Descends
  <2> QED  BY <2>2
<1>2. ASSUME NEW k \in Nat, k \in P
      PROVE  k + 1 \in P
  <2>1. PICK f : Works(f, k)
    BY <1>2
  <2> DEFINE h == [n \in Low(k + 1) |-> IF n \in Low(k) THEN f[n]
                                        ELSE IF n \in L THEN start[n] ELSE G[n][f[prev[n]]]]
  <2>2. \A n \in Low(k + 1) : n \notin Low(k) => n = k
    OBVIOUS
  <2>3. \A n \in Low(k + 1) : n \notin L => prev[n] \in Low(k)
    BY <1>0
  <2>4. \A n \in Low(k) : n \in Low(k + 1)
    OBVIOUS
  <2>5. \A n \in Low(k) : f[n] \in V
    BY <2>1
  <2>6. \A n \in Low(k) : f[n] = IF n \in L THEN start[n] ELSE G[n][f[prev[n]]]
    BY <2>1 DEF Descends
  <2>7. \A n \in S : start[n] \in V /\ G[n] \in [V -> V]
    OBVIOUS
  <2>8. \A n \in Low(k + 1) : n \in S
    OBVIOUS
  <2> HIDE DEF Low, Works
  <2>9. \A n \in Low(k + 1) : h[n] \in V
    BY <2>3, <2>5, <2>7, <2>8
  <2>10. h \in [Low(k + 1) -> V]
    BY <2>9
  <2>11. \A n \in Low(k) : h[n] = f[n]
    BY <2>4
  <2>12. \A n \in Low(k + 1) : n \notin Low(k) =>
            h[n] = IF n \in L THEN start[n] ELSE G[n][f[prev[n]]]
    OBVIOUS
  <2> HIDE DEF h
  <2>13. \A n \in Low(k + 1) : h[n] = IF n \in L THEN start[n] ELSE G[n][h[prev[n]]]
    BY <2>3, <2>6, <2>11, <2>12
  <2>14. Works(h, k + 1)
    BY <2>10, <2>13 DEF Works, Descends
  <2> QED  BY <2>14
<1>3. Nat \subseteq P
  <2> HIDE DEF P
  <2> QED  BY <1>1, <1>2, Induction
<1>4. \A k \in Nat : Works(g(k), k)
  <2> HIDE DEF Works
  <2> QED  BY <1>3
<1>5. ASSUME NEW k \in Nat, NEW m \in Nat, k <= m
      PROVE  \A n \in Low(k) : g(k)[n] = g(m)[n]
  <2> DEFINE T == {n \in Low(k) : g(k)[n] # g(m)[n]}
             a == g(k)
             b == g(m)
  <2> SUFFICES ASSUME T # {} PROVE FALSE
    OBVIOUS
  <2>1. \A n \in Low(k) : n \in Low(m)
    BY <1>5
  <2>2. /\ \A n \in Low(k) : a[n] = IF n \in L THEN start[n] ELSE G[n][a[prev[n]]]
        /\ \A n \in Low(m) : b[n] = IF n \in L THEN start[n] ELSE G[n][b[prev[n]]]
    BY <1>4 DEF Descends
  <2> HIDE DEF g
  <2>3. T \subseteq Nat
    OBVIOUS
  <2>4. PICK n \in T : \A j \in T : n <= j
    BY <2>3, Least
  <2>5. n \in Low(k) /\ a[n] # b[n] /\ n \in S /\ n \in Nat
    OBVIOUS
  <2> HIDE DEF a, b
  <2>6. CASE n \in L
    BY <2>1, <2>2, <2>5, <2>6
  <2>7. CASE n \notin L
    <3>1. prev[n] \in Low(k) /\ prev[n] \in Nat /\ prev[n] < n
      BY <1>0, <2>5, <2>7
    <3>2. prev[n] \notin T
      BY <2>4, <2>5, <3>1
    <3>3. a[prev[n]] = b[prev[n]]
      BY <3>1, <3>2 DEF a, b
    <3> QED  BY <2>1, <2>2, <2>5, <2>7, <3>3
  <2> QED  BY <2>6, <2>7
<1> DEFINE F == [n \in S |-> g(n + 1)[n]]
<1>6. \A n \in S : n \in Nat /\ n + 1 \in Nat /\ n \in Low(n + 1)
  OBVIOUS
<1>7. \A n \in S : /\ g(n + 1)[n] \in V
                   /\ g(n + 1)[n] = IF n \in L THEN start[n] ELSE G[n][g(n + 1)[prev[n]]]
  <2> TAKE n \in S
  <2>1. Works(g(n + 1), n + 1)
    BY <1>4, <1>6
  <2> HIDE DEF g
  <2> QED  BY <1>6, <2>1 DEF Descends
<1>8. \A n \in S : n \notin L => g(n + 1)[prev[n]] = g(prev[n] + 1)[prev[n]]
  <2> TAKE n \in S
  <2> HAVE n \notin L
  <2>1. prev[n] \in S /\ prev[n] \in Nat /\ prev[n] < n /\ n \in Nat
    OBVIOUS
  <2>2. prev[n] + 1 \in Nat /\ n + 1 \in Nat /\ prev[n] + 1 <= n + 1 /\ prev[n] \in Low(prev[n] + 1)
    BY <2>1
  <2> HIDE DEF g, Low
  <2> QED  BY <1>5, <2>2
<1> HIDE DEF g
<1>9. F \in [S -> V]
  BY <1>7
<1>10. Descends(F, S, L, start, prev, G)
  BY <1>7, <1>8 DEF Descends
<1> QED
  BY <1>9, <1>10

-----------------------------------------------------------------------------
(* Numbers of ones and zeros, and powers of two *)

\* Ones is what its recursion says.
LEMMA OnesEquation ==
  /\ Ones = [n \in Nat |-> IF n = 0 THEN 0 ELSE (n % 2) + Ones[n \div 2]]
  /\ Ones \in [Nat -> Nat]
<1> DEFINE S == Nat
           L == {0}
           start == [n \in S |-> 0]
           prev == [n \in S |-> n \div 2]
           G == [n \in S |-> [v \in Nat |-> (n % 2) + v]]
           Solution(f) == f = [n \in S |-> IF n = 0 THEN 0 ELSE (n % 2) + f[n \div 2]]
<1>1. /\ S \subseteq Nat
      /\ start \in [S -> Nat] /\ prev \in [S -> S] /\ G \in [S -> [Nat -> Nat]]
      /\ \A n \in S \ L : prev[n] < n
  OBVIOUS
<1>2. \A n \in S : /\ n \in L <=> n = 0
                   /\ start[n] = 0
                   /\ n \notin L => prev[n] = n \div 2 /\ \A v \in Nat : G[n][v] = (n % 2) + v
                   /\ prev[n] \in S
  OBVIOUS
<1> HIDE DEF L, start, prev, G
<1>3. PICK f \in [S -> Nat] : Descends(f, S, L, start, prev, G)
  <2> HIDE DEF S
  <2> QED  BY <1>1, Descent
<1>4. \A n \in S : f[n] = IF n = 0 THEN 0 ELSE (n % 2) + f[n \div 2]
  <2> TAKE n \in S
  <2>1. prev[n] \in S /\ f[prev[n]] \in Nat
    BY <1>2, <1>3
  <2>2. f[n] = IF n \in L THEN start[n] ELSE G[n][f[prev[n]]]
    BY <1>3 DEF Descends
  <2> QED  BY <1>2, <2>1, <2>2
<1>5. Solution(f)
  <2>1. f = [n \in S |-> f[n]]
    BY <1>3
  <2> HIDE DEF S
  <2> QED  BY <1>4, <2>1
<1>6. Solution(Ones)
  <2>1. Ones = CHOOSE g : Solution(g)
    BY DEF Ones
  <2> HIDE DEF Solution
  <2> QED  BY <1>5, <2>1
<1>7. \A n \in S : Ones[n] \in Nat
  <2> DEFINE T == {n \in S : Ones[n] \notin Nat}
  <2> SUFFICES ASSUME T # {} PROVE FALSE
    OBVIOUS
  <2>1. T \subseteq Nat
    BY <1>1
  <2> HIDE DEF T
  <2>2. PICK n \in T : \A j \in T : n <= j
    BY <2>1, Least
  <2> USE DEF T
  <2>3. n \in S /\ Ones[n] \notin Nat
    OBVIOUS
  <2>4. Ones[n] = IF n = 0 THEN 0 ELSE (n % 2) + Ones[n \div 2]
    BY <1>6, <2>3
  <2>5. ~(n = 0)
    BY <2>3, <2>4
  <2>6. n \div 2 \in S /\ n \div 2 < n
    BY <1>1, <1>2, <2>3, <2>5
  <2>7. n \div 2 \notin T
    BY <2>2, <2>6
  <2>8. Ones[n \div 2] \in Nat
    BY <2>6, <2>7
  <2> QED  BY <2>3, <2>4, <2>5, <2>8
<1> QED
  <2>1. Ones = [n \in S |-> Ones[n]]
    BY <1>6
  <2> HIDE DEF S
  <2>2. Ones \in [S -> Nat]
    BY <1>7, <2>1
  <2> QED  BY <1>6, <2>2 DEF S

\* So is TrailingZeros, which has no value for zero, ...
LEMMA TrailingZerosEquation ==
  /\ TrailingZeros = [n \in (Nat \ {0}) |-> IF n % 2 = 1 THEN 0 ELSE 1 + TrailingZeros[n \div 2]]
  /\ TrailingZeros \in [(Nat \ {0}) -> Nat]
<1> DEFINE S == (Nat \ {0})
           L == {n \in Nat \ {0} : n % 2 = 1}
           start == [n \in S |-> 0]
           prev == [n \in S |-> IF n % 2 = 1 THEN n ELSE n \div 2]
           G == [n \in S |-> [v \in Nat |-> 1 + v]]
           Solution(f) == f = [n \in S |-> IF n % 2 = 1 THEN 0 ELSE 1 + f[n \div 2]]
<1>1. /\ S \subseteq Nat
      /\ start \in [S -> Nat] /\ prev \in [S -> S] /\ G \in [S -> [Nat -> Nat]]
      /\ \A n \in S \ L : prev[n] < n
  OBVIOUS
<1>2. \A n \in S : /\ n \in L <=> n % 2 = 1
                   /\ start[n] = 0
                   /\ n \notin L => prev[n] = n \div 2 /\ \A v \in Nat : G[n][v] = 1 + v
                   /\ prev[n] \in S
  OBVIOUS
<1> HIDE DEF L, start, prev, G
<1>3. PICK f \in [S -> Nat] : Descends(f, S, L, start, prev, G)
  <2> HIDE DEF S
  <2> QED  BY <1>1, Descent
<1>4. \A n \in S : f[n] = IF n % 2 = 1 THEN 0 ELSE 1 + f[n \div 2]
  <2> TAKE n \in S
  <2>1. prev[n] \in S /\ f[prev[n]] \in Nat
    BY <1>2, <1>3
  <2>2. f[n] = IF n \in L THEN start[n] ELSE G[n][f[prev[n]]]
    BY <1>3 DEF Descends
  <2> QED  BY <1>2, <2>1, <2>2
<1>5. Solution(f)
  <2>1. f = [n \in S |-> f[n]]
    BY <1>3
  <2> HIDE DEF S
  <2> QED  BY <1>4, <2>1
<1>6. Solution(TrailingZeros)
  <2>1. TrailingZeros = CHOOSE g : Solution(g)
    BY DEF TrailingZeros
  <2> HIDE DEF Solution
  <2> QED  BY <1>5, <2>1
<1>7. \A n \in S : TrailingZeros[n] \in Nat
  <2> DEFINE T == {n \in S : TrailingZeros[n] \notin Nat}
  <2> SUFFICES ASSUME T # {} PROVE FALSE
    OBVIOUS
  <2>1. T \subseteq Nat
    BY <1>1
  <2> HIDE DEF T
  <2>2. PICK n \in T : \A j \in T : n <= j
    BY <2>1, Least
  <2> USE DEF T
  <2>3. n \in S /\ TrailingZeros[n] \notin Nat
    OBVIOUS
  <2>4. TrailingZeros[n] = IF n % 2 = 1 THEN 0 ELSE 1 + TrailingZeros[n \div 2]
    BY <1>6, <2>3
  <2>5. ~(n % 2 = 1)
    BY <2>3, <2>4
  <2>6. n \div 2 \in S /\ n \div 2 < n
    BY <1>1, <1>2, <2>3, <2>5
  <2>7. n \div 2 \notin T
    BY <2>2, <2>6
  <2>8. TrailingZeros[n \div 2] \in Nat
    BY <2>6, <2>7
  <2> QED  BY <2>3, <2>4, <2>5, <2>8
<1> QED
  <2>1. TrailingZeros = [n \in S |-> TrailingZeros[n]]
    BY <1>6
  <2> HIDE DEF S
  <2>2. TrailingZeros \in [S -> Nat]
    BY <1>7, <2>1
  <2> QED  BY <1>6, <2>2 DEF S

\* ... and Exp2.
LEMMA Exp2Equation ==
  /\ Exp2 = [n \in Nat |-> IF n = 0 THEN 1 ELSE 2 * Exp2[n - 1]]
  /\ Exp2 \in [Nat -> Nat]
<1> DEFINE S == Nat
           L == {0}
           start == [n \in S |-> 1]
           prev == [n \in S |-> IF n = 0 THEN 0 ELSE n - 1]
           G == [n \in S |-> [v \in Nat |-> 2 * v]]
           Solution(f) == f = [n \in S |-> IF n = 0 THEN 1 ELSE 2 * f[n - 1]]
<1>1. /\ S \subseteq Nat
      /\ start \in [S -> Nat] /\ prev \in [S -> S] /\ G \in [S -> [Nat -> Nat]]
      /\ \A n \in S \ L : prev[n] < n
  OBVIOUS
<1>2. \A n \in S : /\ n \in L <=> n = 0
                   /\ start[n] = 1
                   /\ n \notin L => prev[n] = n - 1 /\ \A v \in Nat : G[n][v] = 2 * v
                   /\ prev[n] \in S
  OBVIOUS
<1> HIDE DEF L, start, prev, G
<1>3. PICK f \in [S -> Nat] : Descends(f, S, L, start, prev, G)
  <2> HIDE DEF S
  <2> QED  BY <1>1, Descent
<1>4. \A n \in S : f[n] = IF n = 0 THEN 1 ELSE 2 * f[n - 1]
  <2> TAKE n \in S
  <2>1. prev[n] \in S /\ f[prev[n]] \in Nat
    BY <1>2, <1>3
  <2>2. f[n] = IF n \in L THEN start[n] ELSE G[n][f[prev[n]]]
    BY <1>3 DEF Descends
  <2> QED  BY <1>2, <2>1, <2>2
<1>5. Solution(f)
  <2>1. f = [n \in S |-> f[n]]
    BY <1>3
  <2> HIDE DEF S
  <2> QED  BY <1>4, <2>1
<1>6. Solution(Exp2)
  <2>1. Exp2 = CHOOSE g : Solution(g)
    BY DEF Exp2
  <2> HIDE DEF Solution
  <2> QED  BY <1>5, <2>1
<1>7. \A n \in S : Exp2[n] \in Nat
  <2> DEFINE T == {n \in S : Exp2[n] \notin Nat}
  <2> SUFFICES ASSUME T # {} PROVE FALSE
    OBVIOUS
  <2>1. T \subseteq Nat
    BY <1>1
  <2> HIDE DEF T
  <2>2. PICK n \in T : \A j \in T : n <= j
    BY <2>1, Least
  <2> USE DEF T
  <2>3. n \in S /\ Exp2[n] \notin Nat
    OBVIOUS
  <2>4. Exp2[n] = IF n = 0 THEN 1 ELSE 2 * Exp2[n - 1]
    BY <1>6, <2>3
  <2>5. ~(n = 0)
    BY <2>3, <2>4
  <2>6. n - 1 \in S /\ n - 1 < n
    BY <1>1, <1>2, <2>3, <2>5
  <2>7. n - 1 \notin T
    BY <2>2, <2>6
  <2>8. Exp2[n - 1] \in Nat
    BY <2>6, <2>7
  <2> QED  BY <2>3, <2>4, <2>5, <2>8
<1> QED
  <2>1. Exp2 = [n \in S |-> Exp2[n]]
    BY <1>6
  <2> HIDE DEF S
  <2>2. Exp2 \in [S -> Nat]
    BY <1>7, <2>1
  <2> QED  BY <1>6, <2>2 DEF S

-----------------------------------------------------------------------------
(* Arithmetic of ones, zeros and powers of two *)

\* Every number is even or odd.
LEMMA EvenOrOdd ==
  ASSUME NEW n \in Nat
  PROVE  \E k \in Nat : (n = 2 * k \/ n = 2 * k + 1) /\ n \div 2 = k
<1>1. n \div 2 \in Nat /\ (n = 2 * (n \div 2) \/ n = 2 * (n \div 2) + 1)
  OBVIOUS
<1> QED  BY <1>1

\* Powers of two double.
LEMMA Exp2Facts ==
  /\ Exp2[0] = 1
  /\ \A n \in Nat : Exp2[n] \in Nat /\ Exp2[n] >= 1 /\ Exp2[n + 1] = 2 * Exp2[n]
<1>1. \A n \in Nat : Exp2[n] = IF n = 0 THEN 1 ELSE 2 * Exp2[n - 1]
  BY Exp2Equation
<1>2. \A n \in Nat : Exp2[n] \in Nat
  BY Exp2Equation
<1>3. Exp2[0] = 1
  BY <1>1
<1>4. ASSUME NEW n \in Nat
      PROVE  Exp2[n + 1] = 2 * Exp2[n]
  <2>1. n + 1 \in Nat /\ ~(n + 1 = 0) /\ (n + 1) - 1 = n
    OBVIOUS
  <2> QED  BY <1>1, <2>1
<1> DEFINE S == {n \in Nat : Exp2[n] >= 1}
<1>5. 0 \in S
  BY <1>3
<1>6. \A n \in Nat : n \in S => n + 1 \in S
  BY <1>2, <1>4
<1>7. Nat \subseteq S
  <2> HIDE DEF S
  <2> QED  BY <1>5, <1>6, Induction
<1> QED  BY <1>2, <1>3, <1>4, <1>7

\* The ones of an even and of an odd number
LEMMA OnesFacts ==
  /\ Ones[0] = 0
  /\ \A n \in Nat : /\ Ones[n] \in Nat
                    /\ Ones[2 * n] = Ones[n]
                    /\ Ones[2 * n + 1] = Ones[n] + 1
<1>1. \A n \in Nat : Ones[n] = IF n = 0 THEN 0 ELSE (n % 2) + Ones[n \div 2]
  BY OnesEquation
<1>2. \A n \in Nat : Ones[n] \in Nat
  BY OnesEquation
<1>3. Ones[0] = 0
  BY <1>1
<1>4. ASSUME NEW n \in Nat
      PROVE  Ones[2 * n] = Ones[n] /\ Ones[2 * n + 1] = Ones[n] + 1
  <2>1. /\ 2 * n \in Nat /\ (2 * n) % 2 = 0 /\ (2 * n) \div 2 = n
        /\ 2 * n + 1 \in Nat /\ (2 * n + 1) % 2 = 1 /\ (2 * n + 1) \div 2 = n
        /\ ~(2 * n + 1 = 0) /\ (2 * n = 0 => n = 0)
    OBVIOUS
  <2>2. Ones[2 * n + 1] = Ones[n] + 1
    <3>1. Ones[2 * n + 1] = 1 + Ones[n]
      BY <1>1, <2>1
    <3> QED  BY <1>2, <3>1
  <2>3. Ones[2 * n] = Ones[n]
    <3>1. CASE n = 0
      BY <1>3, <3>1
    <3>2. CASE n # 0
      <4>1. Ones[2 * n] = 0 + Ones[n]
        BY <1>1, <2>1, <3>2
      <4> QED  BY <1>2, <4>1
    <3> QED  BY <3>1, <3>2
  <2> QED  BY <2>2, <2>3
<1> QED  BY <1>2, <1>3, <1>4

\* Only zero has no ones.
LEMMA OnesZero ==
  ASSUME NEW n \in Nat, Ones[n] = 0
  PROVE  n = 0
<1> DEFINE T == {m \in Nat : Ones[m] = 0 /\ m # 0}
<1> SUFFICES ASSUME T # {} PROVE FALSE
  OBVIOUS
<1>1. T \subseteq Nat
  OBVIOUS
<1>2. PICK m \in T : \A k \in T : m <= k
  BY <1>1, Least
<1>3. PICK k \in Nat : m = 2 * k \/ m = 2 * k + 1
  BY EvenOrOdd
<1>4. Ones[k] = 0 /\ m = 2 * k
  <2>1. Ones[m] = 0
    BY <1>2
  <2>2. Ones[k] \in Nat /\ Ones[2 * k] = Ones[k] /\ Ones[2 * k + 1] = Ones[k] + 1
    BY OnesFacts
  <2>3. m # 2 * k + 1
    <3> SUFFICES ASSUME m = 2 * k + 1 PROVE FALSE
      OBVIOUS
    <3>1. Ones[k] + 1 = 0
      BY <2>1, <2>2
    <3> QED  BY <2>2, <3>1
  <2> QED  BY <1>3, <2>1, <2>2, <2>3
<1>5. k < m /\ k # 0
  BY <1>4
<1> QED
  BY <1>2, <1>4, <1>5

\* The numbers with a single one are the powers of two.
LEMMA Pow2Exp ==
  ASSUME NEW p \in Nat
  PROVE  IsPow2(p) <=> \E d \in Nat : p = Exp2[d]
<1>1. ASSUME NEW d \in Nat
      PROVE  IsPow2(Exp2[d])
  <2> DEFINE S == {e \in Nat : Ones[Exp2[e]] = 1}
  <2>1. 0 \in S
    <3>1. Ones[2 * 0 + 1] = Ones[0] + 1
      BY OnesFacts
    <3> QED  BY <3>1, OnesFacts, Exp2Facts
  <2>2. \A e \in Nat : e \in S => e + 1 \in S
    BY OnesFacts, Exp2Facts, SMTT(30)
  <2>3. Nat \subseteq S
    <3> HIDE DEF S
    <3> QED  BY <2>1, <2>2, Induction
  <2> QED  BY <2>3 DEF IsPow2
<1>2. ASSUME IsPow2(p), ~\E d \in Nat : p = Exp2[d]
      PROVE  FALSE
  <2> DEFINE T == {m \in Nat : Ones[m] = 1 /\ ~\E d \in Nat : m = Exp2[d]}
  <2>1. T \subseteq Nat /\ T # {}
    BY <1>2 DEF IsPow2
  <2>2. PICK m \in T : \A k \in T : m <= k
    BY <2>1, Least
  <2>3. PICK k \in Nat : m = 2 * k \/ m = 2 * k + 1
    BY EvenOrOdd
  <2>4. CASE m = 2 * k
    <3>1. Ones[k] = 1
      BY <2>4, OnesFacts
    <3>2. k # 0
      BY <3>1, OnesFacts
    <3>3. k < m
      BY <2>4, <3>2
    <3>4. k \notin T
      BY <2>2, <3>3
    <3>5. PICK d \in Nat : k = Exp2[d]
      BY <3>1, <3>4
    <3>6. m = Exp2[d + 1]
      BY <2>4, <3>5, Exp2Facts
    <3> QED  BY <3>6
  <2>5. CASE m = 2 * k + 1
    <3>1. Ones[k] = 0
      <4>1. Ones[k] \in Nat /\ Ones[2 * k + 1] = Ones[k] + 1
        BY OnesFacts
      <4>2. Ones[k] + 1 = 1
        BY <2>2, <2>5, <4>1
      <4> QED  BY <4>1, <4>2
    <3>2. m = Exp2[0]
      BY <2>5, <3>1, OnesZero, Exp2Facts
    <3> QED  BY <3>2
  <2> QED  BY <2>3, <2>4, <2>5
<1> QED  BY <1>1, <1>2

\* Exponents add up.
LEMMA Exp2Sum ==
  ASSUME NEW a \in Nat, NEW b \in Nat
  PROVE  Exp2[a + b] = Exp2[a] * Exp2[b]
<1> DEFINE S == {e \in Nat : Exp2[a + e] = Exp2[a] * Exp2[e]}
<1>1. 0 \in S
  BY Exp2Facts
<1>2. ASSUME NEW e \in Nat, e \in S
      PROVE  e + 1 \in S
  <2>1. Exp2[(a + e) + 1] = 2 * Exp2[a + e] /\ a + e \in Nat
    BY Exp2Facts
  <2>2. Exp2[e + 1] = 2 * Exp2[e] /\ Exp2[a] \in Nat /\ Exp2[e] \in Nat
    BY Exp2Facts
  <2>3. Exp2[a + e] = Exp2[a] * Exp2[e]
    BY <1>2
  <2>4. 2 * (Exp2[a] * Exp2[e]) = Exp2[a] * (2 * Exp2[e])
    BY <2>2
  <2>5. (a + e) + 1 = a + (e + 1)
    OBVIOUS
  <2> QED  BY <2>1, <2>2, <2>3, <2>4, <2>5
<1>3. Nat \subseteq S
  <2> HIDE DEF S
  <2> QED  BY <1>1, <1>2, Induction
<1> QED  BY <1>3

\* One is a power of two, and so is the double of one; none is zero.
LEMMA Pow2Double ==
  /\ IsPow2(1)
  /\ ~IsPow2(0)
  /\ \A p \in Nat : IsPow2(p) => IsPow2(2 * p)
<1>1. Ones[2 * 0 + 1] = Ones[0] + 1
  BY OnesFacts
<1> QED  BY <1>1, OnesFacts DEF IsPow2

\* A power of two is one, or the double of another.
LEMMA Pow2Half ==
  ASSUME NEW p \in Nat, IsPow2(p), p # 1
  PROVE  \E q \in Nat : p = 2 * q /\ IsPow2(q)
<1>1. PICK k \in Nat : p = 2 * k \/ p = 2 * k + 1
  BY EvenOrOdd
<1>2. p = 2 * k
  <2> SUFFICES ASSUME p = 2 * k + 1 PROVE FALSE
    BY <1>1
  <2>1. Ones[k] = 0
    <3>1. Ones[k] \in Nat /\ Ones[2 * k + 1] = Ones[k] + 1
      BY OnesFacts
    <3>2. Ones[k] + 1 = 1
      BY <3>1 DEF IsPow2
    <3> QED  BY <3>1, <3>2
  <2> QED  BY <2>1, OnesZero
<1> QED  BY <1>2, OnesFacts DEF IsPow2

\* The quotient of two is one.
LEMMA Pow2Ratio ==
  ASSUME NEW p \in Nat, NEW q \in Nat, IsPow2(p), IsPow2(q), p <= q
  PROVE  \E r \in Nat : q = p * r /\ IsPow2(r)
<1>1. PICK a \in Nat : p = Exp2[a]
  BY Pow2Exp
<1>2. PICK b \in Nat : q = Exp2[b]
  BY Pow2Exp
<1>3. CASE a <= b
  <2>1. b - a \in Nat /\ a + (b - a) = b
    BY <1>3
  <2>2. q = p * Exp2[b - a]
    BY <1>1, <1>2, <2>1, Exp2Sum
  <2>3. Exp2[b - a] \in Nat /\ IsPow2(Exp2[b - a])
    BY <2>1, Exp2Facts, Pow2Exp
  <2> QED  BY <2>2, <2>3
<1>4. CASE b < a
  <2> DEFINE e == a - b - 1
  <2>1. e \in Nat /\ b + (e + 1) = a /\ e + 1 \in Nat
    BY <1>4
  <2>2. p = q * Exp2[e + 1]
    BY <1>1, <1>2, <2>1, Exp2Sum
  <2>3. Exp2[e + 1] = 2 * Exp2[e] /\ Exp2[e] \in Nat /\ Exp2[e] >= 1 /\ q >= 1
    BY <1>2, <2>1, Exp2Facts
  <2> HIDE DEF e
  <2>4. PICK f \in Nat : Exp2[e] = f + 1
    <3>1. Exp2[e] - 1 \in Nat /\ Exp2[e] = (Exp2[e] - 1) + 1
      BY <2>3
    <3> QED  BY <3>1
  <2>5. p = 2 * q + 2 * (q * f) /\ q * f \in Nat
    BY <2>2, <2>3, <2>4
  <2> QED  BY <2>3, <2>5
<1> QED  BY <1>3, <1>4

\* The smaller of two goes twice into the larger.
LEMMA Pow2Gap ==
  ASSUME NEW p \in Nat, NEW q \in Nat, IsPow2(p), IsPow2(q), p < q
  PROVE  2 * p <= q
<1>1. PICK r \in Nat : q = p * r /\ IsPow2(r)
  BY Pow2Ratio
<1>2. r # 1
  BY <1>1
<1>3. PICK k \in Nat : r = 2 * k /\ IsPow2(k)
  BY <1>1, <1>2, Pow2Half
<1>4. k # 0
  BY <1>3, Pow2Double
<1>5. PICK f \in Nat : k = f + 1
  <2>1. k - 1 \in Nat /\ k = (k - 1) + 1
    BY <1>4
  <2> QED  BY <2>1
<1>6. q = 2 * p + 2 * (p * f) /\ p * f \in Nat
  BY <1>1, <1>3, <1>5
<1> QED  BY <1>6

\* Their product is one.
LEMMA Pow2Product ==
  ASSUME NEW p \in Nat, NEW q \in Nat, IsPow2(p), IsPow2(q)
  PROVE  p * q \in Nat /\ IsPow2(p * q)
<1>1. PICK a \in Nat : p = Exp2[a]
  BY Pow2Exp
<1>2. PICK b \in Nat : q = Exp2[b]
  BY Pow2Exp
<1>3. p * q = Exp2[a + b] /\ a + b \in Nat
  BY <1>1, <1>2, Exp2Sum
<1> QED  BY <1>3, Exp2Facts, Pow2Exp

\* A power of two that divides an odd multiple of another is not greater.
LEMMA Pow2Odd ==
  ASSUME NEW p \in Nat, NEW q \in Nat, IsPow2(p), IsPow2(q),
         NEW a \in Nat, NEW c \in Nat, p * (2 * a + 1) = q * c
  PROVE  q <= p
<1> SUFFICES ASSUME p < q PROVE FALSE
  OBVIOUS
<1>1. PICK r \in Nat : q = p * r /\ IsPow2(r)
  BY Pow2Ratio
<1>2. r # 1 /\ p # 0
  BY <1>1, Pow2Double
<1>3. PICK k \in Nat : r = 2 * k
  BY <1>1, <1>2, Pow2Half
<1>4. p * (2 * a + 1) = p * (2 * (k * c)) /\ k * c \in Nat
  BY <1>1, <1>3
<1>5. ASSUME NEW x \in Nat, NEW y \in Nat, p * x = p * y
      PROVE  x = y
  BY <1>2, <1>5
<1>6. 2 * a + 1 = 2 * (k * c)
  BY <1>4, <1>5
<1> QED  BY <1>4, <1>6

\* Multiplying by a power of two adds no ones.
LEMMA OnesScale ==
  ASSUME NEW p \in Nat, IsPow2(p), NEW a \in Nat
  PROVE  Ones[p * a] = Ones[a]
<1>1. PICK d \in Nat : p = Exp2[d]
  BY Pow2Exp
<1> DEFINE S == {e \in Nat : Ones[Exp2[e] * a] = Ones[a]}
<1>2. 0 \in S
  BY Exp2Facts
<1>3. ASSUME NEW e \in Nat, e \in S
      PROVE  e + 1 \in S
  <2>1. Exp2[e + 1] = 2 * Exp2[e] /\ Exp2[e] \in Nat
    BY Exp2Facts
  <2>2. Exp2[e + 1] * a = 2 * (Exp2[e] * a) /\ Exp2[e] * a \in Nat
    BY <2>1
  <2>3. Ones[2 * (Exp2[e] * a)] = Ones[Exp2[e] * a]
    BY <2>2, OnesFacts
  <2> QED  BY <1>3, <2>2, <2>3
<1>4. Nat \subseteq S
  <2> HIDE DEF S
  <2> QED  BY <1>2, <1>3, Induction
<1> QED  BY <1>1, <1>4

\* A number below a power of two has no more ones than the exponent.
LEMMA OnesBelow ==
  ASSUME NEW d \in Nat
  PROVE  \A m \in Nat : m < Exp2[d] => Ones[m] <= d
<1> DEFINE S == {e \in Nat : \A m \in Nat : m < Exp2[e] => Ones[m] <= e}
<1>1. 0 \in S
  BY Exp2Facts, OnesFacts
<1>2. ASSUME NEW e \in Nat, e \in S
      PROVE  e + 1 \in S
  <2>1. ASSUME NEW m \in Nat, m < Exp2[e + 1]
        PROVE  Ones[m] <= e + 1
    <3>1. PICK k \in Nat : m = 2 * k \/ m = 2 * k + 1
      BY EvenOrOdd
    <3>2. Exp2[e + 1] = 2 * Exp2[e] /\ Exp2[e] \in Nat
      BY Exp2Facts
    <3>3. k < Exp2[e]
      BY <2>1, <3>1, <3>2
    <3>4. Ones[k] <= e /\ Ones[k] \in Nat
      BY <1>2, <3>3, OnesFacts
    <3>5. Ones[m] = Ones[k] \/ Ones[m] = Ones[k] + 1
      BY <3>1, OnesFacts
    <3> QED  BY <3>4, <3>5
  <2> QED  BY <2>1
<1>3. Nat \subseteq S
  <2> HIDE DEF S
  <2> QED  BY <1>1, <1>2, Induction
<1> QED  BY <1>3

\* The trailing zeros of an odd and of an even number
LEMMA TrailingZerosFacts ==
  \A n \in Nat : /\ TrailingZeros[2 * n + 1] = 0
                 /\ n # 0 => /\ TrailingZeros[2 * n] = 1 + TrailingZeros[n]
                             /\ TrailingZeros[n] \in Nat
<1>1. \A n \in Nat \ {0} : TrailingZeros[n] = IF n % 2 = 1 THEN 0 ELSE 1 + TrailingZeros[n \div 2]
  BY TrailingZerosEquation
<1>2. \A n \in Nat \ {0} : TrailingZeros[n] \in Nat
  BY TrailingZerosEquation
<1> TAKE n \in Nat
<1>3. 2 * n + 1 \in Nat \ {0} /\ (2 * n + 1) % 2 = 1
  OBVIOUS
<1>4. n # 0 => 2 * n \in Nat \ {0} /\ (2 * n) % 2 = 0 /\ (2 * n) \div 2 = n
  OBVIOUS
<1>5. TrailingZeros[2 * n + 1] = 0
  BY <1>1, <1>3
<1>6. ASSUME n # 0
      PROVE  TrailingZeros[2 * n] = 1 + TrailingZeros[n]
  BY <1>1, <1>4, <1>6
<1> QED  BY <1>2, <1>5, <1>6

\* Counting one up turns the trailing ones over: what it adds and takes of ones.
LEMMA OnesNext ==
  ASSUME NEW t \in Nat \ {0}
  PROVE  Ones[t - 1] + 1 = Ones[t] + TrailingZeros[t]
<1> DEFINE T == {m \in Nat \ {0} : Ones[m - 1] + 1 # Ones[m] + TrailingZeros[m]}
<1> SUFFICES ASSUME T # {} PROVE FALSE
  OBVIOUS
<1>1. T \subseteq Nat
  OBVIOUS
<1>2. PICK m \in T : \A k \in T : m <= k
  BY <1>1, Least
<1>3. PICK k \in Nat : m = 2 * k \/ m = 2 * k + 1
  BY EvenOrOdd
<1>4. CASE m = 2 * k + 1
  <2>1. m - 1 = 2 * k /\ TrailingZeros[m] = 0 /\ Ones[m] = Ones[k] + 1 /\ Ones[2 * k] = Ones[k]
        /\ Ones[k] \in Nat
    BY <1>4, OnesFacts, TrailingZerosFacts, SMTT(30)
  <2> QED  BY <1>2, <2>1
<1>5. CASE m = 2 * k
  <2>1. k # 0 /\ k < m /\ k - 1 \in Nat
    BY <1>5
  <2>2. Ones[k - 1] + 1 = Ones[k] + TrailingZeros[k]
    BY <1>2, <2>1
  <2>3. m - 1 = 2 * (k - 1) + 1
    BY <1>5
  <2>4. /\ Ones[m - 1] = Ones[k - 1] + 1 /\ Ones[m] = Ones[k]
        /\ TrailingZeros[m] = 1 + TrailingZeros[k]
        /\ Ones[k - 1] \in Nat /\ Ones[k] \in Nat /\ TrailingZeros[k] \in Nat
    BY <1>5, <2>1, <2>3, OnesFacts, TrailingZerosFacts
  <2> QED  BY <1>2, <2>2, <2>4
<1> QED  BY <1>3, <1>4, <1>5

\* A number is an odd multiple of the power its trailing zeros say.
LEMMA TrailingPow2 ==
  ASSUME NEW t \in Nat \ {0}
  PROVE  /\ TrailingZeros[t] \in Nat
         /\ \E k \in Nat : t = Exp2[TrailingZeros[t]] * (2 * k + 1)
<1> DEFINE T == {m \in Nat \ {0} : ~\E k \in Nat : m = Exp2[TrailingZeros[m]] * (2 * k + 1)}
<1>0. TrailingZeros[t] \in Nat
  BY TrailingZerosEquation
<1> SUFFICES ASSUME T # {} PROVE FALSE
  BY <1>0
<1>1. T \subseteq Nat
  OBVIOUS
<1>2. PICK m \in T : \A k \in T : m <= k
  BY <1>1, Least
<1>3. PICK k \in Nat : m = 2 * k \/ m = 2 * k + 1
  BY EvenOrOdd
<1>4. CASE m = 2 * k + 1
  <2>1. Exp2[TrailingZeros[m]] = 1
    BY <1>4, TrailingZerosFacts, Exp2Facts
  <2>2. m = Exp2[TrailingZeros[m]] * (2 * k + 1)
    BY <1>4, <2>1
  <2> QED  BY <1>2, <2>2
<1>5. CASE m = 2 * k
  <2>1. k # 0 /\ k < m
    BY <1>5
  <2>2. PICK j \in Nat : k = Exp2[TrailingZeros[k]] * (2 * j + 1)
    <3>1. k \notin T /\ k \in Nat \ {0}
      BY <1>2, <2>1
    <3> QED  BY <3>1
  <2>3. TrailingZeros[m] = TrailingZeros[k] + 1 /\ TrailingZeros[k] \in Nat
    BY <1>5, <2>1, TrailingZerosFacts
  <2>4. Exp2[TrailingZeros[m]] = 2 * Exp2[TrailingZeros[k]] /\ Exp2[TrailingZeros[k]] \in Nat
    BY <2>3, Exp2Facts
  <2>5. m = Exp2[TrailingZeros[m]] * (2 * j + 1)
    BY <1>5, <2>2, <2>4
  <2> QED  BY <1>2, <2>5
<1> QED  BY <1>3, <1>4, <1>5

-----------------------------------------------------------------------------
(* Sizes of subtrees *)

\* Multiplication is monotone.
LEMMA MulMono ==
  ASSUME NEW a \in Nat, NEW b \in Nat, NEW c \in Nat, a <= b
  PROVE  a * c <= b * c /\ a * c \in Nat /\ b * c \in Nat
<1>1. PICK e \in Nat : b = a + e
  <2>1. b - a \in Nat /\ b = a + (b - a)
    OBVIOUS
  <2> QED  BY <2>1
<1>2. b * c = a * c + e * c /\ e * c \in Nat /\ a * c \in Nat
  BY <1>1
<1> QED  BY <1>2

\* A chunk has a byte, and so has a block.
LEMMA Lengths ==
  /\ ChunkLen \in Nat /\ BlockLen \in Nat /\ IsPow2(ChunkLen) /\ IsPow2(BlockLen)
  /\ ChunkLen >= 1 /\ BlockLen >= 1 /\ BlockLen <= ChunkLen
<1>1. ChunkLen # 0 /\ BlockLen # 0
  BY TreeAssumption, Pow2Double
<1> QED  BY <1>1, TreeAssumption

\* The greatest of a bounded set of numbers
LEMMA Greatest ==
  ASSUME NEW n \in Nat, NEW T, T \subseteq 0..n, T # {}
  PROVE  Max(T) \in T /\ \A k \in T : k <= Max(T)
<1> DEFINE U == {n - k : k \in T}
<1>0. \A k \in T : k \in Nat /\ n - k \in Nat
  OBVIOUS
<1>1. U \subseteq Nat /\ U # {}
  BY <1>0
<1>2. PICK m \in U : \A k \in U : m <= k
  <2> HIDE DEF U
  <2> QED  BY <1>1, Least
<1>3. PICK t \in T : m = n - t
  OBVIOUS
<1>4. ASSUME NEW k \in T
      PROVE  t >= k
  <2>1. n - k \in U
    OBVIOUS
  <2>2. n - t <= n - k
    BY <1>2, <1>3, <2>1
  <2>3. t \in Nat /\ k \in Nat
    OBVIOUS
  <2> QED  BY <2>2, <2>3
<1>5. \E x \in T : \A y \in T : x >= y
  BY <1>4
<1>6. Max(T) = CHOOSE x \in T : \A y \in T : x >= y
  BY DEF Max
<1>7. Max(T) \in T /\ \A y \in T : Max(T) >= y
  BY <1>5, <1>6
<1>8. Max(T) \in Nat
  BY <1>0, <1>7
<1> QED  BY <1>0, <1>7, <1>8

\* The least of a set of numbers
LEMMA Lowest ==
  ASSUME NEW T, T \subseteq Nat, T # {}
  PROVE  Min(T) \in T /\ \A k \in T : Min(T) <= k
<1>1. \E x \in T : \A y \in T : x <= y
  BY Least
<1>2. Min(T) = CHOOSE x \in T : \A y \in T : x <= y
  BY DEF Min
<1> QED  BY <1>1, <1>2

\* Between a number and its double there is a power of two; next_power_of_two is the
\* least.
LEMMA NextPow2Facts ==
  ASSUME NEW m \in Nat, m # 0
  PROVE  /\ NextPow2(m) \in Nat /\ IsPow2(NextPow2(m))
         /\ m <= NextPow2(m) /\ NextPow2(m) < 2 * m
         /\ \A p \in Nat : IsPow2(p) /\ m <= p => NextPow2(m) <= p
<1> DEFINE S == {k \in Nat : \E p \in (k + 1)..(2 * k + 1) : IsPow2(p)}
<1>1. 0 \in S
  <2>1. 1 \in (0 + 1)..(2 * 0 + 1)
    OBVIOUS
  <2> QED  BY <2>1, Pow2Double
<1>2. ASSUME NEW k \in Nat, k \in S
      PROVE  k + 1 \in S
  <2>1. PICK p \in (k + 1)..(2 * k + 1) : IsPow2(p)
    BY <1>2
  <2>2. CASE p = k + 1
    <3>1. 2 * p \in ((k + 1) + 1)..(2 * (k + 1) + 1)
      BY <2>2
    <3> QED  BY <2>1, <3>1, Pow2Double
  <2>3. CASE p # k + 1
    <3>1. p \in ((k + 1) + 1)..(2 * (k + 1) + 1)
      BY <2>3
    <3> QED  BY <2>1, <3>1
  <2> QED  BY <2>2, <2>3
<1>3. Nat \subseteq S
  <2> HIDE DEF S
  <2> QED  BY <1>1, <1>2, Induction
<1> DEFINE T == {p \in m..2 * m : IsPow2(p)}
<1>4. PICK p \in Nat : m <= p /\ p < 2 * m /\ IsPow2(p)
  <2>1. m - 1 \in S
    BY <1>3
  <2>2. PICK p \in ((m - 1) + 1)..(2 * (m - 1) + 1) : IsPow2(p)
    BY <2>1
  <2> QED  BY <2>2
<1>5. p \in T /\ T \subseteq Nat
  BY <1>4
<1>6. NextPow2(m) = Min(T)
  BY DEF NextPow2
<1>7. Min(T) \in T /\ \A k \in T : Min(T) <= k
  <2> HIDE DEF T
  <2> QED  BY <1>5, Lowest
<1>8. NextPow2(m) \in T /\ \A k \in T : NextPow2(m) <= k
  BY <1>6, <1>7
<1>9. NextPow2(m) <= p
  BY <1>5, <1>8
<1>10. ASSUME NEW q \in Nat, IsPow2(q), m <= q
       PROVE  NextPow2(m) <= q
  <2>1. CASE q \in T
    BY <1>8, <2>1
  <2>2. CASE q \notin T
    <3>1. q > 2 * m
      BY <1>10, <2>2
    <3> QED  BY <1>4, <1>9, <1>8, <3>1
  <2> QED  BY <2>1, <2>2
<1> QED  BY <1>4, <1>8, <1>9, <1>10

\* left_subtree_len leaves something on both sides, and halves a power of two.
LEMMA LeftSubtreeFacts ==
  ASSUME NEW n \in Nat, n >= 2
  PROVE  /\ LeftSubtreeLen(n) \in Nat /\ 1 <= LeftSubtreeLen(n) /\ LeftSubtreeLen(n) < n
         /\ \A h \in Nat : n = 2 * h /\ IsPow2(h) => LeftSubtreeLen(n) = h
<1> DEFINE m == (n + 1) \div 2
           P == NextPow2(m)
<1>1. m \in Nat /\ m >= 1 /\ (n = 2 * m \/ n = 2 * m - 1)
  OBVIOUS
<1>2. LeftSubtreeLen(n) = P
  <2>1. n + 2 - 1 = n + 1
    OBVIOUS
  <2> QED  BY <2>1 DEF LeftSubtreeLen, DivCeil
<1> HIDE DEF m
<1>3. /\ P \in Nat /\ IsPow2(P) /\ m <= P /\ P < 2 * m
      /\ \A p \in Nat : IsPow2(p) /\ m <= p => P <= p
  BY <1>1, NextPow2Facts
<1> HIDE DEF P
<1>4. P < n
  <2>1. CASE P = 1
    BY <2>1
  <2>2. CASE P # 1
    <3>1. PICK q \in Nat : P = 2 * q
      BY <1>3, <2>2, Pow2Half
    <3> QED  BY <1>1, <1>3, <3>1
  <2> QED  BY <2>1, <2>2
<1>5. ASSUME NEW h \in Nat, n = 2 * h, IsPow2(h)
      PROVE  P = h
  <2>1. m = h
    BY <1>1, <1>5
  <2>2. P <= h /\ h <= P
    BY <1>3, <1>5, <2>1
  <2> QED  BY <1>3, <2>2
<1> QED  BY <1>1, <1>2, <1>3, <1>4, <1>5

\* The left side of a parent is a power of two of chunks, less than all and at least
\* half.
LEMMA LeftBytesFacts ==
  ASSUME NEW n \in Nat, n > ChunkLen
  PROVE  \E z \in Nat : /\ IsPow2(z) /\ LeftBytes(n) = z * ChunkLen
                        /\ z * ChunkLen < n /\ n <= 2 * (z * ChunkLen)
<1> DEFINE T == {p \in 1..n : IsPow2(p) /\ p * ChunkLen < n}
           z == Max(T)
<1>1. 1 \in T
  BY Lengths, Pow2Double
<1>2. T \subseteq 0..n
  OBVIOUS
<1>3. z \in T /\ \A k \in T : k <= z
  <2> HIDE DEF T
  <2> QED  BY <1>1, <1>2, Greatest
<1>4. LeftBytes(n) = ChunkLen * z
  BY DEF LeftBytes
<1> HIDE DEF z
<1>5. z \in Nat /\ z >= 1 /\ IsPow2(z) /\ z * ChunkLen < n
  BY <1>3
<1>6. n <= 2 * (z * ChunkLen)
  <2> SUFFICES ASSUME 2 * (z * ChunkLen) < n PROVE FALSE
    BY <1>5, Lengths
  <2>1. (2 * z) * ChunkLen < n /\ IsPow2(2 * z) /\ 2 * z \in Nat
    BY <1>5, Pow2Double, Lengths
  <2>2. 2 * z <= (2 * z) * ChunkLen
    <3>1. 1 * (2 * z) <= ChunkLen * (2 * z)
      BY <1>5, MulMono, Lengths
    <3> QED  BY <1>5, <3>1, Lengths
  <2>3. 2 * z \in 1..n
    BY <1>5, <2>1, <2>2, Lengths
  <2>4. 2 * z \in T
    BY <2>1, <2>3
  <2> QED  BY <1>3, <1>5, <2>4
<1>7. ChunkLen * z = z * ChunkLen
  BY <1>5, Lengths
<1> QED  BY <1>4, <1>5, <1>6, <1>7

\* There is one such power of two.
LEMMA LeftBytesIs ==
  ASSUME NEW n \in Nat, NEW z \in Nat, IsPow2(z), z * ChunkLen < n, n <= 2 * (z * ChunkLen)
  PROVE  LeftBytes(n) = z * ChunkLen /\ n > ChunkLen
<1>0. z # 0
  BY Pow2Double
<1>1. 1 * ChunkLen <= z * ChunkLen /\ z * ChunkLen \in Nat
  BY <1>0, MulMono, Lengths
<1>2. n > ChunkLen
  BY <1>1, Lengths
<1>3. PICK y \in Nat : /\ IsPow2(y) /\ LeftBytes(n) = y * ChunkLen
                       /\ y * ChunkLen < n /\ n <= 2 * (y * ChunkLen)
  BY <1>2, LeftBytesFacts
<1>4. ASSUME NEW a \in Nat, NEW c \in Nat, IsPow2(a), IsPow2(c), a < c,
             c * ChunkLen < n, n <= 2 * (a * ChunkLen)
      PROVE  FALSE
  <2>1. 2 * a <= c
    BY <1>4, Pow2Gap
  <2>2. (2 * a) * ChunkLen <= c * ChunkLen /\ c * ChunkLen \in Nat
    BY <2>1, MulMono, Lengths
  <2>3. (2 * a) * ChunkLen = 2 * (a * ChunkLen) /\ a * ChunkLen \in Nat
    BY Lengths
  <2> QED  BY <1>4, <2>2, <2>3
<1>5. z = y
  BY <1>3, <1>4
<1> QED  BY <1>2, <1>3, <1>5

-----------------------------------------------------------------------------
(* The recursions over ranges: Tree, Nodes and compress_subtree_wide *)

Ranges == Nat \X Nat
Size(r) == r[2] - r[1]

\* The largest leaf, and where a range that is larger is split
LeafSize(kind) == IF kind = "wide" THEN degree * ChunkLen ELSE ChunkLen
Mid(kind, r) ==
  r[1] + (IF kind = "wide" THEN LeftSubtreeLen(r[2] - r[1]) ELSE LeftBytes(r[2] - r[1]))

\* The value of a leaf, and of two sides
OfLeaf(kind, bytes, counter, r) ==
  IF kind = "wide" THEN HashChunks(SubSeq(bytes, r[1] + 1, r[2]), counter + r[1] \div ChunkLen)
  ELSE IF kind = "tree" THEN ChunkOf(r[1], r[2]) ELSE {r}
OfSides(kind, r, a, b) ==
  IF kind = "wide" THEN IF Len(a) = 1 THEN a \o b ELSE HashParents(a \o b)
  ELSE IF kind = "tree" THEN Parent(a, b) ELSE {r} \cup (a \cup b)

OfRange(kind, bytes, counter, f, r) ==
  IF Size(r) <= LeafSize(kind) THEN OfLeaf(kind, bytes, counter, r)
  ELSE OfSides(kind, r, f[<<r[1], Mid(kind, r)>>], f[<<Mid(kind, r), r[2]>>])

\* Both sides of a split are ranges, and smaller.
LEMMA Sides ==
  ASSUME NEW kind, kind = "wide" => degree \in Nat /\ degree >= 1,
         NEW r \in Ranges, Size(r) > LeafSize(kind)
  PROVE  /\ Size(r) \in Nat
         /\ <<r[1], Mid(kind, r)>> \in Ranges /\ Size(<<r[1], Mid(kind, r)>>) < Size(r)
         /\ <<Mid(kind, r), r[2]>> \in Ranges /\ Size(<<Mid(kind, r), r[2]>>) < Size(r)
<1>1. kind = "wide" => 1 * ChunkLen <= degree * ChunkLen /\ degree * ChunkLen \in Nat
  BY MulMono, Lengths
<1>2. r[1] \in Nat /\ r[2] \in Nat
  BY DEF Ranges
<1>3. LeafSize(kind) >= ChunkLen /\ LeafSize(kind) \in Nat
  BY <1>1, Lengths DEF LeafSize
<1> DEFINE n == r[2] - r[1]
<1>4. n \in Nat /\ n > ChunkLen /\ n >= 2
  BY <1>2, <1>3, Lengths DEF Size
<1>5. LeftSubtreeLen(n) \in Nat /\ 1 <= LeftSubtreeLen(n) /\ LeftSubtreeLen(n) < n
  BY <1>4, LeftSubtreeFacts
<1>6. LeftBytes(n) \in Nat /\ 1 <= LeftBytes(n) /\ LeftBytes(n) < n
  <2>1. PICK z \in Nat : /\ IsPow2(z) /\ LeftBytes(n) = z * ChunkLen
                         /\ z * ChunkLen < n /\ n <= 2 * (z * ChunkLen)
    BY <1>4, LeftBytesFacts
  <2>2. z * ChunkLen \in Nat
    BY <2>1, Lengths
  <2> QED  BY <1>4, <2>1, <2>2
<1>7. Mid(kind, r) \in Nat /\ r[1] < Mid(kind, r) /\ Mid(kind, r) < r[2]
  <2>1. CASE kind = "wide"
    <3>1. Mid(kind, r) = r[1] + LeftSubtreeLen(n)
      BY <2>1 DEF Mid
    <3> HIDE DEF n
    <3>2. n = r[2] - r[1]
      BY DEF n
    <3> QED  BY <1>2, <1>5, <3>1, <3>2
  <2>2. CASE kind # "wide"
    <3>1. Mid(kind, r) = r[1] + LeftBytes(n)
      BY <2>2 DEF Mid
    <3> HIDE DEF n
    <3>2. n = r[2] - r[1]
      BY DEF n
    <3> QED  BY <1>2, <1>6, <3>1, <3>2
  <2> QED  BY <2>1, <2>2
<1> HIDE DEF n
<1> QED
  BY <1>2, <1>4, <1>7 DEF Ranges, Size, n

\* So there is a function that is defined from its values on the sides.
LEMMA Halving ==
  ASSUME NEW kind, NEW bytes, NEW counter,
         kind = "wide" => degree \in Nat /\ degree >= 1
  PROVE  \E f : f = [r \in Ranges |-> OfRange(kind, bytes, counter, f, r)]
<1> DEFINE Low(k) == {r \in Ranges : Size(r) < k}
           L(r) == <<r[1], Mid(kind, r)>>
           R(r) == <<Mid(kind, r), r[2]>>
           Val(f, r) == IF Size(r) <= LeafSize(kind) THEN OfLeaf(kind, bytes, counter, r)
                        ELSE OfSides(kind, r, f[L(r)], f[R(r)])
           Works(f, k) == f = [r \in Low(k) |-> Val(f, r)]
           P == {k \in Nat : \E f : Works(f, k)}
           g(k) == CHOOSE f : Works(f, k)
<1>0. ASSUME NEW r \in Ranges
      PROVE  /\ Size(r) \in Int
             /\ Size(r) > LeafSize(kind) =>
                  /\ Size(r) \in Nat
                  /\ L(r) \in Ranges /\ Size(L(r)) < Size(r)
                  /\ R(r) \in Ranges /\ Size(R(r)) < Size(r)
  <2>1. Size(r) \in Int
    BY DEF Ranges, Size
  <2> QED  BY <2>1, Sides
<1>00. LeafSize(kind) \in Nat
  BY Lengths DEF LeafSize
<1> HIDE DEF L, R
<1>1. 0 \in P
  <2> DEFINE f == [r \in Low(0) |-> OfLeaf(kind, bytes, counter, r)]
  <2>1. \A r \in Low(0) : Size(r) <= LeafSize(kind)
    BY <1>0, <1>00
  <2>2. Works(f, 0)
    BY <2>1
  <2> QED  BY <2>2
<1>2. ASSUME NEW k \in Nat, k \in P
      PROVE  k + 1 \in P
  <2>1. PICK f : Works(f, k)
    BY <1>2
  <2> DEFINE h == [r \in Low(k + 1) |-> IF r \in Low(k) THEN f[r] ELSE Val(f, r)]
  <2>2. ASSUME NEW r \in Low(k + 1), Size(r) > LeafSize(kind)
        PROVE  L(r) \in Low(k) /\ R(r) \in Low(k)
    <3>1. r \in Ranges /\ Size(r) < k + 1
      OBVIOUS
    <3>2. Size(L(r)) \in Int /\ Size(R(r)) \in Int
      BY <1>0, <2>2, <3>1
    <3> QED  BY <1>0, <2>2, <3>1, <3>2
  <2>3. \A r \in Low(k) : r \in Low(k + 1)
    BY <1>0
  <2>4. \A r \in Low(k) : f[r] = Val(f, r)
    BY <2>1
  <2>5. \A r \in Low(k) : h[r] = f[r]
    BY <2>3
  <2>6. \A r \in Low(k + 1) : h[r] = Val(f, r)
    BY <2>4, <2>5
  <2>7. \A r \in Low(k + 1) : Val(f, r) = Val(h, r)
    <3> TAKE r \in Low(k + 1)
    <3>1. CASE Size(r) <= LeafSize(kind)
      BY <3>1
    <3>2. CASE ~(Size(r) <= LeafSize(kind))
      <4>1. Size(r) > LeafSize(kind)
        BY <1>0, <1>00, <3>2
      <4>2. h[L(r)] = f[L(r)] /\ h[R(r)] = f[R(r)]
        BY <2>2, <2>5, <4>1
      <4> QED  BY <4>2
    <3> QED  BY <3>1, <3>2
  <2>8. h = [r \in Low(k + 1) |-> h[r]]
    OBVIOUS
  <2> HIDE DEF h, Val, Low
  <2>9. Works(h, k + 1)
    BY <2>6, <2>7, <2>8
  <2> QED  BY <2>9
<1>3. Nat \subseteq P
  <2> HIDE DEF P
  <2> QED  BY <1>1, <1>2, Induction
<1>4. \A k \in Nat : Works(g(k), k)
  <2> HIDE DEF Works
  <2> QED  BY <1>3
<1>5. ASSUME NEW k \in Nat, NEW m \in Nat, k <= m
      PROVE  \A r \in Low(k) : g(k)[r] = g(m)[r]
  <2> DEFINE a == g(k)
             b == g(m)
             T == {r \in Low(k) : a[r] # b[r]}
             U == {Size(r) : r \in T}
  <2> SUFFICES ASSUME T # {} PROVE FALSE
    OBVIOUS
  <2>1. \A r \in Low(k) : r \in Low(m)
    BY <1>0, <1>5
  <2>2. /\ \A r \in Low(k) : a[r] = Val(a, r)
        /\ \A r \in Low(m) : b[r] = Val(b, r)
    <3>1. Works(a, k) /\ Works(b, m)
      BY <1>4
    <3> HIDE DEF a, b, Val, Low
    <3> QED  BY <3>1
  <2> HIDE DEF a, b
  <2>3. \A r \in T : r \in Ranges /\ Size(r) > LeafSize(kind) /\ Size(r) \in Nat
    <3> TAKE r \in T
    <3>1. r \in Low(k) /\ a[r] # b[r] /\ r \in Low(m)
      BY <2>1
    <3>2. ~(Size(r) <= LeafSize(kind))
      BY <2>2, <3>1
    <3> QED  BY <1>0, <1>00, <3>1, <3>2
  <2>4. U \subseteq Nat /\ U # {}
    <3> HIDE DEF T
    <3> QED  BY <2>3
  <2>5. PICK u \in U : \A j \in U : u <= j
    <3> HIDE DEF U
    <3> QED  BY <2>4, Least
  <2>6. PICK r \in T : u = Size(r)
    OBVIOUS
  <2>7. r \in Low(k) /\ a[r] # b[r] /\ r \in Low(m) /\ r \in Ranges /\ Size(r) > LeafSize(kind)
        /\ Size(r) < k
    BY <2>1, <2>3
  <2>8. ASSUME NEW q \in Ranges, Size(q) < Size(r)
        PROVE  a[q] = b[q]
    <3>1. Size(q) \in Int /\ Size(r) \in Int
      BY <1>0, <2>7
    <3>2. q \in Low(k)
      BY <2>7, <2>8, <3>1
    <3>3. q \notin T
      <4> SUFFICES ASSUME q \in T PROVE FALSE
        OBVIOUS
      <4>1. Size(q) \in U
        OBVIOUS
      <4>2. Size(r) <= Size(q)
        BY <2>5, <2>6, <4>1
      <4> QED  BY <2>8, <3>1, <4>2
    <3> QED  BY <3>2, <3>3
  <2>9. a[L(r)] = b[L(r)] /\ a[R(r)] = b[R(r)]
    BY <1>0, <2>7, <2>8
  <2>10. a[r] = Val(a, r) /\ b[r] = Val(b, r)
    BY <2>2, <2>7
  <2> QED  BY <2>7, <2>9, <2>10
<1> DEFINE F == [r \in Ranges |-> IF Size(r) < 0 THEN OfLeaf(kind, bytes, counter, r)
                                  ELSE g(Size(r) + 1)[r]]
<1>6. \A r \in Ranges : F[r] = Val(F, r)
  <2> TAKE r \in Ranges
  <2>1. CASE Size(r) < 0
    <3>1. Size(r) <= LeafSize(kind)
      BY <1>0, <1>00, <2>1
    <3> HIDE DEF g
    <3> QED  BY <2>1, <3>1
  <2>2. CASE ~(Size(r) < 0)
    <3>1. Size(r) \in Nat /\ Size(r) + 1 \in Nat /\ r \in Low(Size(r) + 1)
      BY <1>0, <2>2
    <3>2. g(Size(r) + 1)[r] = Val(g(Size(r) + 1), r)
      <4>1. Works(g(Size(r) + 1), Size(r) + 1)
        BY <1>4, <3>1
      <4> HIDE DEF g, Val, Low
      <4> QED  BY <3>1, <4>1
    <3>3. ASSUME Size(r) > LeafSize(kind), NEW q \in Ranges, Size(q) < Size(r)
          PROVE  g(Size(r) + 1)[q] = F[q]
      <4>1. Size(q) \in Int
        BY <1>0
      <4>2. CASE Size(q) < 0
        <5>1. q \in Low(Size(r) + 1) /\ Size(q) <= LeafSize(kind)
          BY <1>00, <3>1, <3>3, <4>1, <4>2
        <5>2. Works(g(Size(r) + 1), Size(r) + 1)
          BY <1>4, <3>1
        <5>3. g(Size(r) + 1)[q] = Val(g(Size(r) + 1), q)
          <6> HIDE DEF g, Val, Low
          <6> QED  BY <5>1, <5>2
        <5> HIDE DEF g
        <5> QED  BY <4>2, <5>1, <5>3
      <4>3. CASE ~(Size(q) < 0)
        <5>1. Size(q) + 1 \in Nat /\ Size(q) + 1 <= Size(r) + 1 /\ q \in Low(Size(q) + 1)
          BY <3>1, <3>3, <4>1, <4>3
        <5>2. F[q] = g(Size(q) + 1)[q]
          <6> HIDE DEF g
          <6> QED  BY <4>3
        <5> HIDE DEF g, F, Low
        <5> QED  BY <1>5, <3>1, <5>1, <5>2
      <4> QED  BY <4>2, <4>3
    <3>4. Val(g(Size(r) + 1), r) = Val(F, r)
      <4>1. CASE Size(r) <= LeafSize(kind)
        <5> HIDE DEF g, F
        <5> QED  BY <4>1
      <4>2. CASE ~(Size(r) <= LeafSize(kind))
        <5>1. Size(r) > LeafSize(kind)
          BY <1>0, <1>00, <4>2
        <5>2. g(Size(r) + 1)[L(r)] = F[L(r)] /\ g(Size(r) + 1)[R(r)] = F[R(r)]
          BY <1>0, <3>3, <5>1
        <5> HIDE DEF g, F
        <5> QED  BY <5>2
      <4> QED  BY <4>1, <4>2
    <3>5. F[r] = g(Size(r) + 1)[r]
      <4> HIDE DEF g
      <4> QED  BY <2>2
    <3> HIDE DEF g, F, Val
    <3> QED  BY <3>2, <3>4, <3>5
  <2> QED  BY <2>1, <2>2
<1>7. F = [r \in Ranges |-> F[r]]
  <2> HIDE DEF g
  <2> QED  OBVIOUS
<1>8. F = [r \in Ranges |-> Val(F, r)]
  <2> HIDE DEF F, Val
  <2> QED  BY <1>6, <1>7
<1>9. F = [r \in Ranges |-> OfRange(kind, bytes, counter, F, r)]
  <2> HIDE DEF F
  <2> QED  BY <1>8 DEF OfRange, L, R
<1> QED
  BY <1>9

\* Tree is what its recursion says, ...
LEMMA TreeEquation ==
  \A r \in Ranges :
    Tree[r] = IF Size(r) <= ChunkLen THEN ChunkOf(r[1], r[2])
              ELSE Parent(Tree[<<r[1], r[1] + LeftBytes(Size(r))>>],
                          Tree[<<r[1] + LeftBytes(Size(r)), r[2]>>])
<1> DEFINE Val(f, r) == IF r[2] - r[1] <= ChunkLen THEN ChunkOf(r[1], r[2])
                        ELSE Parent(f[<<r[1], r[1] + LeftBytes(r[2] - r[1])>>],
                                    f[<<r[1] + LeftBytes(r[2] - r[1]), r[2]>>])
           Solution(f) == f = [r \in Nat \X Nat |-> Val(f, r)]
<1>1. PICK f : f = [r \in Ranges |-> OfRange("tree", 0, 0, f, r)]
  BY Halving
<1>2. ASSUME NEW r
      PROVE  OfRange("tree", 0, 0, f, r) = Val(f, r)
  BY DEF OfRange, OfLeaf, OfSides, Mid, LeafSize, Size
<1>3. Solution(f)
  <2> HIDE DEF Val
  <2> QED  BY <1>1, <1>2 DEF Ranges
<1>4. Tree = CHOOSE g : Solution(g)
  BY DEF Tree
<1>5. Solution(Tree)
  <2> HIDE DEF Solution
  <2> QED  BY <1>3, <1>4
<1>6. \A r \in Ranges : Tree[r] = Val(Tree, r)
  <2> HIDE DEF Val
  <2> QED  BY <1>5 DEF Ranges
<1> QED
  BY <1>6 DEF Size

\* ... so is Nodes, ...
LEMMA NodesEquation ==
  \A r \in Ranges :
    Nodes[r] = {r} \cup IF Size(r) <= ChunkLen THEN {}
                        ELSE Nodes[<<r[1], r[1] + LeftBytes(Size(r))>>]
                               \cup Nodes[<<r[1] + LeftBytes(Size(r)), r[2]>>]
<1> DEFINE Val(f, r) == {r} \cup IF r[2] - r[1] <= ChunkLen THEN {}
                                 ELSE f[<<r[1], r[1] + LeftBytes(r[2] - r[1])>>]
                                        \cup f[<<r[1] + LeftBytes(r[2] - r[1]), r[2]>>]
           Solution(f) == f = [r \in Nat \X Nat |-> Val(f, r)]
<1>1. PICK f : f = [r \in Ranges |-> OfRange("nodes", 0, 0, f, r)]
  BY Halving
<1>2. ASSUME NEW r
      PROVE  OfRange("nodes", 0, 0, f, r) = Val(f, r)
  <2>1. CASE r[2] - r[1] <= ChunkLen
    BY <2>1 DEF OfRange, OfLeaf, OfSides, Mid, LeafSize, Size
  <2>2. CASE ~(r[2] - r[1] <= ChunkLen)
    BY <2>2 DEF OfRange, OfLeaf, OfSides, Mid, LeafSize, Size
  <2> QED  BY <2>1, <2>2
<1>3. Solution(f)
  <2> HIDE DEF Val
  <2> QED  BY <1>1, <1>2 DEF Ranges
<1>4. Nodes = CHOOSE g : Solution(g)
  BY DEF Nodes
<1>5. Solution(Nodes)
  <2> HIDE DEF Solution
  <2> QED  BY <1>3, <1>4
<1>6. \A r \in Ranges : Nodes[r] = Val(Nodes, r)
  <2> HIDE DEF Val
  <2> QED  BY <1>5 DEF Ranges
<1> QED
  BY <1>6 DEF Size

\* ... and so is the function in compress_subtree_wide.
LEMMA WideEquation ==
  ASSUME NEW bytes, NEW counter, degree \in Nat, degree >= 1
  PROVE  \E f : /\ Wide(bytes, counter) = f[<<0, Len(bytes)>>]
                /\ \A r \in Ranges :
                     f[r] = OfRange("wide", bytes, counter, f, r)
<1> DEFINE L(r) == <<r[1], r[1] + LeftSubtreeLen(r[2] - r[1])>>
           R(r) == <<r[1] + LeftSubtreeLen(r[2] - r[1]), r[2]>>
           Val(f, r) ==
             IF r[2] - r[1] <= degree * ChunkLen
             THEN HashChunks(SubSeq(bytes, r[1] + 1, r[2]), counter + r[1] \div ChunkLen)
             ELSE IF Len(f[L(r)]) = 1 THEN f[L(r)] \o f[R(r)] ELSE HashParents(f[L(r)] \o f[R(r)])
           Solution(f) == f = [r \in Nat \X Nat |-> Val(f, r)]
<1>1. PICK f : f = [r \in Ranges |-> OfRange("wide", bytes, counter, f, r)]
  BY Halving
<1>2. ASSUME NEW g, NEW r
      PROVE  OfRange("wide", bytes, counter, g, r) = Val(g, r)
  BY DEF OfRange, OfLeaf, OfSides, Mid, LeafSize, Size
<1>3. Solution(f)
  <2> HIDE DEF Val
  <2> QED  BY <1>1, <1>2 DEF Ranges
<1> DEFINE w == CHOOSE g : Solution(g)
<1>4. Wide(bytes, counter) = w[<<0, Len(bytes)>>]
  BY DEF Wide
<1>5. Solution(w)
  <2> HIDE DEF Solution
  <2> QED  BY <1>3
<1> HIDE DEF w
<1>6. \A r \in Ranges : w[r] = OfRange("wide", bytes, counter, w, r)
  <2> HIDE DEF Val
  <2> QED  BY <1>2, <1>5 DEF Ranges
<1> QED
  BY <1>4, <1>6

\* A chunk or less is a leaf of the tree.
LEMMA TreeLeaf ==
  ASSUME NEW lo \in Nat, NEW hi \in Nat, hi <= lo + ChunkLen
  PROVE  Tree[<<lo, hi>>] = ChunkOf(lo, hi)
<1>1. <<lo, hi>> \in Ranges /\ Size(<<lo, hi>>) <= ChunkLen
  BY Lengths DEF Ranges, Size
<1> QED  BY <1>1, TreeEquation

\* What is more than a subtree of z chunks, and at most two of them, is the parent of
\* the one and the rest, and the nodes of the rest are nodes.
LEMMA TreeParent ==
  ASSUME NEW lo \in Nat, NEW hi \in Nat, NEW z \in Nat, IsPow2(z),
         lo + z * ChunkLen < hi, hi <= lo + 2 * (z * ChunkLen)
  PROVE  /\ Tree[<<lo, hi>>] = Parent(Tree[<<lo, lo + z * ChunkLen>>], Tree[<<lo + z * ChunkLen, hi>>])
         /\ Nodes[<<lo + z * ChunkLen, hi>>] \subseteq Nodes[<<lo, hi>>]
<1> DEFINE n == hi - lo
<1>1. z * ChunkLen \in Nat
  BY Lengths
<1>2. n \in Nat /\ z * ChunkLen < n /\ n <= 2 * (z * ChunkLen)
  BY <1>1
<1>3. <<lo, hi>> \in Ranges /\ Size(<<lo, hi>>) = n
  BY DEF Ranges, Size
<1> HIDE DEF n
<1>4. LeftBytes(n) = z * ChunkLen /\ n > ChunkLen
  BY <1>2, LeftBytesIs
<1>5. ~(Size(<<lo, hi>>) <= ChunkLen)
  BY <1>2, <1>3, <1>4, Lengths
<1>6. /\ <<lo, hi>>[1] = lo /\ <<lo, hi>>[2] = hi
      /\ LeftBytes(Size(<<lo, hi>>)) = z * ChunkLen
  BY <1>3, <1>4
<1>7. Tree[<<lo, hi>>] = Parent(Tree[<<lo, lo + z * ChunkLen>>], Tree[<<lo + z * ChunkLen, hi>>])
  BY <1>3, <1>5, <1>6, TreeEquation
<1>8. Nodes[<<lo, hi>>] = {<<lo, hi>>} \cup (Nodes[<<lo, lo + z * ChunkLen>>] \cup Nodes[<<lo + z * ChunkLen, hi>>])
  BY <1>3, <1>5, <1>6, NodesEquation
<1> QED  BY <1>7, <1>8

\* A range is one of its own nodes.
LEMMA NodesSelf ==
  ASSUME NEW r \in Ranges
  PROVE  r \in Nodes[r]
BY NodesEquation

-----------------------------------------------------------------------------
(* Lists and bytes *)

\* f is a list of n.
IsList(f, n) == f = [i \in 1..n |-> f[i]]

\* A list of n is a sequence of length n.
LEMMA ListIsSeq ==
  ASSUME NEW n \in Nat, NEW f, IsList(f, n)
  PROVE  f \in Seq({f[i] : i \in 1..n}) /\ Len(f) = n
<1> DEFINE S == {f[i] : i \in 1..n}
           g == [i \in 1..n |-> f[i]]
<1>1. g \in [1..n -> S]
  OBVIOUS
<1> HIDE DEF S
<1>2. g \in Seq(S) /\ Len(g) = n
  <2> HIDE DEF g
  <2>1. g \in Seq(S)
    BY <1>1
  <2> QED  BY <1>1, <2>1
<1> QED
  BY <1>2 DEF IsList, S

\* A part of a list
LEMMA SubList ==
  ASSUME NEW s, NEW a \in Int, NEW b \in Int, a <= b + 1
  PROVE  /\ IsList(SubSeq(s, a, b), b + 1 - a) /\ b + 1 - a \in Nat
         /\ \A i \in 1..b + 1 - a : SubSeq(s, a, b)[i] = s[a + i - 1]
<1> DEFINE S == {s[i] : i \in a..b}
           t == SubSeq(s, a, b)
<1>1. \A i \in a..b : s[i] \in S
  OBVIOUS
<1> HIDE DEF S
<1>2. /\ t \in Seq(S)
      /\ Len(t) = IF a <= b THEN b - a + 1 ELSE 0
      /\ \A i \in 1..b - a + 1 : t[i] = s[a + i - 1]
  BY <1>1, SubSeqProperties
<1> HIDE DEF t
<1>3. Len(t) = b + 1 - a /\ b - a + 1 = b + 1 - a /\ b + 1 - a \in Nat
  BY <1>2
<1>4. t = [i \in 1..Len(t) |-> t[i]]
  BY <1>2
<1>5. IsList(t, b + 1 - a)
  BY <1>3, <1>4 DEF IsList
<1>6. \A i \in 1..b + 1 - a : t[i] = s[a + i - 1]
  BY <1>2, <1>3
<1> QED
  BY <1>3, <1>5, <1>6 DEF t

\* A list of none is the empty one, and no other is.
LEMMA EmptyList ==
  ASSUME NEW n \in Nat, NEW f, IsList(f, n)
  PROVE  f = <<>> <=> n = 0
<1> DEFINE S == {f[i] : i \in 1..n}
<1>1. f \in Seq(S) /\ Len(f) = n
  BY ListIsSeq
<1> HIDE DEF S
<1> QED  BY <1>1, EmptySeq

\* The list of none
LEMMA NoneIsList ==
  IsList(<<>>, 0)
<1>1. <<>> \in Seq({}) /\ Len(<<>>) = 0
  BY EmptySeq
<1>2. <<>> = [i \in 1..Len(<<>>) |-> <<>>[i]]
  BY <1>1, LenProperties
<1> QED  BY <1>1, <1>2 DEF IsList

\* st begins with m of s, and has n of t behind them.
Begins(st, s, m) == \A i \in 1..m : st[i] = s[i]
Behind(st, t, m, n) == \A i \in 1..n : st[m + i] = t[i]

\* A concatenation has the one in front of the other.
LEMMA ListConcat ==
  ASSUME NEW m \in Nat, NEW n \in Nat, NEW s, NEW t, IsList(s, m), IsList(t, n)
  PROVE  /\ IsList(s \o t, m + n)
         /\ Begins(s \o t, s, m)
         /\ Behind(s \o t, t, m, n)
<1> DEFINE S == {s[i] : i \in 1..m}
           T == {t[i] : i \in 1..n}
           st == s \o t
<1>1. /\ s \in Seq(S) /\ Len(s) = m
      /\ t \in Seq(T) /\ Len(t) = n
  BY ListIsSeq
<1> HIDE DEF S, T
<1>2. s \in Seq(S \cup T) /\ t \in Seq(S \cup T)
  BY <1>1
<1>3. /\ st \in Seq(S \cup T) /\ Len(st) = Len(s) + Len(t)
      /\ \A i \in 1..Len(s) + Len(t) : st[i] = IF i <= Len(s) THEN s[i] ELSE t[i - Len(s)]
  BY <1>2, ConcatProperties
<1> HIDE DEF st
<1>4. /\ st \in Seq(S \cup T) /\ Len(st) = m + n
      /\ \A i \in 1..m + n : st[i] = IF i <= m THEN s[i] ELSE t[i - m]
  BY <1>1, <1>3
<1>5. st = [i \in 1..m + n |-> st[i]]
  BY <1>4
<1>6. IsList(st, m + n)
  BY <1>5 DEF IsList
<1>7. \A i \in 1..m : st[i] = s[i]
  BY <1>4
<1>8. ASSUME NEW i \in 1..n
      PROVE  st[m + i] = t[i]
  <2>1. m + i \in 1..m + n /\ ~(m + i <= m) /\ (m + i) - m = i
    OBVIOUS
  <2> QED  BY <1>4, <2>1
<1> QED
  BY <1>6, <1>7, <1>8 DEF st, Begins, Behind

\* st is n of s and e.
Extended(st, s, e, n) == \A i \in 1..n + 1 : st[i] = IF i = n + 1 THEN e ELSE s[i]

\* Append puts one more behind.
LEMMA ListAppend ==
  ASSUME NEW n \in Nat, NEW s, NEW e, IsList(s, n)
  PROVE  /\ IsList(Append(s, e), n + 1)
         /\ Extended(Append(s, e), s, e, n)
<1> DEFINE S == {s[i] : i \in 1..n} \cup {e}
           st == Append(s, e)
<1>1. s \in Seq(S) /\ Len(s) = n
  <2>1. s \in Seq({s[i] : i \in 1..n}) /\ Len(s) = n
    BY ListIsSeq
  <2> QED  BY <2>1
<1>2. e \in S
  OBVIOUS
<1> HIDE DEF S
<1>3. /\ st \in Seq(S) /\ Len(st) = n + 1
      /\ \A i \in 1..n : st[i] = s[i]
      /\ st[n + 1] = e
  BY <1>1, <1>2, AppendProperties
<1> HIDE DEF st
<1>4. st = [i \in 1..n + 1 |-> st[i]]
  BY <1>3
<1>5. \A i \in 1..n + 1 : st[i] = IF i = n + 1 THEN e ELSE s[i]
  BY <1>3
<1>6. IsList(st, n + 1)
  BY <1>4 DEF IsList
<1> QED
  BY <1>5, <1>6 DEF st, Extended

\* What a list is
LEMMA ListOf ==
  ASSUME NEW n \in Nat, NEW f, NEW g, IsList(f, n), IsList(g, n), \A i \in 1..n : f[i] = g[i]
  PROVE  f = g
BY DEF IsList

\* Bytes are a list, with nothing between equal ends.
LEMMA BytesList ==
  ASSUME NEW lo \in Nat, NEW hi \in Nat, lo <= hi
  PROVE  /\ IsList(Bytes(lo, hi), hi - lo) /\ hi - lo \in Nat
         /\ Len(Bytes(lo, hi)) = hi - lo
         /\ Bytes(lo, hi) = <<>> <=> lo = hi
         /\ \A i \in 1..hi - lo : Bytes(lo, hi)[i] = lo + i - 1
<1>1. hi - lo \in Nat
  OBVIOUS
<1>2. IsList(Bytes(lo, hi), hi - lo)
  BY DEF IsList, Bytes
<1>3. Len(Bytes(lo, hi)) = hi - lo
  BY <1>1, <1>2, ListIsSeq
<1>4. Bytes(lo, hi) = <<>> <=> hi - lo = 0
  BY <1>1, <1>2, EmptyList
<1>5. \A i \in 1..hi - lo : Bytes(lo, hi)[i] = lo + i - 1
  BY DEF Bytes
<1> QED  BY <1>1, <1>2, <1>3, <1>4, <1>5

\* A name for what SubSeq gives
Part(s, a, b) == SubSeq(s, a, b)

\* A part of bytes
LEMMA BytesSub ==
  ASSUME NEW lo \in Nat, NEW hi \in Nat, NEW a \in Nat, NEW b \in Nat, NEW x \in Nat, NEW y \in Nat,
         a >= 1, a <= b + 1, lo + b <= hi, x = lo + a - 1, y = lo + b
  PROVE  Part(Bytes(lo, hi), a, b) = Bytes(x, y)
<1> DEFINE s == Bytes(lo, hi)
           t == SubSeq(s, a, b)
           u == Bytes(x, y)
           n == b + 1 - a
<1>1. /\ n \in Nat /\ IsList(t, n)
      /\ \A i \in 1..n : t[i] = s[a + i - 1]
  <2> HIDE DEF s
  <2> QED  BY SubList
<1>2. x <= y /\ y - x = n
  OBVIOUS
<1>3. IsList(u, n) /\ \A i \in 1..n : u[i] = x + i - 1
  <2>1. IsList(Bytes(x, y), y - x) /\ \A i \in 1..y - x : Bytes(x, y)[i] = x + i - 1
    BY <1>2, BytesList
  <2> HIDE DEF n
  <2> QED  BY <1>2, <2>1
<1>4. \A i \in 1..hi - lo : s[i] = lo + i - 1
  BY BytesList
<1> HIDE DEF s, t, u
<1>5. \A i \in 1..n : t[i] = u[i]
  <2> TAKE i \in 1..n
  <2>1. a + i - 1 \in 1..hi - lo
    OBVIOUS
  <2>2. t[i] = lo + (a + i - 1) - 1
    BY <1>1, <1>4, <2>1
  <2> QED  BY <1>3, <2>2
<1> HIDE DEF n
<1>6. t = u
  BY <1>1, <1>3, <1>5, ListOf
<1> QED  BY <1>6 DEF s, t, u, Part

\* What is taken and dropped of bytes
LEMMA BytesTake ==
  ASSUME NEW lo \in Nat, NEW hi \in Nat, NEW n \in Nat, NEW y \in Nat, y = lo + n, y <= hi
  PROVE  /\ Take(Bytes(lo, hi), n) = Bytes(lo, y)
         /\ Drop(Bytes(lo, hi), n) = Bytes(y, hi)
<1>1. lo <= hi
  OBVIOUS
<1>2. Len(Bytes(lo, hi)) = hi - lo
  BY <1>1, BytesList
<1>3. Part(Bytes(lo, hi), 1, n) = Bytes(lo, y)
  BY BytesSub
<1>4. Part(Bytes(lo, hi), n + 1, hi - lo) = Bytes(y, hi)
  <2> DEFINE a == n + 1
             b == hi - lo
  <2>1. a \in Nat /\ a >= 1 /\ b \in Nat /\ a <= b + 1 /\ lo + b <= hi /\ y = lo + a - 1 /\ hi = lo + b
    OBVIOUS
  <2> HIDE DEF a, b
  <2>2. Part(Bytes(lo, hi), a, b) = Bytes(y, hi)
    BY <2>1, BytesSub
  <2> QED  BY <2>2 DEF a, b
<1>5. Part(Bytes(lo, hi), n + 1, Len(Bytes(lo, hi))) = Bytes(y, hi)
  BY <1>2, <1>4
<1>6. Take(Bytes(lo, hi), n) = Part(Bytes(lo, hi), 1, n)
  BY DEF Take, Part
<1>7. Drop(Bytes(lo, hi), n) = Part(Bytes(lo, hi), n + 1, Len(Bytes(lo, hi)))
  BY DEF Drop, Part
<1> QED  BY <1>3, <1>5, <1>6, <1>7

\* Adjacent bytes, joined
LEMMA BytesConcat ==
  ASSUME NEW lo \in Nat, NEW mid \in Nat, NEW hi \in Nat, lo <= mid, mid <= hi
  PROVE  Bytes(lo, mid) \o Bytes(mid, hi) = Bytes(lo, hi)
<1> DEFINE s == Bytes(lo, mid)
           t == Bytes(mid, hi)
           m == mid - lo
           n == hi - mid
<1>1. m \in Nat /\ n \in Nat /\ IsList(s, m) /\ IsList(t, n)
  BY BytesList
<1>2. /\ \A i \in 1..m : s[i] = lo + i - 1
      /\ \A i \in 1..n : t[i] = mid + i - 1
  BY BytesList
<1>3. /\ IsList(s \o t, m + n)
      /\ Begins(s \o t, s, m)
      /\ Behind(s \o t, t, m, n)
  <2> HIDE DEF s, t, m, n
  <2> QED  BY <1>1, ListConcat
<1>4. m + n = hi - lo /\ m + n \in Nat
  OBVIOUS
<1>5. IsList(Bytes(lo, hi), m + n) /\ \A i \in 1..m + n : Bytes(lo, hi)[i] = lo + i - 1
  <2>1. IsList(Bytes(lo, hi), hi - lo) /\ \A i \in 1..hi - lo : Bytes(lo, hi)[i] = lo + i - 1
    BY BytesList
  <2> HIDE DEF m, n
  <2> QED  BY <1>4, <2>1
<1> HIDE DEF s, t
<1> DEFINE st == s \o t
<1>30. /\ IsList(st, m + n)
       /\ \A i \in 1..m : st[i] = s[i]
       /\ \A i \in 1..n : st[m + i] = t[i]
  BY <1>3 DEF Begins, Behind
<1> HIDE DEF st
<1>6. \A i \in 1..m + n : st[i] = Bytes(lo, hi)[i]
  <2> TAKE i \in 1..m + n
  <2>1. CASE i <= m
    <3>1. i \in 1..m
      BY <2>1
    <3>2. st[i] = lo + i - 1
      BY <1>2, <1>30, <2>1, <3>1
    <3> QED  BY <1>5, <3>2
  <2>2. CASE ~(i <= m)
    <3>1. i - m \in 1..n
      BY <1>1, <2>2
    <3>2. st[i] = mid + (i - m) - 1
      <4>1. m + (i - m) = i
        OBVIOUS
      <4>2. st[m + (i - m)] = t[i - m]
        BY <1>30, <3>1
      <4> QED  BY <1>2, <3>1, <4>1, <4>2
    <3>3. mid + (i - m) - 1 = lo + i - 1
      OBVIOUS
    <3> QED  BY <1>5, <3>2, <3>3
  <2> QED  BY <2>1, <2>2
<1> HIDE DEF m, n
<1>7. st = Bytes(lo, hi)
  BY <1>30, <1>4, <1>5, <1>6, ListOf
<1> QED  BY <1>7 DEF s, t, st

-----------------------------------------------------------------------------
(* A chunk that is being filled *)

\* The first w blocks of the chunk at lo, none its last
Blocks(lo, w) ==
  [i \in 1..w |-> Block(Bytes(lo + (i - 1) * BlockLen, lo + i * BlockLen), i = 1, FALSE)]

\* The state of chunk k, at lo, with the bytes up to x: w blocks are compressed and the
\* rest is in the buffer.
Filled(k, lo, w, x) ==
  [counter |-> k, done |-> Blocks(lo, w), buf |-> Bytes(lo + w * BlockLen, x)]

\* The last block is kept, full or not.
Kept(lo, w, x) ==
  /\ w \in Nat
  /\ (x = lo /\ w = 0) \/ (lo + w * BlockLen < x /\ x <= lo + w * BlockLen + BlockLen)

\* The blocks are a list of w.
LEMMA BlocksFacts ==
  ASSUME NEW lo \in Nat, NEW w \in Nat
  PROVE  /\ IsList(Blocks(lo, w), w) /\ Len(Blocks(lo, w)) = w
         /\ Blocks(lo, w) = <<>> <=> w = 0
         /\ \A i \in 1..w : Blocks(lo, w)[i] =
              Block(Bytes(lo + (i - 1) * BlockLen, lo + i * BlockLen), i = 1, FALSE)
<1>1. /\ IsList(Blocks(lo, w), w)
      /\ \A i \in 1..w : Blocks(lo, w)[i] =
              Block(Bytes(lo + (i - 1) * BlockLen, lo + i * BlockLen), i = 1, FALSE)
  BY DEF IsList, Blocks
<1>2. Len(Blocks(lo, w)) = w
  BY <1>1, ListIsSeq
<1>3. Blocks(lo, w) = <<>> <=> w = 0
  BY <1>1, EmptyList
<1> QED  BY <1>1, <1>2, <1>3

\* One block more
LEMMA BlocksNext ==
  ASSUME NEW lo \in Nat, NEW w \in Nat
  PROVE  Append(Blocks(lo, w), Block(Bytes(lo + w * BlockLen, lo + w * BlockLen + BlockLen), w = 0, FALSE))
           = Blocks(lo, w + 1)
<1> DEFINE s == Blocks(lo, w)
           e == Block(Bytes(lo + w * BlockLen, lo + w * BlockLen + BlockLen), w = 0, FALSE)
           t == Append(s, e)
           u == Blocks(lo, w + 1)
<1>1. /\ IsList(s, w)
      /\ \A i \in 1..w : s[i] = Block(Bytes(lo + (i - 1) * BlockLen, lo + i * BlockLen), i = 1, FALSE)
  BY BlocksFacts
<1>2. /\ IsList(t, w + 1)
      /\ \A i \in 1..w + 1 : t[i] = IF i = w + 1 THEN e ELSE s[i]
  <2>1. IsList(t, w + 1) /\ Extended(t, s, e, w)
    <3> HIDE DEF s, e
    <3> QED  BY <1>1, ListAppend
  <2> HIDE DEF s, e, t
  <2> QED  BY <2>1 DEF Extended
<1>3. /\ IsList(u, w + 1)
      /\ \A i \in 1..w + 1 : u[i] = Block(Bytes(lo + (i - 1) * BlockLen, lo + i * BlockLen), i = 1, FALSE)
  BY DEF Blocks, IsList
<1>4. u[w + 1] = e
  <2>1. (w + 1) - 1 = w /\ (w + 1) * BlockLen = w * BlockLen + BlockLen /\ w + 1 \in 1..w + 1
    BY Lengths
  <2>2. lo + (w + 1) * BlockLen = lo + w * BlockLen + BlockLen
    BY <2>1, Lengths
  <2>3. (w + 1 = 1) <=> (w = 0)
    OBVIOUS
  <2>4. (w + 1 = 1) = (w = 0)
    BY <2>3
  <2>5. u[w + 1] = Block(Bytes(lo + ((w + 1) - 1) * BlockLen, lo + (w + 1) * BlockLen), w + 1 = 1, FALSE)
    BY <1>3, <2>1
  <2> HIDE DEF u
  <2> QED  BY <2>1, <2>2, <2>4, <2>5
<1> HIDE DEF s, t, u, e
<1>5. \A i \in 1..w + 1 : t[i] = u[i]
  <2> TAKE i \in 1..w + 1
  <2>1. CASE i = w + 1
    BY <1>2, <1>4, <2>1
  <2>2. CASE i # w + 1
    <3>1. i \in 1..w
      BY <2>2
    <3> QED  BY <1>1, <1>2, <1>3, <2>2, <3>1
  <2> QED  BY <2>1, <2>2
<1>6. t = u
  BY <1>2, <1>3, <1>5, ListOf
<1> QED  BY <1>6 DEF s, t, u, e

\* Changing the buffer of a chunk's state, ...
LEMMA NewBuf ==
  ASSUME NEW a, NEW b, NEW c, NEW e, NEW r, r = [counter |-> a, done |-> b, buf |-> c]
  PROVE  [r EXCEPT !.buf = e] = [counter |-> a, done |-> b, buf |-> e]
OBVIOUS

\* ... its counter, ...
LEMMA NewCounter ==
  ASSUME NEW a, NEW b, NEW c, NEW e, NEW r, r = [counter |-> a, done |-> b, buf |-> c]
  PROVE  [r EXCEPT !.counter = e] = [counter |-> e, done |-> b, buf |-> c]
OBVIOUS

\* ... and the blocks
LEMMA NewDone ==
  ASSUME NEW a, NEW b, NEW c, NEW d, NEW r, r = [counter |-> a, done |-> b, buf |-> c]
  PROVE  [r EXCEPT !.done = d] = [counter |-> a, done |-> d, buf |-> c]
OBVIOUS

\* What the state of a chunk tells
LEMMA FilledFacts ==
  ASSUME NEW k, NEW lo \in Nat, NEW w \in Nat, NEW x \in Nat, lo + w * BlockLen <= x
  PROVE  /\ Count(Filled(k, lo, w, x)) = x - lo
         /\ Filled(k, lo, w, x).counter = k
         /\ Filled(k, lo, w, x).done = Blocks(lo, w)
         /\ Filled(k, lo, w, x).buf = Bytes(lo + w * BlockLen, x)
         /\ Filled(k, lo, w, x).done = <<>> <=> w = 0
         /\ Len(Filled(k, lo, w, x).buf) = x - (lo + w * BlockLen)
         /\ Filled(k, lo, w, x).buf = <<>> <=> x = lo + w * BlockLen
<1>1. /\ Filled(k, lo, w, x).counter = k
      /\ Filled(k, lo, w, x).done = Blocks(lo, w)
      /\ Filled(k, lo, w, x).buf = Bytes(lo + w * BlockLen, x)
  BY DEF Filled
<1> DEFINE y == lo + w * BlockLen
<1>2. y \in Nat /\ y <= x
  BY Lengths
<1>3. Len(Bytes(y, x)) = x - y /\ (Bytes(y, x) = <<>> <=> y = x)
  <2> HIDE DEF y
  <2> QED  BY <1>2, BytesList
<1>4. Len(Blocks(lo, w)) = w /\ (Blocks(lo, w) = <<>> <=> w = 0)
  BY BlocksFacts
<1>5. Count(Filled(k, lo, w, x)) = BlockLen * w + (x - y)
  BY <1>1, <1>3, <1>4 DEF Count
<1>6. BlockLen * w + (x - y) = x - lo
  BY Lengths
<1> QED  BY <1>1, <1>3, <1>4, <1>5, <1>6

\* Filling the buffer
LEMMA FillIs ==
  ASSUME NEW k, NEW lo \in Nat, NEW w \in Nat, NEW x \in Nat, NEW y \in Nat,
         lo + w * BlockLen <= x, x <= y
  PROVE  FillBuf(Filled(k, lo, w, x), Bytes(x, y)) = Filled(k, lo, w, y)
<1> DEFINE b == lo + w * BlockLen
<1>1. b \in Nat /\ b <= x
  BY Lengths
<1>2. Bytes(b, x) \o Bytes(x, y) = Bytes(b, y)
  <2> HIDE DEF b
  <2> QED  BY <1>1, BytesConcat
<1> DEFINE c == Filled(k, lo, w, x)
<1>3. FillBuf(c, Bytes(x, y)) = [c EXCEPT !.buf = c.buf \o Bytes(x, y)]
  BY DEF FillBuf
<1>4. c = [counter |-> k, done |-> Blocks(lo, w), buf |-> Bytes(b, x)]
  BY DEF Filled
<1>5. c.buf = Bytes(b, x)
  BY <1>4
<1> HIDE DEF c
<1>6. [c EXCEPT !.buf = Bytes(b, y)] = [counter |-> k, done |-> Blocks(lo, w), buf |-> Bytes(b, y)]
  BY <1>4, NewBuf
<1>7. FillBuf(c, Bytes(x, y)) = [c EXCEPT !.buf = Bytes(b, y)]
  <2> HIDE DEF b
  <2> QED  BY <1>2, <1>3, <1>5
<1> QED  BY <1>6, <1>7 DEF Filled, c

\* Compressing the next block
LEMMA CompressIs ==
  ASSUME NEW k, NEW lo \in Nat, NEW w \in Nat, NEW x \in Nat, NEW b \in Nat, NEW y \in Nat, NEW v \in Nat,
         b = lo + w * BlockLen, y = b + BlockLen, v = w + 1
  PROVE  Compress(Filled(k, lo, w, x), Bytes(b, y)) = Filled(k, lo, v, y)
<1> DEFINE c == Filled(k, lo, w, x)
           d == Append(c.done, Block(Bytes(b, y), c.done = <<>>, FALSE))
<1>1. y = lo + v * BlockLen
  BY Lengths
<1>2. Bytes(y, y) = <<>>
  BY BytesList
<1>3. c = [counter |-> k, done |-> Blocks(lo, w), buf |-> Bytes(b, x)] /\ c.done = Blocks(lo, w)
  BY DEF Filled
<1>4. Compress(c, Bytes(b, y)) = [c EXCEPT !.done = d, !.buf = <<>>]
  BY DEF Compress
<1> HIDE DEF c
<1>5. (c.done = <<>>) = (w = 0)
  <2>1. Blocks(lo, w) = <<>> <=> w = 0
    BY BlocksFacts
  <2> QED  BY <1>3, <2>1
<1>6. d = Blocks(lo, v)
  <2>1. Append(Blocks(lo, w), Block(Bytes(lo + w * BlockLen, lo + w * BlockLen + BlockLen), w = 0, FALSE))
          = Blocks(lo, w + 1)
    BY BlocksNext
  <2> QED  BY <1>3, <1>5, <2>1
<1> HIDE DEF d
<1>7. [c EXCEPT !.done = d, !.buf = <<>>] = [counter |-> k, done |-> d, buf |-> <<>>]
  <2> DEFINE q == [c EXCEPT !.done = d]
  <2>1. [c EXCEPT !.done = d, !.buf = <<>>] = [q EXCEPT !.buf = <<>>]
    BY <1>3
  <2>2. q = [counter |-> k, done |-> d, buf |-> Bytes(b, x)]
    BY <1>3, NewDone
  <2> HIDE DEF q
  <2>3. [q EXCEPT !.buf = <<>>] = [counter |-> k, done |-> d, buf |-> <<>>]
    BY <2>2, NewBuf
  <2> QED  BY <2>1, <2>3
<1>8. Filled(k, lo, v, y) = [counter |-> k, done |-> Blocks(lo, v), buf |-> <<>>]
  BY <1>1, <1>2 DEF Filled
<1> QED  BY <1>4, <1>6, <1>7, <1>8 DEF c

\* A number is a multiple and a rest.
LEMMA Quotient ==
  ASSUME NEW w \in Nat \ {0}, NEW x \in Nat
  PROVE  /\ x \div w \in Nat /\ x % w \in 0..w - 1
         /\ x = w * (x \div w) + (x % w)
BY SMTT(30)

\* There is one quotient.
LEMMA QuotientIs ==
  ASSUME NEW w \in Nat \ {0}, NEW x \in Nat, NEW q \in Nat, w * q <= x, x < w * q + w
  PROVE  x \div w = q
<1> DEFINE p == x \div w
           r == x % w
<1>1. p \in Nat /\ r \in 0..w - 1 /\ x = w * p + r
  BY Quotient
<1> HIDE DEF p, r
<1>2. ASSUME NEW a \in Nat, NEW b \in Nat, a < b
      PROVE  w * a + w <= w * b
  <2>1. PICK e \in Nat : b = a + 1 + e
    <3>1. b - a - 1 \in Nat /\ b = a + 1 + (b - a - 1)
      BY <1>2
    <3> QED  BY <3>1
  <2>2. w * b = w * a + w + w * e /\ w * e \in Nat /\ w * a \in Nat
    BY <2>1
  <2> QED  BY <2>2
<1>3. ~(p < q)
  <2> SUFFICES ASSUME p < q PROVE FALSE
    OBVIOUS
  <2>1. w * p + w <= w * q /\ w * p \in Nat /\ w * q \in Nat
    BY <1>1, <1>2
  <2> QED  BY <1>1, <2>1
<1>4. ~(q < p)
  <2> SUFFICES ASSUME q < p PROVE FALSE
    OBVIOUS
  <2>1. w * q + w <= w * p /\ w * p \in Nat /\ w * q \in Nat
    BY <1>1, <1>2
  <2> QED  BY <1>1, <2>1
<1>5. p = q
  BY <1>1, <1>3, <1>4
<1> QED  BY <1>5 DEF p

\* d compresses blocks straight from the input.
Compresses(d, first, rest, n) ==
  d = [i \in 0..n |->
         IF i = 0 THEN first
         ELSE Compress(d[i - 1], SubSeq(rest, (i - 1) * BlockLen + 1, i * BlockLen))]

Direct(first, rest, n) == CHOOSE d : Compresses(d, first, rest, n)

\* From b to y there are blocks v up to q, and hi is past them.
Straight(lo, v, b, whole, q, y, hi) ==
  /\ lo \in Nat /\ v \in Nat /\ hi \in Nat /\ whole \in Nat
  /\ b \in Nat /\ b = lo + v * BlockLen
  /\ q \in Nat /\ q = v + whole /\ y \in Nat /\ y = lo + q * BlockLen /\ y < hi

\* Blocks straight from the input, of a chunk whose v blocks are compressed
LEMMA DirectIs ==
  ASSUME NEW k, NEW lo, NEW v, NEW b, NEW whole, NEW q, NEW y, NEW hi,
         Straight(lo, v, b, whole, q, y, hi)
  PROVE  Direct(Filled(k, lo, v, b), Bytes(b, hi), whole)[whole] = Filled(k, lo, q, y)
<1> DEFINE first == Filled(k, lo, v, b)
           rest == Bytes(b, hi)
<1>0. /\ lo \in Nat /\ v \in Nat /\ hi \in Nat /\ whole \in Nat
      /\ b \in Nat /\ b = lo + v * BlockLen
      /\ q \in Nat /\ q = v + whole /\ y \in Nat /\ y = lo + q * BlockLen /\ y < hi
  BY DEF Straight
<1> USE <1>0
<1> DEFINE F(i) == Filled(k, lo, v + i, lo + (v + i) * BlockLen)
           Turn(d, i) == IF i = 0 THEN first
                         ELSE Compress(d[i - 1], SubSeq(rest, (i - 1) * BlockLen + 1, i * BlockLen))
           e == [i \in 0..whole |-> F(i)]
           direct == CHOOSE d : Compresses(d, first, rest, whole)
<1>1. F(0) = first
  BY Lengths
<1>2. ASSUME NEW i \in 1..whole
      PROVE  Compress(F(i - 1), SubSeq(rest, (i - 1) * BlockLen + 1, i * BlockLen)) = F(i)
  <2> DEFINE w == v + (i - 1)
             u == v + i
             m == (i - 1) * BlockLen + 1
             n == i * BlockLen
             from == lo + w * BlockLen
             to == lo + u * BlockLen
  <2>1. /\ w \in Nat /\ u \in Nat /\ u = w + 1 /\ m \in Nat /\ n \in Nat /\ from \in Nat /\ to \in Nat
        /\ m >= 1 /\ m <= n + 1
        /\ from = b + m - 1 /\ to = b + n /\ to = from + BlockLen
    BY Lengths
  <2>2. to <= hi
    <3>1. u * BlockLen <= q * BlockLen /\ u * BlockLen \in Nat /\ q * BlockLen \in Nat
      BY MulMono, Lengths
    <3> HIDE DEF u
    <3> QED  BY <3>1
  <2>3. from = lo + w * BlockLen /\ F(i - 1) = Filled(k, lo, w, from) /\ F(i) = Filled(k, lo, u, to)
    OBVIOUS
  <2> HIDE DEF F, Turn, e, direct, w, u, m, n, from, to
  <2>4. b + n <= hi
    BY <2>1, <2>2
  <2>5. SubSeq(rest, m, n) = Bytes(from, to)
    <3>1. Part(Bytes(b, hi), m, n) = Bytes(from, to)
      BY <2>1, <2>4, BytesSub
    <3>2. SubSeq(rest, m, n) = Part(rest, m, n)
      BY DEF Part
    <3> QED  BY <3>1, <3>2
  <2>6. Compress(Filled(k, lo, w, from), Bytes(from, to)) = Filled(k, lo, u, to)
    BY <2>1, <2>3, CompressIs
  <2>7. Compress(F(i - 1), SubSeq(rest, m, n)) = F(i)
    BY <2>3, <2>5, <2>6
  <2> QED  BY <2>7 DEF m, n
<1> HIDE DEF F
<1>3. Compresses(e, first, rest, whole)
  <2>1. ASSUME NEW i \in 0..whole
        PROVE  F(i) = Turn(e, i)
    <3>1. CASE i = 0
      BY <1>1, <3>1
    <3>2. CASE i # 0
      <4>1. i \in 1..whole /\ i - 1 \in 0..whole
        BY <3>2
      <4>2. e[i - 1] = F(i - 1)
        BY <4>1
      <4> HIDE DEF e
      <4> QED  BY <1>2, <3>2, <4>1, <4>2
    <3> QED  BY <3>1, <3>2
  <2>2. e = [i \in 0..whole |-> F(i)]
    OBVIOUS
  <2> HIDE DEF e, Turn
  <2>3. e = [i \in 0..whole |-> Turn(e, i)]
    BY <2>1, <2>2
  <2> QED  BY <2>3 DEF Turn, Compresses
<1>4. Compresses(direct, first, rest, whole)
  BY <1>3
<1> HIDE DEF direct
<1> DEFINE S == {i \in Nat : i <= whole => direct[i] = F(i)}
<1>5. \A i \in 0..whole : direct[i] = Turn(direct, i)
  <2>1. direct = [i \in 0..whole |-> Turn(direct, i)]
    BY <1>4 DEF Compresses
  <2> HIDE DEF Turn
  <2> QED  BY <2>1
<1>6. 0 \in S
  BY <1>1, <1>5
<1>7. ASSUME NEW i \in Nat, i \in S
      PROVE  i + 1 \in S
  <2> SUFFICES ASSUME i + 1 <= whole PROVE direct[i + 1] = F(i + 1)
    OBVIOUS
  <2>1. /\ i + 1 \in 0..whole /\ i + 1 \in 1..whole /\ (i + 1) - 1 = i /\ i + 1 # 0
        /\ direct[i] = F(i)
    BY <1>7
  <2>2. direct[i + 1] = Compress(direct[(i + 1) - 1], SubSeq(rest, ((i + 1) - 1) * BlockLen + 1, (i + 1) * BlockLen))
    BY <1>5, <2>1
  <2>3. Compress(F((i + 1) - 1), SubSeq(rest, ((i + 1) - 1) * BlockLen + 1, (i + 1) * BlockLen)) = F(i + 1)
    BY <1>2, <2>1
  <2> QED  BY <2>1, <2>2, <2>3
<1>8. Nat \subseteq S
  <2> HIDE DEF S
  <2> QED  BY <1>6, <1>7, Induction
<1>9. direct[whole] = F(whole)
  BY <1>8
<1> QED
  BY <1>9 DEF direct, F, Direct

\* update of a chunk appends the bytes.
LEMMA ChunkUpdateIs ==
  ASSUME NEW k, NEW lo \in Nat, NEW w \in Nat, NEW mid \in Nat, NEW hi \in Nat,
         Kept(lo, w, mid), mid <= hi
  PROVE  \E v \in Nat : /\ Kept(lo, v, hi)
                        /\ ChunkUpdate(Filled(k, lo, w, mid), Bytes(mid, hi)) = Filled(k, lo, v, hi)
<1> DEFINE c == Filled(k, lo, w, mid)
           bytes == Bytes(mid, hi)
           take == IF c.buf # <<>> THEN Min2(BlockLen - Len(c.buf), Len(bytes)) ELSE 0
           filled == FillBuf(c, Take(bytes, take))
           rest == Drop(bytes, take)
           first == IF filled.buf # <<>> /\ rest # <<>> THEN Compress(filled, filled.buf) ELSE filled
           whole == IF rest = <<>> THEN 0 ELSE (Len(rest) - 1) \div BlockLen
           direct == CHOOSE d : Compresses(d, first, rest, whole)
           b == lo + w * BlockLen
           m == mid + take
<1>1. ChunkUpdate(c, bytes) = FillBuf(direct[whole], Drop(rest, whole * BlockLen))
  BY DEF ChunkUpdate, Compresses
<1>2. /\ b \in Nat /\ b <= mid /\ mid <= b + BlockLen
      /\ (mid = b <=> mid = lo) /\ (mid = b => w = 0)
  BY Lengths DEF Kept
<1>3. /\ c.buf = Bytes(b, mid) /\ Len(c.buf) = mid - b
      /\ c.buf = <<>> <=> mid = b
  BY <1>2, FilledFacts
<1>4. Len(bytes) = hi - mid
  BY BytesList
<1>5. /\ take \in Nat /\ mid + take <= hi
      /\ mid = b => take = 0
      /\ mid # b => \/ mid + take = b + BlockLen
                    \/ mid + take = hi /\ hi <= b + BlockLen
  <2> HIDE DEF c, bytes, b
  <2> QED  BY <1>2, <1>3, <1>4, Lengths DEF Min2
<1> HIDE DEF take
<1>6. Take(bytes, take) = Bytes(mid, m) /\ rest = Bytes(m, hi) /\ m \in Nat /\ mid <= m /\ m <= hi
  <2>1. m \in Nat /\ mid <= m /\ m <= hi /\ m = mid + take
    BY <1>5
  <2> HIDE DEF m, b, direct, whole, first, filled
  <2>2. Take(Bytes(mid, hi), take) = Bytes(mid, m) /\ Drop(Bytes(mid, hi), take) = Bytes(m, hi)
    BY <1>5, <2>1, BytesTake
  <2> QED  BY <2>1, <2>2
<1>7. filled = Filled(k, lo, w, m)
  <2> HIDE DEF m
  <2>1. filled = FillBuf(c, Bytes(mid, m))
    BY <1>6
  <2> QED  BY <1>2, <1>6, <2>1, FillIs
<1>8. /\ filled.buf = Bytes(b, m)
      /\ filled.buf = <<>> <=> m = b
  <2> HIDE DEF m, filled
  <2>1. lo + w * BlockLen <= m
    BY <1>2, <1>6
  <2> QED  BY <1>6, <1>7, <2>1, FilledFacts
<1>9. (rest = <<>> <=> m = hi) /\ Len(rest) = hi - m
  <2> HIDE DEF m, rest
  <2> QED  BY <1>6, BytesList
<1> HIDE DEF m, filled, rest, c
<1>10. CASE m = hi
  <2>1. first = filled /\ whole = 0 /\ rest = <<>>
    BY <1>9, <1>10
  <2> HIDE DEF first, whole
  <2>2. direct[whole] = filled
    <3>1. direct[0] = first
      <4> DEFINE e == [i \in 0..0 |-> first]
      <4>1. Compresses(e, first, rest, 0)
        BY DEF Compresses
      <4>2. Compresses(direct, first, rest, 0)
        BY <2>1, <4>1
      <4> HIDE DEF direct
      <4>3. direct = [i \in 0..0 |-> IF i = 0 THEN first
                       ELSE Compress(direct[i - 1], SubSeq(rest, (i - 1) * BlockLen + 1, i * BlockLen))]
        BY <4>2 DEF Compresses
      <4> QED  BY <4>3
    <3> HIDE DEF direct
    <3> QED  BY <2>1, <3>1
  <2> HIDE DEF direct
  <2>3. Drop(rest, whole * BlockLen) = Bytes(hi, hi)
    <3>1. whole * BlockLen = 0
      BY <2>1, Lengths
    <3>2. rest = Bytes(hi, hi)
      BY <1>6, <1>10
    <3>3. Drop(Bytes(hi, hi), 0) = Bytes(hi, hi)
      BY BytesTake
    <3> QED  BY <3>1, <3>2, <3>3
  <2>4. FillBuf(filled, Bytes(hi, hi)) = Filled(k, lo, w, hi)
    BY <1>2, <1>7, <1>10, FillIs
  <2>5. Kept(lo, w, hi)
    BY <1>2, <1>5, <1>6, <1>10, Lengths DEF Kept, m
  <2> QED  BY <1>1, <2>2, <2>3, <2>4, <2>5 DEF c
<1>11. CASE m # hi
  <2>1. PICK v \in Nat : first = Filled(k, lo, v, lo + v * BlockLen) /\ m = lo + v * BlockLen
    <3>1. CASE mid = b
      <4>1. m = b
        BY <1>5, <3>1 DEF m
      <4>2. first = filled
        BY <1>8, <4>1
      <4> QED  BY <1>7, <4>1, <4>2
    <3>2. CASE mid # b
      <4>1. m = b + BlockLen
        BY <1>5, <1>11, <3>2 DEF m
      <4>2. m # b
        BY <1>2, <4>1, Lengths
      <4>3. first = Compress(filled, Bytes(b, b + BlockLen))
        BY <1>8, <1>9, <1>11, <4>1, <4>2
      <4>4. first = Filled(k, lo, w + 1, lo + (w + 1) * BlockLen)
        <5> DEFINE v == w + 1
        <5>0. v \in Nat /\ v = w + 1
          OBVIOUS
        <5>1. b = lo + w * BlockLen
          OBVIOUS
        <5>2. lo + (w + 1) * BlockLen = m
          BY <4>1, Lengths
        <5> HIDE DEF first, v, b
        <5>3. Compress(Filled(k, lo, w, m), Bytes(b, m)) = Filled(k, lo, v, m)
          BY <1>2, <1>6, <4>1, <5>0, <5>1, CompressIs
        <5> QED  BY <1>7, <4>1, <4>3, <5>2, <5>3 DEF v
      <4>5. m = lo + (w + 1) * BlockLen /\ w + 1 \in Nat
        BY <4>1, Lengths
      <4> QED  BY <4>4, <4>5
    <3> QED  BY <3>1, <3>2
  <2>2. whole = (hi - m - 1) \div BlockLen
    BY <1>9, <1>11
  <2>3. hi - m - 1 \in Nat /\ BlockLen \in Nat \ {0}
    BY <1>6, <1>11, Lengths
  <2> HIDE DEF first, whole
  <2>4. whole \in Nat /\ BlockLen * whole <= hi - m - 1 /\ hi - m - 1 < BlockLen * whole + BlockLen
    <3> DEFINE x == hi - m - 1
               r == x % BlockLen
    <3>1. x \in Nat /\ whole = x \div BlockLen
      BY <2>2, <2>3
    <3> HIDE DEF x
    <3>2. whole \in Nat /\ r \in 0..BlockLen - 1 /\ x = BlockLen * whole + r
      BY <2>3, <3>1, Quotient
    <3> HIDE DEF r
    <3>3. BlockLen * whole \in Nat
      BY <3>2, Lengths
    <3>4. BlockLen * whole <= x /\ x < BlockLen * whole + BlockLen
      BY <3>2, <3>3, Lengths
    <3> QED  BY <3>2, <3>4 DEF x
  <2> DEFINE q == v + whole
             y == lo + q * BlockLen
             n == whole * BlockLen
  <2>5. /\ q \in Nat /\ q = v + whole /\ y \in Nat /\ y = lo + q * BlockLen
        /\ n \in Nat /\ n = BlockLen * whole /\ y = m + n
    BY <2>1, <2>4, Lengths
  <2> HIDE DEF q, y, n, direct, b
  <2>6. y < hi /\ hi <= y + BlockLen
    BY <1>6, <2>4, <2>5, Lengths
  <2>7. direct[whole] = Filled(k, lo, q, y)
    <3>1. whole \in Nat
      BY <2>4
    <3>2. y < hi
      BY <2>6
    <3>3. q \in Nat /\ q = v + whole /\ y \in Nat /\ y = lo + q * BlockLen
      BY <2>5
    <3>4. rest = Bytes(m, hi) /\ m \in Nat
      BY <1>6
    <3>5. m = lo + v * BlockLen
      BY <2>1
    <3>6. first = Filled(k, lo, v, m)
      BY <2>1
    <3> HIDE DEF bytes
    <3>9. Straight(lo, v, m, whole, q, y, hi)
      BY <3>1, <3>2, <3>3, <3>4, <3>5 DEF Straight
    <3>7. Direct(Filled(k, lo, v, m), Bytes(m, hi), whole)[whole] = Filled(k, lo, q, y)
      BY <3>9, DirectIs
    <3>8. direct = Direct(first, rest, whole)
      BY DEF direct, Direct
    <3> QED  BY <3>4, <3>6, <3>7, <3>8
  <2>8. Drop(rest, n) = Bytes(y, hi)
    <3>1. Drop(Bytes(m, hi), n) = Bytes(y, hi)
      BY <1>6, <2>5, <2>6, BytesTake
    <3> QED  BY <1>6, <3>1
  <2>9. FillBuf(Filled(k, lo, q, y), Bytes(y, hi)) = Filled(k, lo, q, hi)
    BY <2>5, <2>6, FillIs
  <2>10. Kept(lo, q, hi) /\ q \in Nat
    BY <2>5, <2>6 DEF Kept
  <2> QED  BY <1>1, <2>7, <2>8, <2>9, <2>10 DEF c, n
<1> QED  BY <1>10, <1>11

-----------------------------------------------------------------------------
(* What a chunk comes to *)

\* Chunk k is at lo, and its bytes up to x are taken, w blocks of them compressed.
InChunk(k, lo, w, x) ==
  /\ k \in Nat /\ lo \in Nat /\ lo = k * ChunkLen /\ w \in Nat /\ x \in Nat
  /\ lo <= x /\ Kept(lo, w, x)

\* A state of a chunk has a block for every block's length begun, and one if it is
\* empty.
LEMMA BlockCount ==
  ASSUME NEW k, NEW lo, NEW w, NEW x, InChunk(k, lo, w, x)
  PROVE  /\ (IF x = lo THEN 1 ELSE DivCeil(x - lo, BlockLen)) = w + 1
         /\ lo \div ChunkLen = k
         /\ lo + w * BlockLen \in Nat /\ lo + w * BlockLen <= x
<1>1. /\ k \in Nat /\ lo \in Nat /\ lo = k * ChunkLen /\ w \in Nat /\ x \in Nat
      /\ lo <= x
      /\ (x = lo /\ w = 0) \/ (lo + w * BlockLen < x /\ x <= lo + w * BlockLen + BlockLen)
  BY DEF InChunk, Kept
<1>2. lo \div ChunkLen = k
  <2>1. ChunkLen * k <= lo /\ lo < ChunkLen * k + ChunkLen /\ ChunkLen \in Nat \ {0}
    BY <1>1, Lengths
  <2> QED  BY <1>1, <2>1, QuotientIs
<1> DEFINE n == w * BlockLen
<1>3. /\ n \in Nat /\ lo + n <= x
      /\ (x = lo /\ w = 0) \/ (lo + n < x /\ x <= lo + n + BlockLen)
      /\ w = 0 => n = 0
  BY <1>1, Lengths
<1>30. BlockLen * (w + 1) = n + BlockLen
  BY <1>1, Lengths
<1> HIDE DEF n
<1>4. CASE x = lo
  <2>1. w = 0
    BY <1>1, <1>3, <1>4, Lengths
  <2> QED  BY <1>1, <1>2, <1>3, <1>4, <2>1 DEF n
<1>5. CASE x # lo
  <2>1. n < x - lo /\ x - lo <= n + BlockLen
    BY <1>1, <1>3, <1>5, Lengths
  <2> DEFINE a == x - lo + BlockLen - 1
             b == w + 1
  <2>2. a \in Nat /\ b \in Nat /\ BlockLen \in Nat \ {0}
    BY <1>1, Lengths
  <2>3. BlockLen * b = n + BlockLen
    BY <1>30
  <2>4. BlockLen * b <= a /\ a < BlockLen * b + BlockLen
    BY <1>1, <1>3, <2>1, <2>3, Lengths
  <2>5. DivCeil(x - lo, BlockLen) = a \div BlockLen
    BY DEF DivCeil
  <2> HIDE DEF a, b
  <2>6. a \div BlockLen = b
    BY <2>2, <2>4, QuotientIs
  <2>7. DivCeil(x - lo, BlockLen) = w + 1
    BY <2>5, <2>6 DEF b
  <2> QED  BY <1>1, <1>2, <1>3, <1>5, <2>7 DEF n
<1> QED  BY <1>4, <1>5

\* With its last block, it is the chunk of the tree.
Closed(lo, w, x) == Append(Blocks(lo, w), Block(Bytes(lo + w * BlockLen, x), w = 0, TRUE))

\* The list of blocks so closed makes the chunk of the tree.
LEMMA LastBlock ==
  ASSUME NEW k, NEW lo, NEW w, NEW x, InChunk(k, lo, w, x)
  PROVE  Chunk(k, Closed(lo, w, x)) = ChunkOf(lo, x)
<1> DEFINE last == IF x = lo THEN 1 ELSE DivCeil(x - lo, BlockLen)
           end(i) == IF i = last THEN x ELSE lo + i * BlockLen
           u == [i \in 1..last |-> Block(Bytes(lo + (i - 1) * BlockLen, end(i)), i = 1, i = last)]
           s == Blocks(lo, w)
           e == Block(Bytes(lo + w * BlockLen, x), w = 0, TRUE)
           t == Append(s, e)
<1>1. ChunkOf(lo, x) = Chunk(lo \div ChunkLen, u)
  BY DEF ChunkOf
<1>2. last = w + 1 /\ lo \div ChunkLen = k
  BY BlockCount
<1>3. w \in Nat /\ lo \in Nat
  BY DEF InChunk
<1>4. /\ IsList(s, w)
      /\ \A i \in 1..w : s[i] = Block(Bytes(lo + (i - 1) * BlockLen, lo + i * BlockLen), i = 1, FALSE)
  BY <1>3, BlocksFacts
<1>5. /\ IsList(t, w + 1)
      /\ \A i \in 1..w + 1 : t[i] = IF i = w + 1 THEN e ELSE s[i]
  <2>1. IsList(t, w + 1) /\ Extended(t, s, e, w)
    <3> HIDE DEF s, e
    <3> QED  BY <1>3, <1>4, ListAppend
  <2> HIDE DEF s, e, t
  <2> QED  BY <2>1 DEF Extended
<1> HIDE DEF last
<1>6. /\ IsList(u, w + 1)
      /\ \A i \in 1..w + 1 : u[i] = Block(Bytes(lo + (i - 1) * BlockLen, end(i)), i = 1, i = last)
  BY <1>2 DEF IsList
<1>7. u[w + 1] = e
  <2>1. (w + 1) - 1 = w /\ w + 1 \in 1..w + 1 /\ ((w + 1 = 1) <=> (w = 0))
    BY <1>3
  <2>2. (w + 1 = 1) = (w = 0)
    BY <2>1
  <2>3. end(w + 1) = x /\ (w + 1 = last) = TRUE
    BY <1>2
  <2>4. u[w + 1] = Block(Bytes(lo + ((w + 1) - 1) * BlockLen, end(w + 1)), w + 1 = 1, w + 1 = last)
    BY <1>6, <2>1
  <2> HIDE DEF u, end
  <2> QED  BY <2>1, <2>2, <2>3, <2>4
<1> HIDE DEF u, s, t, e
<1>8. \A i \in 1..w + 1 : t[i] = u[i]
  <2> TAKE i \in 1..w + 1
  <2>1. CASE i = w + 1
    BY <1>5, <1>7, <2>1
  <2>2. CASE i # w + 1
    <3>1. i \in 1..w
      BY <1>3, <2>2
    <3>2. end(i) = lo + i * BlockLen /\ (i = last) = FALSE
      BY <1>2, <2>2
    <3>3. t[i] = Block(Bytes(lo + (i - 1) * BlockLen, lo + i * BlockLen), i = 1, FALSE)
      BY <1>4, <1>5, <2>2, <3>1
    <3>4. u[i] = Block(Bytes(lo + (i - 1) * BlockLen, end(i)), i = 1, i = last)
      BY <1>6
    <3> HIDE DEF end
    <3> QED  BY <3>2, <3>3, <3>4
  <2> QED  BY <2>1, <2>2
<1>9. t = u
  <2>1. w + 1 \in Nat
    BY <1>3
  <2> QED  BY <1>5, <1>6, <1>8, <2>1, ListOf
<1> QED  BY <1>1, <1>2, <1>9 DEF s, t, e, Closed

\* output of a chunk's state
LEMMA ChunkOutputIs ==
  ASSUME NEW k, NEW lo, NEW w, NEW x, InChunk(k, lo, w, x)
  PROVE  ChunkOutput(Filled(k, lo, w, x)) = ChunkOf(lo, x)
<1> DEFINE c == Filled(k, lo, w, x)
<1>1. lo \in Nat /\ w \in Nat /\ x \in Nat /\ lo + w * BlockLen <= x
  BY BlockCount DEF InChunk
<1>2. /\ c.counter = k /\ c.done = Blocks(lo, w) /\ c.buf = Bytes(lo + w * BlockLen, x)
      /\ c.done = <<>> <=> w = 0
  BY <1>1, FilledFacts
<1>3. (c.done = <<>>) = (w = 0)
  BY <1>2
<1>4. ChunkOutput(c) = Chunk(c.counter, Append(c.done, Block(c.buf, c.done = <<>>, TRUE)))
  BY DEF ChunkOutput
<1> HIDE DEF c
<1>5. ChunkOutput(c) = Chunk(k, Closed(lo, w, x))
  BY <1>2, <1>3, <1>4 DEF Closed
<1>6. Chunk(k, Closed(lo, w, x)) = ChunkOf(lo, x)
  BY LastBlock
<1> QED  BY <1>5, <1>6 DEF c

\* count of a chunk's state
LEMMA CountIs ==
  ASSUME NEW k, NEW lo, NEW w, NEW x, InChunk(k, lo, w, x)
  PROVE  Count(Filled(k, lo, w, x)) = x - lo /\ Filled(k, lo, w, x).counter = k
<1>1. lo \in Nat /\ w \in Nat /\ x \in Nat /\ lo + w * BlockLen <= x
  BY BlockCount DEF InChunk
<1> QED  BY <1>1, FilledFacts

\* update of a chunk's state
LEMMA ChunkGrows ==
  ASSUME NEW k, NEW lo, NEW w, NEW x, InChunk(k, lo, w, x), NEW y \in Nat, x <= y
  PROVE  \E v : InChunk(k, lo, v, y) /\ ChunkUpdate(Filled(k, lo, w, x), Bytes(x, y)) = Filled(k, lo, v, y)
<1>1. k \in Nat /\ lo \in Nat /\ lo = k * ChunkLen /\ w \in Nat /\ x \in Nat /\ lo <= x /\ Kept(lo, w, x)
  BY DEF InChunk
<1>2. PICK v \in Nat : /\ Kept(lo, v, y)
                       /\ ChunkUpdate(Filled(k, lo, w, x), Bytes(x, y)) = Filled(k, lo, v, y)
  BY <1>1, ChunkUpdateIs
<1>3. InChunk(k, lo, v, y)
  BY <1>1, <1>2 DEF InChunk
<1> QED  BY <1>2, <1>3

\* A new chunk
LEMMA NewChunkIs ==
  ASSUME NEW k \in Nat, NEW lo \in Nat, lo = k * ChunkLen
  PROVE  NewChunk(k) = Filled(k, lo, 0, lo) /\ InChunk(k, lo, 0, lo)
<1>1. lo + 0 * BlockLen = lo
  BY Lengths
<1>2. Blocks(lo, 0) = <<>>
  <2>1. 0 \in Nat
    OBVIOUS
  <2> QED  BY <2>1, BlocksFacts
<1>3. Bytes(lo, lo) = <<>>
  BY BytesList
<1> QED  BY <1>1, <1>2, <1>3 DEF NewChunk, Filled, InChunk, Kept

\* A chunk at once
LEMMA WholeChunk ==
  ASSUME NEW k \in Nat, NEW lo \in Nat, lo = k * ChunkLen, NEW y \in Nat, lo <= y
  PROVE  ChunkOutput(ChunkUpdate(NewChunk(k), Bytes(lo, y))) = ChunkOf(lo, y)
<1>1. NewChunk(k) = Filled(k, lo, 0, lo) /\ InChunk(k, lo, 0, lo)
  BY NewChunkIs
<1>2. PICK v : InChunk(k, lo, v, y) /\ ChunkUpdate(Filled(k, lo, 0, lo), Bytes(lo, y)) = Filled(k, lo, v, y)
  BY <1>1, ChunkGrows
<1>3. ChunkOutput(Filled(k, lo, v, y)) = ChunkOf(lo, y)
  BY <1>2, ChunkOutputIs
<1> QED  BY <1>1, <1>2, <1>3

-----------------------------------------------------------------------------
(* Merging a stack onto an output *)

\* f merges the n values of s onto output, one after the other.
Merges(f, s, n, output) ==
  /\ f[0] = output
  /\ \A i \in 1..n : f[i] = Parent(s[n - i + 1], f[i - 1])

\* Onto is where merging ends, ...
LEMMA OntoIs ==
  ASSUME NEW n \in Nat, NEW s, Len(s) = n, NEW output, NEW f, Merges(f, s, n, output)
  PROVE  Onto(s, output) = f[n]
<1> DEFINE Turn(d, i) == IF i = 0 THEN output ELSE Parent(s[n - i + 1], d[i - 1])
           Solution(d) == d = [i \in 0..n |-> Turn(d, i)]
           e == [i \in 0..n |-> f[i]]
           g == CHOOSE d : Solution(d)
<1>1. Onto(s, output) = g[n]
  BY DEF Onto
<1>2. f[0] = output /\ \A i \in 1..n : f[i] = Parent(s[n - i + 1], f[i - 1])
  BY DEF Merges
<1>3. Solution(e)
  <2>1. ASSUME NEW i \in 0..n
        PROVE  f[i] = Turn(e, i)
    <3>1. CASE i = 0
      BY <1>2, <3>1
    <3>2. CASE i # 0
      <4>1. i \in 1..n /\ i - 1 \in 0..n
        BY <3>2
      <4>2. e[i - 1] = f[i - 1]
        BY <4>1
      <4> HIDE DEF e
      <4> QED  BY <1>2, <3>2, <4>1, <4>2
    <3> QED  BY <3>1, <3>2
  <2>2. e = [i \in 0..n |-> f[i]]
    OBVIOUS
  <2> HIDE DEF e, Turn
  <2> QED  BY <2>1, <2>2
<1>4. Solution(g)
  <2> HIDE DEF Solution
  <2> QED  BY <1>3
<1> HIDE DEF g
<1>5. \A i \in 0..n : g[i] = Turn(g, i)
  <2> HIDE DEF Turn
  <2> QED  BY <1>4
<1> DEFINE S == {i \in Nat : i <= n => g[i] = f[i]}
<1>6. 0 \in S
  <2>1. 0 \in 0..n
    OBVIOUS
  <2>2. g[0] = output
    BY <1>5, <2>1
  <2> QED  BY <1>2, <2>2
<1>7. ASSUME NEW i \in Nat, i \in S
      PROVE  i + 1 \in S
  <2> SUFFICES ASSUME i + 1 <= n PROVE g[i + 1] = f[i + 1]
    OBVIOUS
  <2>1. /\ i + 1 \in 0..n /\ i + 1 \in 1..n /\ (i + 1) - 1 = i /\ i + 1 # 0
        /\ g[i] = f[i]
    BY <1>7
  <2>2. g[i + 1] = Parent(s[n - (i + 1) + 1], g[(i + 1) - 1])
    BY <1>5, <2>1
  <2>3. f[i + 1] = Parent(s[n - (i + 1) + 1], f[(i + 1) - 1])
    BY <1>2, <2>1
  <2> QED  BY <2>1, <2>2, <2>3
<1>8. Nat \subseteq S
  <2> HIDE DEF S
  <2> QED  BY <1>6, <1>7, Induction
<1>9. g[n] = f[n]
  BY <1>8
<1> QED  BY <1>1, <1>9

\* ... and every list can be merged.
LEMMA OntoMerges ==
  ASSUME NEW n \in Nat, NEW s, NEW output
  PROVE  \E f : Merges(f, s, n, output)
<1> DEFINE S == {i \in Nat : i <= n => \E f : /\ f[0] = output
                                            /\ \A j \in 1..i : f[j] = Parent(s[n - j + 1], f[j - 1])}
<1>1. 0 \in S
  <2> DEFINE e == [j \in 0..0 |-> output]
  <2>1. e[0] = output
    OBVIOUS
  <2>2. \A j \in 1..0 : e[j] = Parent(s[n - j + 1], e[j - 1])
    OBVIOUS
  <2> HIDE DEF e
  <2> QED  BY <2>1, <2>2
<1>2. ASSUME NEW i \in Nat, i \in S
      PROVE  i + 1 \in S
  <2> SUFFICES ASSUME i + 1 <= n
               PROVE  \E f : /\ f[0] = output
                             /\ \A j \in 1..i + 1 : f[j] = Parent(s[n - j + 1], f[j - 1])
    OBVIOUS
  <2>1. PICK f : /\ f[0] = output
                 /\ \A j \in 1..i : f[j] = Parent(s[n - j + 1], f[j - 1])
    BY <1>2
  <2> DEFINE v == Parent(s[n - (i + 1) + 1], f[i])
             e == [j \in 0..i + 1 |-> IF j = i + 1 THEN v ELSE f[j]]
  <2>2. e[0] = output
    <3>1. e[0] = f[0]
      OBVIOUS
    <3> QED  BY <2>1, <3>1
  <2>3. ASSUME NEW j \in 1..i + 1
        PROVE  e[j] = Parent(s[n - j + 1], e[j - 1])
    <3>1. e[j - 1] = f[j - 1]
      OBVIOUS
    <3>2. CASE j = i + 1
      <4>1. e[j] = v /\ j - 1 = i
        BY <3>2
      <4> HIDE DEF e
      <4> QED  BY <3>1, <3>2, <4>1
    <3>3. CASE j # i + 1
      <4>1. e[j] = f[j] /\ j \in 1..i
        BY <3>3
      <4> HIDE DEF e
      <4> QED  BY <2>1, <3>1, <4>1
    <3> QED  BY <3>2, <3>3
  <2> HIDE DEF e
  <2> QED  BY <2>2, <2>3
<1>3. Nat \subseteq S
  <2> HIDE DEF S
  <2> QED  BY <1>1, <1>2, Induction
<1>4. n \in S
  BY <1>3
<1> QED  BY <1>4 DEF Merges

\* Nothing is merged onto the output of an empty stack, ...
LEMMA OntoEmpty ==
  ASSUME NEW output
  PROVE  Onto(<<>>, output) = output
<1> DEFINE f == [i \in 0..0 |-> output]
<1>1. Len(<<>>) = 0
  BY EmptySeq
<1>2. f[0] = output
  OBVIOUS
<1>3. Merges(f, <<>>, 0, output)
  BY <1>2 DEF Merges
<1> HIDE DEF f
<1> QED  BY <1>1, <1>2, <1>3, OntoIs

\* ... and the top of a stack is merged first.
LEMMA OntoAppend ==
  ASSUME NEW n \in Nat, NEW s, IsList(s, n), NEW v, NEW output
  PROVE  Onto(Append(s, v), output) = Onto(s, Parent(v, output))
<1> DEFINE t == Append(s, v)
<1>1. PICK g : Merges(g, s, n, Parent(v, output))
  BY OntoMerges
<1>2. g[0] = Parent(v, output) /\ \A i \in 1..n : g[i] = Parent(s[n - i + 1], g[i - 1])
  BY <1>1 DEF Merges
<1>3. Len(s) = n
  BY ListIsSeq
<1>4. Onto(s, Parent(v, output)) = g[n]
  BY <1>1, <1>3, OntoIs
<1>5. /\ IsList(t, n + 1)
      /\ \A i \in 1..n + 1 : t[i] = IF i = n + 1 THEN v ELSE s[i]
  <2>1. IsList(t, n + 1) /\ Extended(t, s, v, n)
    BY ListAppend
  <2> HIDE DEF t
  <2> QED  BY <2>1 DEF Extended
<1> HIDE DEF t
<1> DEFINE m == n + 1
           f == [i \in 0..m |-> IF i = 0 THEN output ELSE g[i - 1]]
<1>6. f[0] = output
  OBVIOUS
<1>7. ASSUME NEW i \in 1..m
      PROVE  f[i] = Parent(t[m - i + 1], f[i - 1])
  <2>1. f[i] = g[i - 1]
    OBVIOUS
  <2>2. CASE i = 1
    <3>1. m - i + 1 = n + 1 /\ i - 1 = 0
      BY <2>2
    <3>2. t[m - i + 1] = v
      BY <1>5, <3>1
    <3> HIDE DEF f, m
    <3> QED  BY <1>2, <1>6, <2>1, <3>1, <3>2
  <2>3. CASE i # 1
    <3>1. f[i - 1] = g[(i - 1) - 1]
      BY <2>3
    <3>2. i - 1 \in 1..n /\ m - i + 1 = n - (i - 1) + 1 /\ m - i + 1 \in 1..n + 1 /\ m - i + 1 # n + 1
      BY <2>3
    <3>3. g[i - 1] = Parent(s[n - (i - 1) + 1], g[(i - 1) - 1])
      BY <1>2, <3>2
    <3>4. t[m - i + 1] = s[m - i + 1]
      BY <1>5, <3>2
    <3> HIDE DEF f, m
    <3> QED  BY <2>1, <3>1, <3>2, <3>3, <3>4
  <2> QED  BY <2>2, <2>3
<1>8. f[m] = g[n]
  OBVIOUS
<1> HIDE DEF f
<1>9. Merges(f, t, m, output)
  BY <1>6, <1>7 DEF Merges
<1>10. m \in Nat /\ Len(t) = m
  <2>1. m \in Nat /\ IsList(t, m)
    BY <1>5
  <2> HIDE DEF m
  <2> QED  BY <2>1, ListIsSeq
<1> HIDE DEF m
<1>11. Onto(t, output) = f[m]
  BY <1>9, <1>10, OntoIs
<1> QED  BY <1>4, <1>8, <1>11 DEF t

-----------------------------------------------------------------------------
(* Stacks of subtrees *)

\* d divides m.
Div(d, m) == \E q \in Nat : m = d * q

\* The lowest one-bit of a number, with the zeros below it
LowBit(a) == Exp2[TrailingZeros[a]]

\* It divides the number an odd number of times.
LEMMA LowBitFacts ==
  ASSUME NEW a \in Nat, a # 0
  PROVE  /\ LowBit(a) \in Nat /\ IsPow2(LowBit(a)) /\ LowBit(a) >= 1 /\ LowBit(a) <= a
         /\ \E k \in Nat : a = LowBit(a) * (2 * k + 1)
         /\ a - LowBit(a) \in Nat /\ a - LowBit(a) < a
<1>1. TrailingZeros[a] \in Nat /\ \E k \in Nat : a = Exp2[TrailingZeros[a]] * (2 * k + 1)
  BY TrailingPow2
<1> DEFINE p == LowBit(a)
<1>2. p \in Nat /\ p >= 1
  BY <1>1, Exp2Facts DEF LowBit
<1>3. IsPow2(p)
  BY <1>1, <1>2, Pow2Exp DEF LowBit
<1>4. PICK k \in Nat : a = p * (2 * k + 1)
  BY <1>1 DEF LowBit
<1> HIDE DEF p
<1>5. p <= a
  <2>1. p * (2 * k + 1) = p + p * (2 * k) /\ p * (2 * k) \in Nat
    BY <1>2
  <2> QED  BY <1>2, <1>4, <2>1
<1> QED  BY <1>2, <1>3, <1>4, <1>5 DEF p

\* No other power of two does.
LEMMA LowBitIs ==
  ASSUME NEW p \in Nat, IsPow2(p), NEW k \in Nat, NEW a \in Nat, a = p * (2 * k + 1)
  PROVE  a # 0 /\ LowBit(a) = p
<1>1. p >= 1
  <2>1. p # 0
    BY Pow2Double
  <2> QED  BY <2>1
<1>2. a # 0
  <2>1. p * (2 * k + 1) = p + p * (2 * k) /\ p * (2 * k) \in Nat
    OBVIOUS
  <2> QED  BY <1>1, <2>1
<1> DEFINE q == LowBit(a)
<1>3. q \in Nat /\ IsPow2(q)
  BY <1>2, LowBitFacts
<1>4. PICK j \in Nat : a = q * (2 * j + 1)
  BY <1>2, LowBitFacts
<1> HIDE DEF q
<1>5. q <= p
  <2> DEFINE c == 2 * j + 1
  <2>1. c \in Nat /\ p * (2 * k + 1) = q * c
    BY <1>4
  <2> HIDE DEF c
  <2> QED  BY <1>3, <2>1, Pow2Odd
<1>6. p <= q
  <2> DEFINE c == 2 * k + 1
  <2>1. c \in Nat /\ q * (2 * j + 1) = p * c
    BY <1>4
  <2> HIDE DEF c
  <2> QED  BY <1>3, <2>1, Pow2Odd
<1> QED  BY <1>2, <1>3, <1>5, <1>6 DEF q

\* A power of two that divides a number is not above its lowest bit.
LEMMA LowBitLargest ==
  ASSUME NEW p \in Nat, IsPow2(p), NEW a \in Nat, a # 0, Div(p, a)
  PROVE  p <= LowBit(a)
<1> DEFINE q == LowBit(a)
<1>1. q \in Nat /\ IsPow2(q)
  BY LowBitFacts
<1>2. PICK j \in Nat : a = q * (2 * j + 1)
  BY LowBitFacts
<1>3. PICK c \in Nat : a = p * c
  BY DEF Div
<1> HIDE DEF q
<1>4. p <= q
  BY <1>1, <1>2, <1>3, Pow2Odd
<1> QED  BY <1>4 DEF q

\* The subtree over the chunks lo up to hi
Node(lo, hi) == Tree[<<lo * ChunkLen, hi * ChunkLen>>]

\* The stack over a chunks from lo, merged as far as it can be: a subtree for every
\* one-bit of a.
Peaks(lo, a) ==
  LET peaks[n \in Nat] ==
        IF n = 0 THEN <<>>
        ELSE Append(peaks[n - LowBit(n)], Node(lo + (n - LowBit(n)), lo + n))
  IN  peaks[a]

\* Peaks is what its recursion says.
LEMMA PeaksEquation ==
  ASSUME NEW lo \in Nat, NEW a \in Nat
  PROVE  Peaks(lo, a) = IF a = 0 THEN <<>>
                        ELSE Append(Peaks(lo, a - LowBit(a)), Node(lo + (a - LowBit(a)), lo + a))
<1> DEFINE Turn(f, n) == IF n = 0 THEN <<>>
                         ELSE Append(f[n - LowBit(n)], Node(lo + (n - LowBit(n)), lo + n))
           Solution(f) == f = [n \in Nat |-> Turn(f, n)]
           peaks == CHOOSE f : Solution(f)
           V == Seq({Node(lo + (n - LowBit(n)), lo + n) : n \in Nat})
           start == [n \in Nat |-> <<>>]
           prev == [n \in Nat |-> IF n = 0 THEN 0 ELSE n - LowBit(n)]
           G == [n \in Nat |-> [v \in V |-> Append(v, Node(lo + (n - LowBit(n)), lo + n))]]
<1>1. start \in [Nat -> V]
  OBVIOUS
<1>2. prev \in [Nat -> Nat] /\ \A n \in Nat \ {0} : prev[n] < n
  BY LowBitFacts
<1>3. G \in [Nat -> [V -> V]]
  <2>1. ASSUME NEW n \in Nat, NEW v \in V
        PROVE  Append(v, Node(lo + (n - LowBit(n)), lo + n)) \in V
    <3> DEFINE E == {Node(lo + (m - LowBit(m)), lo + m) : m \in Nat}
               e == Node(lo + (n - LowBit(n)), lo + n)
    <3>1. v \in Seq(E) /\ V = Seq(E) /\ e \in E
      OBVIOUS
    <3> HIDE DEF E, V, e
    <3>2. Append(v, e) \in Seq(E)
      BY <3>1, AppendProperties
    <3> QED  BY <3>1, <3>2 DEF e
  <2> HIDE DEF V
  <2> QED  BY <2>1
<1>4. \E f \in [Nat -> V] : Descends(f, Nat, {0}, start, prev, G)
  <2> HIDE DEF V, start, prev, G
  <2> QED  BY <1>1, <1>2, <1>3, Descent
<1>5. PICK f \in [Nat -> V] : Descends(f, Nat, {0}, start, prev, G)
  BY <1>4
<1>6. Solution(f)
  <2>1. ASSUME NEW n \in Nat
        PROVE  f[n] = Turn(f, n)
    <3>1. f[n] = IF n \in {0} THEN start[n] ELSE G[n][f[prev[n]]]
      BY <1>5 DEF Descends
    <3>2. CASE n = 0
      BY <3>1, <3>2
    <3>3. CASE n # 0
      <4>1. prev[n] = n - LowBit(n) /\ prev[n] \in Nat
        BY <1>2, <3>3
      <4>2. f[prev[n]] \in V
        <5> HIDE DEF V
        <5> QED  BY <4>1
      <4>3. G[n][f[prev[n]]] = Append(f[prev[n]], Node(lo + (n - LowBit(n)), lo + n))
        <5> HIDE DEF V
        <5> QED  BY <4>2
      <4> HIDE DEF G, prev, start, V
      <4> QED  BY <3>1, <3>3, <4>1, <4>3
    <3> QED  BY <3>2, <3>3
  <2>2. f = [n \in Nat |-> f[n]]
    <3> HIDE DEF V
    <3> QED  OBVIOUS
  <2> HIDE DEF Turn
  <2> QED  BY <2>1, <2>2
<1>7. Solution(peaks)
  <2> HIDE DEF Solution
  <2> QED  BY <1>6
<1> HIDE DEF peaks
<1>8. \A n \in Nat : peaks[n] = Turn(peaks, n)
  <2> HIDE DEF Turn
  <2> QED  BY <1>7
<1>9. \A n \in Nat : Peaks(lo, n) = peaks[n]
  BY DEF Peaks, peaks
<1>10. CASE a = 0
  BY <1>8, <1>9, <1>10
<1>11. CASE a # 0
  <2>1. a - LowBit(a) \in Nat
    BY <1>11, LowBitFacts
  <2>2. peaks[a] = Append(peaks[a - LowBit(a)], Node(lo + (a - LowBit(a)), lo + a))
    BY <1>8, <1>11
  <2> QED  BY <1>9, <1>11, <2>1, <2>2
<1> QED  BY <1>10, <1>11

\* One with an odd number of subtrees of p chunks ends with one of them.
Odd(a, p, k, c) ==
  /\ a \in Nat /\ p \in Nat /\ IsPow2(p) /\ k \in Nat /\ c \in Nat
  /\ a = p * (2 * k + 1) /\ c = p * (2 * k)

\* The other peaks are those over the chunks before it.
LEMMA PeaksNext ==
  ASSUME NEW lo \in Nat, NEW a, NEW p, NEW k, NEW c, Odd(a, p, k, c)
  PROVE  /\ Peaks(lo, a) = Append(Peaks(lo, c), Node(lo + c, lo + a))
         /\ Ones[a] = Ones[c] + 1 /\ Ones[c] \in Nat
         /\ a = c + p /\ p >= 1 /\ LowBit(a) = p
<1>1. /\ a \in Nat /\ p \in Nat /\ IsPow2(p) /\ k \in Nat /\ c \in Nat
      /\ a = p * (2 * k + 1) /\ c = p * (2 * k)
  BY DEF Odd
<1>2. a # 0 /\ LowBit(a) = p
  BY <1>1, LowBitIs
<1>3. p >= 1
  <2>1. p # 0
    BY <1>1, Pow2Double
  <2> QED  BY <1>1, <2>1
<1>4. a = c + p /\ a - LowBit(a) = c
  BY <1>1, <1>2
<1>5. Peaks(lo, a) = Append(Peaks(lo, c), Node(lo + c, lo + a))
  BY <1>1, <1>2, <1>4, PeaksEquation
<1>6. Ones[a] = Ones[c] + 1 /\ Ones[c] \in Nat
  <2> DEFINE e == 2 * k
             o == 2 * k + 1
  <2>1. e \in Nat /\ o \in Nat /\ Ones[o] = Ones[k] + 1 /\ Ones[e] = Ones[k] /\ Ones[k] \in Nat
    BY <1>1, OnesFacts
  <2>2. a = p * o /\ c = p * e
    BY <1>1
  <2> HIDE DEF e, o
  <2>3. Ones[p * o] = Ones[o] /\ Ones[p * e] = Ones[e]
    BY <1>1, <2>1, OnesScale
  <2> QED  BY <2>1, <2>2, <2>3
<1> QED  BY <1>2, <1>3, <1>4, <1>5, <1>6

\* Every number but zero is such a one.
LEMMA PeaksLast ==
  ASSUME NEW a \in Nat, a # 0
  PROVE  \E k, c : Odd(a, LowBit(a), k, c)
<1>1. LowBit(a) \in Nat /\ IsPow2(LowBit(a)) /\ \E k \in Nat : a = LowBit(a) * (2 * k + 1)
  BY LowBitFacts
<1>2. PICK k \in Nat : a = LowBit(a) * (2 * k + 1)
  BY <1>1
<1> DEFINE p == LowBit(a)
           c == p * (2 * k)
<1>3. c \in Nat
  BY <1>1
<1>4. Odd(a, p, k, c)
  BY <1>1, <1>2, <1>3 DEF Odd
<1> QED  BY <1>4

\* There is a subtree for every one-bit.
LEMMA PeaksList ==
  ASSUME NEW lo \in Nat
  PROVE  \A a \in Nat : IsList(Peaks(lo, a), Ones[a]) /\ Ones[a] \in Nat
<1> DEFINE P(a) == IsList(Peaks(lo, a), Ones[a]) /\ Ones[a] \in Nat
           T == {a \in Nat : ~P(a)}
<1> SUFFICES ASSUME T # {} PROVE FALSE
  OBVIOUS
<1>1. PICK a \in T : \A c \in T : a <= c
  BY Least
<1>2. a \in Nat /\ ~P(a)
  OBVIOUS
<1>3. CASE a = 0
  <2>1. Peaks(lo, a) = <<>> /\ Ones[a] = 0
    BY <1>3, PeaksEquation, OnesFacts
  <2> QED  BY <1>2, <2>1, NoneIsList
<1>4. CASE a # 0
  <2>1. PICK k, c : Odd(a, LowBit(a), k, c)
    BY <1>2, <1>4, PeaksLast
  <2> DEFINE p == LowBit(a)
  <2>2. Odd(a, p, k, c)
    BY <2>1
  <2> HIDE DEF p
  <2>3. /\ Peaks(lo, a) = Append(Peaks(lo, c), Node(lo + c, lo + a))
        /\ Ones[a] = Ones[c] + 1 /\ Ones[c] \in Nat
        /\ a = c + p /\ p >= 1
    <3> HIDE DEF P, T
    <3>1. Peaks(lo, a) = Append(Peaks(lo, c), Node(lo + c, lo + a))
      BY <2>2, PeaksNext
    <3>2. Ones[a] = Ones[c] + 1 /\ Ones[c] \in Nat
      BY <2>2, PeaksNext
    <3>3. a = c + p /\ p >= 1
      BY <2>2, PeaksNext
    <3> QED  BY <3>1, <3>2, <3>3
  <2>4. c \in Nat /\ c < a
    BY <2>2, <2>3 DEF Odd
  <2>5. P(c)
    BY <1>1, <1>2, <2>4
  <2>6. IsList(Append(Peaks(lo, c), Node(lo + c, lo + a)), Ones[c] + 1)
    BY <2>5, ListAppend
  <2> QED  BY <1>2, <2>3, <2>6
<1> QED  BY <1>3, <1>4

\* The two facts of PeaksNext that are used most
LEMMA PeaksAppend ==
  ASSUME NEW lo \in Nat, NEW a, NEW p, NEW k, NEW c, Odd(a, p, k, c)
  PROVE  Peaks(lo, a) = Append(Peaks(lo, c), Node(lo + c, lo + a))
BY PeaksNext

\* ... the second for the ones
LEMMA PeaksOnes ==
  ASSUME NEW a, NEW p, NEW k, NEW c, Odd(a, p, k, c)
  PROVE  Ones[a] = Ones[c] + 1 /\ Ones[c] \in Nat
<1>1. 0 \in Nat
  OBVIOUS
<1> QED  BY <1>1, PeaksNext

-----------------------------------------------------------------------------
(* Parts of lists *)

\* s and t are the same from a up to b.
Same(s, t, a, b) == \A i \in a..b : s[i] = t[i]

\* Lists that are the same there have the same part.
LEMMA SubSame ==
  ASSUME NEW s, NEW t, NEW a \in Nat, NEW b \in Nat, a <= b + 1, Same(s, t, a, b)
  PROVE  Part(s, a, b) = Part(t, a, b)
<1> DEFINE u == SubSeq(s, a, b)
           v == SubSeq(t, a, b)
           n == b + 1 - a
<1>1. n \in Nat /\ IsList(u, n) /\ \A i \in 1..n : u[i] = s[a + i - 1]
  BY SubList
<1>2. IsList(v, n) /\ \A i \in 1..n : v[i] = t[a + i - 1]
  BY SubList
<1> HIDE DEF u, v
<1>3. \A i \in 1..n : u[i] = v[i]
  <2> TAKE i \in 1..n
  <2>1. a + i - 1 \in a..b
    OBVIOUS
  <2>2. s[a + i - 1] = t[a + i - 1]
    BY <2>1 DEF Same
  <2> QED  BY <1>1, <1>2, <2>2
<1> HIDE DEF n
<1>4. u = v
  BY <1>1, <1>2, <1>3, ListOf
<1> QED  BY <1>4 DEF u, v, Part

\* The first n of s are the list u.
LEMMA SubFirst ==
  ASSUME NEW s, NEW n \in Nat, NEW u, IsList(u, n), Same(s, u, 1, n)
  PROVE  Part(s, 1, n) = u
<1> DEFINE v == SubSeq(s, 1, n)
<1>1. n + 1 - 1 = n
  OBVIOUS
<1>2. IsList(v, n + 1 - 1) /\ \A i \in 1..n + 1 - 1 : v[i] = s[1 + i - 1]
  BY SubList
<1> HIDE DEF v
<1>3. IsList(v, n) /\ \A i \in 1..n : v[i] = u[i]
  <2>1. \A i \in 1..n : 1 + i - 1 = i
    OBVIOUS
  <2>2. \A i \in 1..n : v[i] = s[i]
    BY <1>1, <1>2, <2>1
  <2> QED  BY <1>1, <1>2, <2>2 DEF Same
<1>4. v = u
  BY <1>3, ListOf
<1> QED  BY <1>4 DEF v, Part

\* Nothing is in an empty part.
LEMMA SubNone ==
  ASSUME NEW s, NEW n \in Nat
  PROVE  Part(s, n + 1, n) = <<>>
<1> DEFINE v == SubSeq(s, n + 1, n)
<1>1. IsList(v, n + 1 - (n + 1)) /\ n + 1 - (n + 1) = 0
  <2> DEFINE a == n + 1
  <2>1. a \in Int /\ a <= n + 1 /\ n + 1 - a = 0
    OBVIOUS
  <2>2. IsList(SubSeq(s, a, n), n + 1 - a)
    <3> HIDE DEF a
    <3> QED  BY <2>1, SubList
  <2> QED  BY <2>1, <2>2
<1> HIDE DEF v
<1>2. v = <<>>
  BY <1>1, EmptyList
<1> QED  BY <1>2 DEF v, Part

\* A name for what Append gives
Push(s, v) == Append(s, v)

\* The part up to the end of a list and one more
LEMMA SubAppend ==
  ASSUME NEW s, NEW n \in Nat, IsList(s, n), NEW v, NEW q \in Nat, q <= n
  PROVE  Part(Push(s, v), q + 1, n + 1) = Push(Part(s, q + 1, n), v)
<1> DEFINE t == Append(s, v)
           u == SubSeq(s, q + 1, n)
           x == Append(u, v)
           y == SubSeq(t, q + 1, n + 1)
           m == n - q
<1>1. \A i \in 1..n + 1 : t[i] = IF i = n + 1 THEN v ELSE s[i]
  <2>1. Extended(t, s, v, n)
    BY ListAppend
  <2> HIDE DEF t
  <2> QED  BY <2>1 DEF Extended
<1>2. m \in Nat /\ IsList(u, m) /\ \A i \in 1..m : u[i] = s[q + i]
  <2> DEFINE a == q + 1
  <2>1. a \in Int /\ a <= n + 1 /\ n + 1 - a = m /\ m \in Nat
    OBVIOUS
  <2>2. \A i \in 1..m : a + i - 1 = q + i
    OBVIOUS
  <2> HIDE DEF a, m
  <2>3. IsList(SubSeq(s, a, n), n + 1 - a) /\ \A i \in 1..n + 1 - a : SubSeq(s, a, n)[i] = s[a + i - 1]
    BY <2>1, SubList
  <2> QED  BY <2>1, <2>2, <2>3 DEF a
<1>3. IsList(y, m + 1) /\ \A i \in 1..m + 1 : y[i] = t[q + i]
  <2> DEFINE a == q + 1
             b == n + 1
  <2>1. a \in Int /\ b \in Int /\ a <= b + 1 /\ b + 1 - a = m + 1
    OBVIOUS
  <2>2. \A i \in 1..m + 1 : a + i - 1 = q + i
    OBVIOUS
  <2> HIDE DEF a, b, m, t
  <2>3. IsList(SubSeq(t, a, b), b + 1 - a) /\ \A i \in 1..b + 1 - a : SubSeq(t, a, b)[i] = t[a + i - 1]
    BY <2>1, SubList
  <2> QED  BY <2>1, <2>2, <2>3 DEF a, b
<1> HIDE DEF t, u, y
<1>4. IsList(x, m + 1) /\ \A i \in 1..m + 1 : x[i] = IF i = m + 1 THEN v ELSE u[i]
  <2>1. IsList(x, m + 1) /\ Extended(x, u, v, m)
    <3> HIDE DEF m
    <3> QED  BY <1>2, ListAppend
  <2> HIDE DEF x
  <2> QED  BY <2>1 DEF Extended
<1> HIDE DEF x
<1>5. \A i \in 1..m + 1 : x[i] = y[i]
  <2> TAKE i \in 1..m + 1
  <2>1. q + i \in 1..n + 1 /\ (q + i = n + 1 <=> i = m + 1)
    OBVIOUS
  <2>2. CASE i = m + 1
    BY <1>1, <1>3, <1>4, <2>1, <2>2
  <2>3. CASE i # m + 1
    <3>1. i \in 1..m
      BY <2>3
    <3> QED  BY <1>1, <1>2, <1>3, <1>4, <2>1, <2>3, <3>1
  <2> QED  BY <2>2, <2>3
<1> HIDE DEF m
<1>6. x = y
  <2> DEFINE e == m + 1
  <2>1. e \in Nat
    BY <1>2
  <2>2. IsList(x, e) /\ IsList(y, e) /\ \A i \in 1..e : x[i] = y[i]
    BY <1>3, <1>4, <1>5
  <2> HIDE DEF e
  <2> QED  BY <2>1, <2>2, ListOf
<1>7. y = Part(t, q + 1, n + 1)
  BY DEF y, Part
<1>8. x = Append(Part(s, q + 1, n), v)
  BY DEF x, u, Part
<1> QED  BY <1>6, <1>7, <1>8 DEF t, Push

-----------------------------------------------------------------------------
(* Stacks and the tree *)

\* Two subtrees of w chunks, next to each other, are the sides of one of twice as many.
LEMMA NodeParent ==
  ASSUME NEW x \in Nat, NEW y \in Nat, NEW z \in Nat, NEW w \in Nat, IsPow2(w),
         y = x + w, z = y + w
  PROVE  Parent(Node(x, y), Node(y, z)) = Node(x, z)
<1> DEFINE lo == x * ChunkLen
           hi == z * ChunkLen
           n == w * ChunkLen
<1>1. w >= 1
  <2>1. w # 0
    BY Pow2Double
  <2> QED  BY <2>1
<1>2. /\ lo \in Nat /\ hi \in Nat /\ n \in Nat /\ n >= 1
      /\ hi = lo + 2 * n /\ y * ChunkLen = lo + n
  BY <1>1, Lengths
<1> HIDE DEF lo, hi
<1>3. lo + n < hi /\ hi <= lo + 2 * n
  BY <1>2
<1>4. Tree[<<lo, hi>>] = Parent(Tree[<<lo, lo + n>>], Tree[<<lo + n, hi>>])
  BY <1>2, <1>3, TreeParent
<1> HIDE DEF n
<1> QED  BY <1>2, <1>4 DEF Node, lo, hi

\* The bytes from chunk lo + a up to hi are not more than the last of the peaks.
Overhangs(lo, a, hi) ==
  /\ hi \in Nat /\ (lo + a) * ChunkLen < hi
  /\ a # 0 => hi <= (lo + a + LowBit(a)) * ChunkLen

\* What the peaks and the rest come to
Spans(lo, a, hi) ==
  /\ Onto(Peaks(lo, a), Tree[<<(lo + a) * ChunkLen, hi>>]) = Tree[<<lo * ChunkLen, hi>>]
  /\ Nodes[<<(lo + a) * ChunkLen, hi>>] \subseteq Nodes[<<lo * ChunkLen, hi>>]

\* Merging the peaks onto the rest gives the tree over all, and the rest is a node of
\* it.
LEMMA Spine ==
  ASSUME NEW lo \in Nat, NEW hi \in Nat
  PROVE  \A a \in Nat : Overhangs(lo, a, hi) => Spans(lo, a, hi)
<1> DEFINE T == {a \in Nat : Overhangs(lo, a, hi) /\ ~Spans(lo, a, hi)}
<1> SUFFICES ASSUME T # {} PROVE FALSE
  OBVIOUS
<1>1. PICK a \in T : \A c \in T : a <= c
  BY Least
<1>2. a \in Nat /\ Overhangs(lo, a, hi) /\ ~Spans(lo, a, hi)
  OBVIOUS
<1>3. CASE a = 0
  <2>1. lo + a = lo /\ Peaks(lo, a) = <<>>
    BY <1>3, PeaksEquation
  <2> QED  BY <1>2, <2>1, OntoEmpty DEF Spans
<1>4. CASE a # 0
  <2>1. PICK k, c : Odd(a, LowBit(a), k, c)
    BY <1>2, <1>4, PeaksLast
  <2> DEFINE p == LowBit(a)
  <2>2. Odd(a, p, k, c) /\ p = LowBit(a)
    BY <2>1
  <2> HIDE DEF p, T
  <2>3. Peaks(lo, a) = Append(Peaks(lo, c), Node(lo + c, lo + a))
    BY <2>2, PeaksNext
  <2>4. a = c + p /\ p >= 1
    BY <2>2, PeaksNext
  <2>5. /\ c \in Nat /\ p \in Nat /\ IsPow2(p) /\ k \in Nat /\ c = p * (2 * k)
        /\ c < a
    BY <2>2, <2>4 DEF Odd
  <2> DEFINE x == (lo + c) * ChunkLen
             n == p * ChunkLen
             output == Tree[<<(lo + a) * ChunkLen, hi>>]
  <2>6. /\ x \in Nat /\ n \in Nat /\ n >= 1
        /\ (lo + a) * ChunkLen = x + n
        /\ (lo + a + p) * ChunkLen = x + 2 * n
    BY <1>2, <2>4, <2>5, Lengths
  <2> HIDE DEF x
  <2>7. x + n < hi /\ hi <= x + 2 * n
    BY <1>2, <1>4, <2>2, <2>6 DEF Overhangs
  <2>8. /\ Tree[<<x, hi>>] = Parent(Tree[<<x, x + n>>], Tree[<<x + n, hi>>])
        /\ Nodes[<<x + n, hi>>] \subseteq Nodes[<<x, hi>>]
    BY <2>5, <2>6, <2>7, TreeParent
  <2>9. Overhangs(lo, c, hi)
    <3>1. x < hi
      BY <2>6, <2>7
    <3>2. ASSUME c # 0
          PROVE  hi <= (lo + c + LowBit(c)) * ChunkLen
      <4>1. k # 0
        BY <2>5, <3>2
      <4> DEFINE w == 2 * p
                 l == LowBit(c)
      <4>2. w \in Nat /\ IsPow2(w) /\ c = w * k
        BY <2>5, Pow2Double
      <4>3. Div(w, c)
        BY <2>5, <4>2 DEF Div
      <4>4. l \in Nat
        BY <2>5, <3>2, LowBitFacts
      <4> HIDE DEF w, l
      <4>5. w <= l
        BY <2>5, <3>2, <4>2, <4>3, LowBitLargest DEF l
      <4>6. lo + a + p <= lo + c + l
        BY <2>4, <2>5, <4>4, <4>5 DEF w
      <4>7. (lo + a + p) * ChunkLen <= (lo + c + l) * ChunkLen
        <5> DEFINE u == lo + a + p
                   v == lo + c + l
        <5>1. u \in Nat /\ v \in Nat /\ u <= v
          BY <1>2, <2>5, <4>4, <4>6
        <5> HIDE DEF u, v
        <5>2. u * ChunkLen <= v * ChunkLen
          BY <5>1, MulMono, Lengths
        <5> QED  BY <5>2 DEF u, v
      <4>8. (lo + c + l) * ChunkLen \in Nat
        BY <2>5, <4>4, Lengths
      <4>9. hi <= (lo + c + l) * ChunkLen
        BY <2>6, <2>7, <4>7, <4>8
      <4> QED  BY <4>9 DEF l
    <3> QED  BY <3>1, <3>2 DEF Overhangs, x
  <2>10. Spans(lo, c, hi)
    BY <1>1, <1>2, <2>5, <2>9 DEF T
  <2>11. Onto(Peaks(lo, a), output) = Onto(Peaks(lo, c), Parent(Node(lo + c, lo + a), output))
    <3>1. IsList(Peaks(lo, c), Ones[c]) /\ Ones[c] \in Nat
      BY <2>5, PeaksList
    <3> HIDE DEF output
    <3>2. Onto(Append(Peaks(lo, c), Node(lo + c, lo + a)), output)
            = Onto(Peaks(lo, c), Parent(Node(lo + c, lo + a), output))
      BY <3>1, OntoAppend
    <3> QED  BY <2>3, <3>2
  <2>12. Parent(Node(lo + c, lo + a), output) = Tree[<<x, hi>>]
    BY <2>6, <2>8 DEF Node, x
  <2>13. Onto(Peaks(lo, c), Tree[<<x, hi>>]) = Tree[<<lo * ChunkLen, hi>>]
    BY <2>10 DEF Spans, x
  <2>14. Nodes[<<(lo + a) * ChunkLen, hi>>] \subseteq Nodes[<<lo * ChunkLen, hi>>]
    <3>1. Nodes[<<x, hi>>] \subseteq Nodes[<<lo * ChunkLen, hi>>]
      BY <2>10 DEF Spans, x
    <3>2. Nodes[<<(lo + a) * ChunkLen, hi>>] = Nodes[<<x + n, hi>>]
      BY <2>6
    <3> HIDE DEF n
    <3> QED  BY <2>8, <3>1, <3>2
  <2>15. Onto(Peaks(lo, a), output) = Tree[<<lo * ChunkLen, hi>>]
    <3> HIDE DEF output
    <3> QED  BY <2>11, <2>12, <2>13
  <2> QED  BY <1>2, <2>14, <2>15 DEF Spans
<1> QED  BY <1>3, <1>4

-----------------------------------------------------------------------------
(* Merging *)

\* With the subtree from a up to b, the peaks over a chunks from lo become those over b:
\* the first of them, over c chunks, stay, and the others are merged onto the subtree.
Joins(lo, a, b, c) ==
  /\ c \in Nat /\ c <= a
  /\ Ones[c] \in Nat /\ Ones[c] <= Ones[a] /\ Ones[b] = Ones[c] + 1
  /\ Peaks(lo, b) = Append(Peaks(lo, c), Node(lo + c, lo + b))
  /\ Same(Peaks(lo, a), Peaks(lo, c), 1, Ones[c])
  /\ Onto(Part(Peaks(lo, a), Ones[c] + 1, Ones[a]), Node(lo + a, lo + b)) = Node(lo + c, lo + b)

\* b is the next multiple of z after a, its m-th.
Next(z, m, a, b) ==
  /\ z \in Nat /\ IsPow2(z) /\ m \in Nat /\ a \in Nat /\ b \in Nat
  /\ a = z * m /\ b = a + z

\* An even multiple: nothing is merged.
LEMMA JoinsEven ==
  ASSUME NEW lo \in Nat, NEW z, NEW m, NEW a, NEW b, Next(z, m, a, b), NEW k \in Nat, m = 2 * k
  PROVE  Joins(lo, a, b, a)
<1>1. /\ z \in Nat /\ IsPow2(z) /\ a \in Nat /\ b \in Nat
      /\ a = z * (2 * k) /\ b = z * (2 * k + 1)
  <2>1. /\ z \in Nat /\ IsPow2(z) /\ m \in Nat /\ a \in Nat /\ b \in Nat
        /\ a = z * m /\ b = a + z
    BY DEF Next
  <2> QED  BY <2>1
<1>2. Odd(b, z, k, a)
  BY <1>1 DEF Odd
<1>3. Peaks(lo, b) = Append(Peaks(lo, a), Node(lo + a, lo + b))
  BY <1>2, PeaksAppend
<1>4. Ones[b] = Ones[a] + 1 /\ Ones[a] \in Nat
  BY <1>2, PeaksOnes
<1>5. Part(Peaks(lo, a), Ones[a] + 1, Ones[a]) = <<>>
  BY <1>4, SubNone
<1>6. Onto(Part(Peaks(lo, a), Ones[a] + 1, Ones[a]), Node(lo + a, lo + b)) = Node(lo + a, lo + b)
  BY <1>5, OntoEmpty
<1> QED  BY <1>1, <1>3, <1>4, <1>6 DEF Joins, Same

\* An odd one: the last peak is merged onto the subtree, which leaves the next multiple
\* of the double.
LEMMA JoinsOdd ==
  ASSUME NEW lo \in Nat, NEW z, NEW m, NEW a, NEW b, Next(z, m, a, b), NEW k \in Nat, m = 2 * k + 1,
         NEW d, d = a - z, NEW c, Joins(lo, d, b, c)
  PROVE  Joins(lo, a, b, c)
<1>1. /\ z \in Nat /\ IsPow2(z) /\ m \in Nat /\ a \in Nat /\ b \in Nat
      /\ a = z * m /\ b = a + z
  BY DEF Next
<1>2. d \in Nat /\ d = z * (2 * k) /\ a = z * (2 * k + 1) /\ a = d + z
  BY <1>1
<1>3. Odd(a, z, k, d)
  BY <1>1, <1>2 DEF Odd
<1>4. Peaks(lo, a) = Append(Peaks(lo, d), Node(lo + d, lo + a))
  BY <1>3, PeaksAppend
<1>5. Ones[a] = Ones[d] + 1 /\ Ones[d] \in Nat
  BY <1>3, PeaksOnes
<1>6. /\ c \in Nat /\ c <= d
      /\ Ones[c] \in Nat /\ Ones[c] <= Ones[d] /\ Ones[b] = Ones[c] + 1
      /\ Peaks(lo, b) = Append(Peaks(lo, c), Node(lo + c, lo + b))
      /\ Same(Peaks(lo, d), Peaks(lo, c), 1, Ones[c])
      /\ Onto(Part(Peaks(lo, d), Ones[c] + 1, Ones[d]), Node(lo + d, lo + b)) = Node(lo + c, lo + b)
  BY DEF Joins
<1> DEFINE s == Peaks(lo, d)
           v == Node(lo + d, lo + a)
           t == Append(s, v)
           n == Ones[d]
           q == Ones[c]
           o == Node(lo + a, lo + b)
<1>7. n \in Nat /\ q \in Nat /\ q <= n /\ IsList(s, n)
  BY <1>2, <1>6, PeaksList
<1> HIDE DEF s, v, n, q, o
<1>8. Same(t, Peaks(lo, c), 1, q)
  <2>1. Extended(t, s, v, n)
    BY <1>7, ListAppend
  <2> HIDE DEF t
  <2>2. \A i \in 1..n : t[i] = s[i]
    BY <1>7, <2>1 DEF Extended
  <2>3. \A i \in 1..q : s[i] = Peaks(lo, c)[i]
    BY <1>6 DEF Same, s, q
  <2>4. \A i \in 1..q : i \in 1..n
    BY <1>7
  <2> QED  BY <2>2, <2>3, <2>4 DEF Same
<1>9. Part(t, q + 1, n + 1) = Append(Part(s, q + 1, n), v)
  <2>1. Part(Push(s, v), q + 1, n + 1) = Push(Part(s, q + 1, n), v)
    BY <1>7, SubAppend
  <2> QED  BY <2>1 DEF Push
<1>10. Onto(Part(t, q + 1, n + 1), o) = Onto(Part(s, q + 1, n), Parent(v, o))
  <2> DEFINE x == Part(s, q + 1, n)
             y == q + 1
  <2>1. y \in Int /\ y <= n + 1 /\ n \in Int
    BY <1>7
  <2>2. IsList(SubSeq(s, y, n), n + 1 - y) /\ n + 1 - y \in Nat
    <3> HIDE DEF y
    <3> QED  BY <2>1, SubList
  <2>3. x = SubSeq(s, y, n)
    BY DEF Part
  <2> DEFINE r == n + 1 - y
  <2>4. r \in Nat /\ IsList(x, r)
    BY <2>2, <2>3
  <2> HIDE DEF x, r
  <2>5. Onto(Append(x, v), o) = Onto(x, Parent(v, o))
    BY <2>4, OntoAppend
  <2> QED  BY <1>9, <2>5 DEF x
<1>11. Parent(v, o) = Node(lo + d, lo + b)
  <2> DEFINE x == lo + d
             y == lo + a
             e == lo + b
  <2>1. x \in Nat /\ y \in Nat /\ e \in Nat /\ y = x + z /\ e = y + z
    BY <1>1, <1>2
  <2> HIDE DEF x, y, e
  <2>2. Parent(Node(x, y), Node(y, e)) = Node(x, e)
    BY <1>1, <2>1, NodeParent
  <2> QED  BY <2>2 DEF x, y, e, v, o
<1>12. Onto(Part(t, q + 1, n + 1), o) = Node(lo + c, lo + b)
  BY <1>6, <1>10, <1>11 DEF s, q, n
<1>13. Onto(Part(Peaks(lo, a), Ones[c] + 1, Ones[a]), Node(lo + a, lo + b)) = Node(lo + c, lo + b)
  BY <1>4, <1>5, <1>12 DEF s, v, q, n, o
<1>14. Same(Peaks(lo, a), Peaks(lo, c), 1, Ones[c])
  BY <1>4, <1>8 DEF s, v, q
<1>15. c \in Nat /\ c <= a /\ Ones[c] <= Ones[a]
  BY <1>1, <1>2, <1>5, <1>6
<1> QED  BY <1>6, <1>13, <1>14, <1>15 DEF Joins

\* So there always is what they become.
LEMMA Joining ==
  ASSUME NEW lo \in Nat
  PROVE  \A m \in Nat : \A z, a, b : Next(z, m, a, b) => \E c : Joins(lo, a, b, c)
<1> DEFINE P(m) == \A z, a, b : Next(z, m, a, b) => \E c : Joins(lo, a, b, c)
           T == {m \in Nat : ~P(m)}
<1> SUFFICES ASSUME T # {} PROVE FALSE
  OBVIOUS
<1>1. PICK m \in T : \A c \in T : m <= c
  BY Least
<1>2. m \in Nat /\ ~P(m)
  OBVIOUS
<1>3. PICK z, a, b : Next(z, m, a, b) /\ ~\E c : Joins(lo, a, b, c)
  BY <1>2
<1>4. PICK k \in Nat : m = 2 * k \/ m = 2 * k + 1
  BY <1>2, EvenOrOdd
<1>5. CASE m = 2 * k
  <2>1. Joins(lo, a, b, a)
    <3> HIDE DEF P, T
    <3> QED  BY <1>3, <1>5, JoinsEven
  <2> QED  BY <1>3, <2>1
<1>6. CASE m = 2 * k + 1
  <2> DEFINE d == a - z
             y == 2 * z
  <2>1. /\ z \in Nat /\ IsPow2(z) /\ a \in Nat /\ b \in Nat
        /\ a = z * m /\ b = a + z
    BY <1>3 DEF Next
  <2>2. y \in Nat /\ IsPow2(y) /\ d \in Nat /\ d = y * k /\ b = d + y
    BY <1>6, <2>1, Pow2Double
  <2>3. Next(y, k, d, b)
    BY <2>1, <2>2 DEF Next
  <2>4. k < m
    BY <1>6
  <2>5. P(k)
    BY <1>1, <1>2, <2>4
  <2> HIDE DEF d, y
  <2>6. PICK c : Joins(lo, d, b, c)
    BY <2>3, <2>5
  <2>7. Joins(lo, a, b, c)
    <3> HIDE DEF P, T
    <3> QED  BY <1>3, <1>6, <2>6, JoinsOdd DEF d
  <2> QED  BY <1>3, <2>7
<1> QED  BY <1>4, <1>5, <1>6

-----------------------------------------------------------------------------
(* The stack of the fork's hasher *)

\* A value pushed on a list
LEMMA PushFacts ==
  ASSUME NEW n \in Nat, NEW s, IsList(s, n), NEW v
  PROVE  /\ IsList(Push(s, v), n + 1) /\ Len(Push(s, v)) = n + 1 /\ Push(s, v) # <<>>
         /\ Push(s, v)[n + 1] = v
         /\ Same(Push(s, v), s, 1, n)
         /\ Part(Push(s, v), 1, n) = s
<1> DEFINE t == Push(s, v)
           m == n + 1
<1>1. IsList(t, m) /\ Extended(t, s, v, n) /\ m \in Nat /\ m # 0
  BY ListAppend DEF Push
<1> HIDE DEF t, m
<1>2. Len(t) = m /\ t # <<>>
  <2>1. Len(t) = m
    BY <1>1, ListIsSeq
  <2>2. t = <<>> <=> m = 0
    BY <1>1, EmptyList
  <2> QED  BY <1>1, <2>1, <2>2
<1>3. t[n + 1] = v /\ Same(t, s, 1, n)
  BY <1>1 DEF Extended, Same
<1>4. Part(t, 1, n) = s
  BY <1>3, SubFirst
<1> QED  BY <1>1, <1>2, <1>3, <1>4 DEF t, m

\* The stack over a chunks from lo is merged, but for the value pushed last.
Lazy(s, lo, a) ==
  /\ lo \in Nat /\ a \in Nat
  /\ \/ a = 0 /\ s = <<>>
     \/ \E z, m, d : Next(z, m, d, a) /\ s = Push(Peaks(lo, d), Node(lo + d, lo + a))

\* The merged stack is such a one.
LEMMA PeaksLazy ==
  ASSUME NEW lo \in Nat, NEW a \in Nat
  PROVE  Lazy(Peaks(lo, a), lo, a)
<1>1. CASE a = 0
  BY <1>1, PeaksEquation DEF Lazy
<1>2. CASE a # 0
  <2>1. PICK k, c : Odd(a, LowBit(a), k, c)
    BY <1>2, PeaksLast
  <2> DEFINE p == LowBit(a)
             m == 2 * k
  <2>2. Peaks(lo, a) = Push(Peaks(lo, c), Node(lo + c, lo + a))
    BY <2>1, PeaksAppend DEF Push
  <2>3. Next(p, m, c, a)
    BY <2>1 DEF Odd, Next
  <2> HIDE DEF p, m
  <2> QED  BY <2>2, <2>3 DEF Lazy
<1> QED  BY <1>1, <1>2

\* What is under the value pushed last is over fewer chunks.
LEMMA NextFacts ==
  ASSUME NEW z, NEW m, NEW a, NEW b, Next(z, m, a, b)
  PROVE  z \in Nat /\ z >= 1 /\ m \in Nat /\ a \in Nat /\ b \in Nat /\ b = a + z /\ a < b
<1>1. z \in Nat /\ IsPow2(z) /\ m \in Nat /\ a \in Nat /\ b \in Nat /\ b = a + z
  BY DEF Next
<1>2. z # 0
  BY <1>1, Pow2Double
<1> QED  BY <1>1, <1>2

\* merge_cv_stack merges it.
LEMMA MergeStackIs ==
  ASSUME NEW s, NEW a, Lazy(s, initial, a)
  PROVE  MergeStack(s, initial + a) = Peaks(initial, a)
<1> DEFINE lo == initial
           post == Ones[(lo + a) - initial]
           c0 == lo + a
<1>1. lo \in Nat /\ a \in Nat
  BY DEF Lazy
<1>2. post = Ones[a] /\ Ones[a] \in Nat
  <2>1. (lo + a) - initial = a
    BY <1>1
  <2> QED  BY <1>1, <2>1, OnesFacts
<1>3. MergeStack(s, lo + a) =
        IF Len(s) <= post THEN s
        ELSE Append(Take(s, post - 1), Onto(SubSeq(s, post, Len(s) - 1), s[Len(s)]))
  BY DEF MergeStack
<1> HIDE DEF post
<1>4. CASE a = 0 /\ s = <<>>
  <2>1. Len(s) = 0 /\ Peaks(lo, a) = <<>>
    BY <1>1, <1>4, EmptySeq, PeaksEquation
  <2> QED  BY <1>2, <1>3, <1>4, <2>1
<1>5. ASSUME NEW z, NEW m, NEW d, Next(z, m, d, a), s = Push(Peaks(lo, d), Node(lo + d, lo + a))
      PROVE  MergeStack(s, lo + a) = Peaks(lo, a)
  <2>1. m \in Nat /\ d \in Nat /\ d < a
    BY <1>5, NextFacts
  <2>2. PICK c : Joins(lo, d, a, c)
    BY <1>1, <1>5, <2>1, Joining
  <2> DEFINE u == Peaks(lo, d)
             w == Peaks(lo, c)
             n == Ones[d]
             q == Ones[c]
             v == Node(lo + d, lo + a)
             top == Node(lo + c, lo + a)
  <2>3. /\ c \in Nat /\ q \in Nat /\ q <= n /\ Ones[a] = q + 1
        /\ Peaks(lo, a) = Append(w, top)
        /\ Same(u, w, 1, q)
        /\ Onto(Part(u, q + 1, n), v) = top
    BY <2>2 DEF Joins
  <2>4. IsList(u, n) /\ n \in Nat /\ IsList(w, q)
    BY <1>1, <2>1, <2>3, PeaksList
  <2>5. s = Push(u, v)
    BY <1>5
  <2> HIDE DEF u, w, n, q, v, top
  <2>6. Len(s) = n + 1 /\ s[n + 1] = v /\ Same(s, u, 1, n)
    BY <2>4, <2>5, PushFacts
  <2>7. CASE q = n
    <3>1. w = u
      <4>1. \A i \in 1..n : u[i] = w[i]
        BY <2>3, <2>7 DEF Same
      <4> QED  BY <2>4, <2>7, <4>1, ListOf
    <3>2. top = v
      <4>1. Part(u, n + 1, n) = <<>>
        BY <2>4, SubNone
      <4> QED  BY <2>3, <2>7, <4>1, OntoEmpty
    <3>3. Len(s) <= post
      BY <1>2, <2>3, <2>4, <2>6, <2>7
    <3> QED  BY <1>3, <2>3, <2>5, <3>1, <3>2, <3>3 DEF Push
  <2>8. CASE q # n
    <3>1. ~(Len(s) <= post) /\ post = q + 1 /\ post - 1 = q /\ Len(s) - 1 = n
      BY <1>2, <2>3, <2>4, <2>6, <2>8
    <3>2. Take(s, post - 1) = w
      <4>1. Same(s, w, 1, q)
        BY <2>3, <2>4, <2>6 DEF Same
      <4>2. Part(s, 1, q) = w
        BY <2>3, <2>4, <4>1, SubFirst
      <4> QED  BY <3>1, <4>2 DEF Take, Part
    <3>3. SubSeq(s, post, Len(s) - 1) = Part(u, q + 1, n)
      <4> DEFINE x == q + 1
      <4>1. x \in Nat /\ x <= n + 1 /\ \A i \in x..n : i \in 1..n
        BY <2>3, <2>4
      <4>2. Same(s, u, x, n)
        BY <2>6, <4>1 DEF Same
      <4> HIDE DEF x
      <4>3. Part(s, x, n) = Part(u, x, n)
        BY <2>4, <4>1, <4>2, SubSame
      <4>4. post = x
        BY <3>1 DEF x
      <4> QED  BY <3>1, <4>3, <4>4 DEF x, Part
    <3>4. s[Len(s)] = v
      BY <2>6
    <3>5. MergeStack(s, lo + a) = Append(w, Onto(Part(u, q + 1, n), v))
      <4> HIDE DEF lo
      <4> QED  BY <1>3, <3>1, <3>2, <3>3, <3>4
    <3> QED  BY <2>3, <3>5
  <2> QED  BY <2>7, <2>8
<1>6. \/ a = 0 /\ s = <<>>
      \/ \E z, m, d : Next(z, m, d, a) /\ s = Push(Peaks(lo, d), Node(lo + d, lo + a))
  BY DEF Lazy
<1> QED  BY <1>4, <1>5, <1>6

\* push_cv merges it, and pushes the next subtree.
LEMMA PushIs ==
  ASSUME NEW s, NEW a, Lazy(s, initial, a), NEW z, NEW m, NEW b, Next(z, m, a, b)
  PROVE  Lazy(PushCV(s, Node(initial + a, initial + b), initial + a), initial, b)
<1> DEFINE v == Node(initial + a, initial + b)
<1>1. initial \in Nat /\ b \in Nat
  BY NextFacts DEF Lazy
<1>2. MergeStack(s, initial + a) = Peaks(initial, a)
  BY MergeStackIs
<1>3. PushCV(s, v, initial + a) = Push(Peaks(initial, a), v)
  BY <1>2 DEF PushCV, Push
<1> QED  BY <1>1, <1>3 DEF Lazy

\* It is empty over no chunks only, and deeper than the exponent of the power that the
\* chunks do not exceed by one at most.
LEMMA LazyLen ==
  ASSUME NEW s, NEW lo, NEW a, Lazy(s, lo, a)
  PROVE  /\ s = <<>> <=> a = 0
         /\ Len(s) \in Nat
         /\ \A d \in Nat : a <= Exp2[d] => Len(s) <= d + 1
<1>1. lo \in Nat /\ a \in Nat
  BY DEF Lazy
<1>2. CASE a = 0 /\ s = <<>>
  <2>1. Len(s) = 0
    BY <1>2, EmptySeq
  <2> QED  BY <1>2, <2>1
<1>3. ASSUME NEW z, NEW m, NEW c, Next(z, m, c, a), s = Push(Peaks(lo, c), Node(lo + c, lo + a))
      PROVE  /\ s = <<>> <=> a = 0
             /\ Len(s) \in Nat
             /\ \A d \in Nat : a <= Exp2[d] => Len(s) <= d + 1
  <2>1. c \in Nat /\ c < a
    BY <1>3, NextFacts
  <2>2. IsList(Peaks(lo, c), Ones[c]) /\ Ones[c] \in Nat
    BY <1>1, <2>1, PeaksList
  <2>3. Len(s) = Ones[c] + 1 /\ s # <<>>
    BY <1>3, <2>2, PushFacts
  <2>4. ASSUME NEW d \in Nat, a <= Exp2[d]
        PROVE  Ones[c] <= d
    <3>1. Exp2[d] \in Nat
      BY Exp2Facts
    <3>2. c < Exp2[d]
      BY <1>1, <2>1, <2>4, <3>1
    <3> QED  BY <2>1, <3>2, OnesBelow
  <2>5. a # 0
    BY <2>1
  <2> QED  BY <2>2, <2>3, <2>4, <2>5
<1> QED  BY <1>2, <1>3 DEF Lazy

-----------------------------------------------------------------------------
(* What the fork's hasher is finalized to *)

\* The hasher holds the bytes up to x: the stack those of a chunks from the start, and
\* the chunk's state the rest.
Holds(a, w, x) ==
  LET k == initial + a
      lo == k * ChunkLen
  IN  /\ initial \in Nat /\ a \in Nat
      /\ InChunk(k, lo, w, x) /\ x <= lo + ChunkLen
      /\ chunk = Filled(k, lo, w, x)
      /\ Lazy(stack, initial, a)
      /\ x > lo => stack = Peaks(initial, a)

\* A value that is not the root's is not left alone on the stack.
LEMMA FinalIs ==
  ASSUME NEW a, NEW w, NEW x, Holds(a, w, x),
         x = (initial + a) * ChunkLen => Len(stack) # 1
  PROVE  FinalOutput = Tree[<<initial * ChunkLen, x>>]
<1> DEFINE k == initial + a
           lo == k * ChunkLen
           n == Len(stack)
<1>1. /\ initial \in Nat /\ a \in Nat
      /\ InChunk(k, lo, w, x) /\ x <= lo + ChunkLen
      /\ chunk = Filled(k, lo, w, x)
      /\ Lazy(stack, initial, a)
      /\ x > lo => stack = Peaks(initial, a)
      /\ x = lo => Len(stack) # 1
  BY DEF Holds
<1>2. k \in Nat /\ lo \in Nat /\ x \in Nat /\ lo <= x
  BY <1>1 DEF InChunk
<1> HIDE DEF k, lo
<1>3. ChunkOutput(chunk) = ChunkOf(lo, x) /\ Count(chunk) = x - lo
  BY <1>1, ChunkOutputIs, CountIs
<1>4. ChunkOf(lo, x) = Tree[<<lo, x>>]
  BY <1>1, <1>2, TreeLeaf
<1>5. stack = <<>> <=> a = 0
  BY <1>1, LazyLen
<1>6. CASE stack = <<>>
  <2>1. FinalOutput = Tree[<<lo, x>>]
    BY <1>3, <1>4, <1>6 DEF FinalOutput
  <2>2. lo = initial * ChunkLen
    BY <1>1, <1>5, <1>6 DEF k, lo
  <2> QED  BY <2>1, <2>2
<1>7. CASE stack # <<>> /\ x > lo
  <2>1. FinalOutput = Onto(Peaks(initial, a), Tree[<<lo, x>>])
    <3>1. Count(chunk) > 0
      BY <1>2, <1>3, <1>7
    <3>2. FinalOutput = Onto(stack, ChunkOutput(chunk))
      BY <1>7, <3>1 DEF FinalOutput
    <3> QED  BY <1>1, <1>3, <1>4, <1>7, <3>2
  <2>2. Overhangs(initial, a, x)
    <3> DEFINE p == LowBit(a)
               y == k * ChunkLen
    <3>1. p \in Nat /\ p >= 1
      BY <1>1, <1>5, <1>7, LowBitFacts
    <3> HIDE DEF p
    <3>2. (k + p) * ChunkLen = lo + p * ChunkLen /\ p * ChunkLen >= ChunkLen /\ p * ChunkLen \in Nat
      <4>1. (k + p) * ChunkLen = k * ChunkLen + p * ChunkLen
        BY <1>2, <3>1, Lengths
      <4>2. 1 * ChunkLen <= p * ChunkLen /\ p * ChunkLen \in Nat
        BY <3>1, MulMono, Lengths
      <4> QED  BY <4>1, <4>2, Lengths DEF lo
    <3>3. x <= (k + p) * ChunkLen
      BY <1>1, <1>2, <3>2, Lengths
    <3>4. lo < x
      BY <1>7
    <3> QED  BY <1>2, <3>3, <3>4 DEF Overhangs, k, lo, p
  <2>3. Spans(initial, a, x)
    BY <1>1, <1>2, <2>2, Spine
  <2> QED  BY <2>1, <2>3 DEF Spans, k, lo
<1>8. CASE stack # <<>> /\ x = lo
  <2>1. PICK z, m, d : Next(z, m, d, a) /\ stack = Push(Peaks(initial, d), Node(initial + d, initial + a))
    BY <1>5, <1>1, <1>8 DEF Lazy
  <2> DEFINE v == Node(initial + d, initial + a)
             s == Peaks(initial, d)
  <2>2. /\ z \in Nat /\ z >= 1 /\ m \in Nat /\ d \in Nat /\ a = d + z
        /\ IsPow2(z) /\ d = z * m
    BY <2>1, NextFacts DEF Next
  <2>3. IsList(s, Ones[d]) /\ Ones[d] \in Nat
    BY <1>1, <2>2, PeaksList
  <2>4. /\ n = Ones[d] + 1 /\ stack[Ones[d] + 1] = v
        /\ Same(stack, s, 1, Ones[d])
    <3>1. stack = Push(s, v)
      BY <2>1
    <3> HIDE DEF s, v
    <3> QED  BY <2>3, <3>1, PushFacts
  <2>5. d # 0
    <3> SUFFICES ASSUME d = 0 PROVE FALSE
      OBVIOUS
    <3>1. n = 1
      BY <2>4, OnesFacts
    <3> QED  BY <1>1, <1>8, <3>1
  <2>6. PICK j, c : Odd(d, LowBit(d), j, c)
    BY <2>2, <2>5, PeaksLast
  <2> DEFINE u == Node(initial + c, initial + d)
             r == Peaks(initial, c)
             q == Ones[c]
  <2>7. s = Push(r, u)
    BY <1>1, <2>6, PeaksAppend DEF Push
  <2>8. Ones[d] = q + 1 /\ q \in Nat
    BY <2>6, PeaksOnes
  <2>9. c \in Nat
    BY <2>6 DEF Odd
  <2>10. IsList(r, q)
    BY <1>1, <2>9, PeaksList
  <2> HIDE DEF s, r, u, v, q
  <2>11. s[q + 1] = u /\ Same(s, r, 1, q)
    BY <2>7, <2>8, <2>10, PushFacts
  <2>12. n - 2 = q /\ n - 1 = q + 1 /\ n = q + 2
    BY <2>4, <2>8
  <2>13. stack[n] = v /\ stack[n - 1] = u
    <3>1. stack[q + 1] = s[q + 1]
      BY <2>4, <2>8 DEF Same
    <3> QED  BY <2>4, <2>8, <2>11, <2>12, <3>1
  <2>14. Take(stack, n - 2) = r
    <3>1. Same(stack, r, 1, q)
      BY <2>4, <2>8, <2>11 DEF Same
    <3>2. Part(stack, 1, q) = r
      BY <2>8, <2>10, <3>1, SubFirst
    <3> QED  BY <2>12, <3>2 DEF Take, Part
  <2>15. FinalOutput = Onto(r, Parent(u, v))
    <3>1. ~(Count(chunk) > 0)
      BY <1>2, <1>3, <1>8
    <3>2. FinalOutput = Onto(Take(stack, n - 2), Parent(stack[n - 1], stack[n]))
      BY <1>8, <3>1 DEF FinalOutput
    <3> QED  BY <2>13, <2>14, <3>2
  <2>16. Onto(r, Parent(u, v)) = Onto(s, v)
    <3>1. Onto(Append(r, u), v) = Onto(r, Parent(u, v))
      BY <2>8, <2>10, OntoAppend
    <3> QED  BY <2>7, <3>1 DEF Push
  <2>17. v = Tree[<<(initial + d) * ChunkLen, x>>]
    BY <1>8 DEF v, Node, k, lo
  <2>18. Overhangs(initial, d, x)
    <3> DEFINE p == LowBit(d)
    <3>1. p \in Nat /\ z <= p
      <4>1. Div(z, d)
        BY <2>2 DEF Div
      <4> QED  BY <2>2, <2>5, <4>1, LowBitFacts, LowBitLargest
    <3> HIDE DEF p
    <3> DEFINE e == initial + d
               y == e + p
    <3>2. e \in Nat /\ y \in Nat /\ k \in Nat /\ e + 1 <= k /\ k <= y
      BY <1>1, <2>2, <3>1 DEF k
    <3> HIDE DEF e, y
    <3>3. (e + 1) * ChunkLen <= k * ChunkLen /\ k * ChunkLen <= y * ChunkLen
      BY <3>2, MulMono, Lengths
    <3>4. e * ChunkLen < x
      <4>1. (e + 1) * ChunkLen = e * ChunkLen + ChunkLen /\ e * ChunkLen \in Nat
        BY <3>2, Lengths
      <4> QED  BY <1>2, <1>8, <3>3, <4>1, Lengths DEF lo
    <3>5. x <= y * ChunkLen
      BY <1>8, <3>3 DEF lo
    <3> QED  BY <1>2, <3>4, <3>5 DEF Overhangs, e, y, p
  <2>19. Spans(initial, d, x)
    BY <1>1, <1>2, <2>2, <2>18, Spine
  <2> QED  BY <2>15, <2>16, <2>17, <2>19 DEF Spans, s
<1> QED  BY <1>1, <1>2, <1>6, <1>7, <1>8

\* What a later chunk's hasher holds is a node, as long as it does not exceed the
\* largest length.
LEMMA OffsetNode ==
  ASSUME NEW i \in Nat, i # 0, NEW x \in Nat, i * ChunkLen < x, x <= (i + LowBit(i)) * ChunkLen
  PROVE  <<i * ChunkLen, x>> \in Nodes[<<0, x>>]
<1> DEFINE b == i * ChunkLen
           r == <<b, x>>
<1>1. b \in Nat /\ (0 + i) * ChunkLen = b /\ 0 + i = i /\ 0 * ChunkLen = 0
  BY Lengths
<1>2. Overhangs(0, i, x)
  BY <1>1 DEF Overhangs
<1>3. Spans(0, i, x)
  BY <1>2, Spine
<1>4. Nodes[<<b, x>>] \subseteq Nodes[<<0, x>>]
  BY <1>1, <1>3 DEF Spans
<1>5. r \in Ranges
  BY <1>1 DEF Ranges
<1> HIDE DEF b
<1>6. r \in Nodes[r]
  <2> HIDE DEF r
  <2> QED  BY <1>5, NodesSelf
<1> QED  BY <1>4, <1>6 DEF b

-----------------------------------------------------------------------------
(* Subtrees hashed at once *)

\* The subtree update takes is a power of two of chunks, as many as divide those before
\* it.
LEMMA SubtreeLenIs ==
  ASSUME NEW n \in Nat, Len(input) = n, n > ChunkLen, NEW k \in Nat, chunk.counter = k
  PROVE  \E z \in Nat : /\ IsPow2(z) /\ z >= 1 /\ Div(z, k)
                        /\ SubtreeLen = z * ChunkLen /\ SubtreeLen \div ChunkLen = z
                        /\ z * ChunkLen <= n
<1> DEFINE m == n \div 2 + 1
           largest == NextPow2(m)
           T == {p \in 1..largest : IsPow2(p) /\ (k * ChunkLen) % p = 0}
           size == Max(T)
<1>1. SubtreeLen = size
  BY DEF SubtreeLen
<1>2. PICK h \in Nat : (n = 2 * h \/ n = 2 * h + 1) /\ n \div 2 = h
  BY EvenOrOdd
<1>3. m = h + 1 /\ m \in Nat /\ m >= 2
  BY <1>2, Lengths
<1> HIDE DEF m
<1>4. largest \in Nat /\ IsPow2(largest) /\ m <= largest /\ largest < 2 * m
  <2>1. m \in Nat /\ m # 0
    BY <1>3
  <2>2. largest \in Nat /\ IsPow2(largest)
    BY <2>1, NextPow2Facts
  <2>3. m <= largest /\ largest < 2 * m
    BY <2>1, NextPow2Facts
  <2> QED  BY <2>2, <2>3
<1> HIDE DEF largest
<1>5. largest <= n /\ n < 2 * largest
  <2>1. largest # 1
    BY <1>3, <1>4
  <2>2. PICK q \in Nat : largest = 2 * q
    BY <1>4, <2>1, Pow2Half
  <2> QED  BY <1>2, <1>3, <1>4, <2>2
<1>6. ChunkLen <= largest
  <2> SUFFICES ASSUME largest < ChunkLen PROVE FALSE
    BY <1>4, Lengths
  <2>1. 2 * largest <= ChunkLen
    BY <1>4, Pow2Gap, Lengths
  <2> QED  BY <1>4, <1>5, <2>1, Lengths
<1>7. (k * ChunkLen) % ChunkLen = 0 /\ k * ChunkLen \in Nat
  <2> DEFINE x == k * ChunkLen
             c == ChunkLen
             q == x \div c
             r == x % c
  <2>1. x \in Nat /\ c \in Nat \ {0} /\ x = c * k
    BY Lengths
  <2> HIDE DEF x, c
  <2>2. q = k
    BY <2>1, QuotientIs
  <2>3. r \in 0..c - 1 /\ x = c * q + r
    BY <2>1, Quotient
  <2> HIDE DEF q, r
  <2>4. x = c * k + r /\ c * k \in Nat
    BY <2>1, <2>2, <2>3
  <2>5. r = 0
    BY <2>1, <2>3, <2>4
  <2> QED  BY <2>1, <2>5 DEF x, r, c
<1>8. ChunkLen \in T
  BY <1>4, <1>6, <1>7, Lengths
<1>9. T \subseteq 0..largest /\ T # {}
  BY <1>8
<1>10. size \in T /\ \A p \in T : p <= size
  <2> HIDE DEF T
  <2> QED  BY <1>4, <1>9, Greatest
<1>11. /\ size \in Nat /\ size >= 1 /\ size <= largest /\ IsPow2(size)
       /\ (k * ChunkLen) % size = 0
  <2> HIDE DEF size
  <2> QED  BY <1>4, <1>10
<1>12. ChunkLen <= size
  BY <1>8, <1>10
<1> HIDE DEF size, T
<1>13. PICK z \in Nat : size = ChunkLen * z /\ IsPow2(z)
  BY <1>11, <1>12, Pow2Ratio, Lengths
<1>14. z >= 1
  <2>1. z # 0
    BY <1>13, Pow2Double
  <2> QED  BY <2>1
<1>15. Div(z, k)
  <2> DEFINE x == k * ChunkLen
             q == x \div size
  <2>1. x \in Nat /\ size \in Nat \ {0}
    BY <1>7, <1>11
  <2>2. q \in Nat /\ x = size * q
    <3> HIDE DEF x
    <3>1. q \in Nat /\ x % size \in 0..size - 1 /\ x = size * q + (x % size)
      BY <2>1, Quotient
    <3>2. x % size = 0
      BY <1>11 DEF x
    <3> HIDE DEF q
    <3>3. size * q \in Nat
      BY <2>1, <3>1
    <3> QED  BY <3>1, <3>2, <3>3
  <2> HIDE DEF q
  <2>3. ChunkLen * k = ChunkLen * (z * q)
    <3>1. k * ChunkLen = (ChunkLen * z) * q
      BY <1>13, <2>2
    <3>2. (ChunkLen * z) * q = ChunkLen * (z * q)
      BY <1>13, <2>2, Lengths
    <3>3. k * ChunkLen = ChunkLen * k
      BY Lengths
    <3> QED  BY <3>1, <3>2, <3>3
  <2> DEFINE y == z * q
  <2>4. y \in Nat
    BY <2>2
  <2> HIDE DEF y
  <2>5. ChunkLen * k = ChunkLen * y
    BY <2>3 DEF y
  <2>6. k = y
    <3> DEFINE c == ChunkLen
               e == c * k
    <3>1. c \in Nat \ {0} /\ e \in Nat
      BY Lengths
    <3>2. e = c * k /\ e = c * y
      BY <2>5
    <3> HIDE DEF c, e
    <3>3. c * k <= e /\ e < c * k + c /\ c * y <= e /\ e < c * y + c
      BY <3>1, <3>2
    <3>4. e \div c = k
      BY <3>1, <3>3, QuotientIs
    <3>5. e \div c = y
      BY <2>4, <3>1, <3>3, QuotientIs
    <3> QED  BY <3>4, <3>5
  <2> QED  BY <2>2, <2>6 DEF Div, y
<1>16. size = z * ChunkLen
  BY <1>13, Lengths
<1>17. size \div ChunkLen = z
  <2> DEFINE c == ChunkLen
  <2>1. c \in Nat \ {0} /\ c * z <= size /\ size < c * z + c
    BY <1>11, <1>13, Lengths
  <2> HIDE DEF c
  <2>2. size \div c = z
    BY <1>11, <2>1, QuotientIs
  <2> QED  BY <2>2 DEF c
<1> QED  BY <1>1, <1>4, <1>5, <1>11, <1>13, <1>14, <1>15, <1>16, <1>17

\* The chaining values of w subtrees of z chunks from chunk lo on
Layer(lo, z, w) == [i \in 1..w |-> Node(lo + (i - 1) * z, lo + i * z)]

\* A layer is a list.
LEMMA LayerFacts ==
  ASSUME NEW lo \in Nat, NEW z \in Nat, NEW w \in Nat
  PROVE  /\ IsList(Layer(lo, z, w), w) /\ Len(Layer(lo, z, w)) = w
         /\ \A i \in 1..w : Layer(lo, z, w)[i] = Node(lo + (i - 1) * z, lo + i * z)
<1>1. /\ IsList(Layer(lo, z, w), w)
      /\ \A i \in 1..w : Layer(lo, z, w)[i] = Node(lo + (i - 1) * z, lo + i * z)
  BY DEF IsList, Layer
<1> QED  BY <1>1, ListIsSeq

\* Half of an even number, rounded up
LEMMA HalfEven ==
  ASSUME NEW w \in Nat
  PROVE  DivCeil(2 * w, 2) = w
<1> DEFINE x == 2 * w + 2 - 1
<1>1. x \in Nat /\ 2 * w <= x /\ x < 2 * w + 2
  OBVIOUS
<1> HIDE DEF x
<1>2. x \div 2 = w
  BY <1>1, QuotientIs
<1> QED  BY <1>2 DEF DivCeil, x

\* The parents of a layer of subtrees are the layer of subtrees of twice the size.
LEMMA ParentsLayer ==
  ASSUME NEW lo \in Nat, NEW z \in Nat, IsPow2(z), NEW w \in Nat, NEW y, y = 2 * z, NEW v, v = 2 * w
  PROVE  HashParents(Layer(lo, z, v)) = Layer(lo, y, w)
<1> DEFINE s == Layer(lo, z, v)
           t == HashParents(s)
           u == Layer(lo, y, w)
<1>1. /\ y \in Nat /\ v \in Nat /\ Len(s) = v
      /\ \A i \in 1..v : s[i] = Node(lo + (i - 1) * z, lo + i * z)
  <2>1. y \in Nat /\ v \in Nat
    OBVIOUS
  <2>2. Len(s) = v
    BY <2>1, LayerFacts
  <2>3. \A i \in 1..v : s[i] = Node(lo + (i - 1) * z, lo + i * z)
    BY <2>1, LayerFacts
  <2> QED  BY <2>1, <2>2, <2>3
<1>2. IsList(u, w) /\ \A i \in 1..w : u[i] = Node(lo + (i - 1) * y, lo + i * y)
  <2>1. y \in Nat
    BY <1>1
  <2>2. IsList(u, w)
    BY <2>1, LayerFacts
  <2>3. \A i \in 1..w : u[i] = Node(lo + (i - 1) * y, lo + i * y)
    BY <2>1, LayerFacts
  <2> QED  BY <2>2, <2>3
<1>3. DivCeil(Len(s), 2) = w
  BY <1>1, HalfEven
<1> HIDE DEF s
<1>4. /\ IsList(t, w)
      /\ \A i \in 1..w : t[i] = IF 2 * i <= Len(s) THEN Parent(s[2 * i - 1], s[2 * i]) ELSE s[2 * i - 1]
  BY <1>3 DEF HashParents, IsList
<1> HIDE DEF t, u
<1>5. \A i \in 1..w : t[i] = u[i]
  <2> TAKE i \in 1..w
  <2> DEFINE a == lo + (i - 1) * y
             b == a + z
             c == b + z
             j == 2 * i - 1
             k == 2 * i
  <2>1. /\ a \in Nat /\ b \in Nat /\ c \in Nat
        /\ c = lo + i * y
        /\ b = lo + j * z /\ a = lo + (j - 1) * z /\ c = lo + k * z
        /\ j \in 1..v /\ k \in 1..v /\ k - 1 = j
    <3>1. /\ (i - 1) * y \in Nat /\ i * y = (i - 1) * y + 2 * z
          /\ j * z = (i - 1) * y + z /\ (j - 1) * z = (i - 1) * y /\ k * z = i * y
      BY <1>1
    <3>2. j \in 1..v /\ k \in 1..v /\ k - 1 = j
      OBVIOUS
    <3> DEFINE e == (i - 1) * y
    <3>3. /\ e \in Nat /\ i * y = e + 2 * z /\ j * z = e + z /\ (j - 1) * z = e /\ k * z = i * y
          /\ a = lo + e
      BY <3>1
    <3> HIDE DEF j, k, e
    <3>4. a \in Nat /\ b \in Nat /\ c \in Nat /\ b = a + z /\ c = b + z
      BY <3>3
    <3> HIDE DEF a, b, c
    <3>5. /\ c = lo + i * y
          /\ b = lo + j * z /\ a = lo + (j - 1) * z /\ c = lo + k * z
      BY <3>3, <3>4
    <3> QED  BY <3>2, <3>4, <3>5
  <2> HIDE DEF a, b, c
  <2>2. s[j] = Node(a, b)
    BY <1>1, <2>1
  <2>3. s[k] = Node(b, c)
    BY <1>1, <2>1
  <2>4. t[i] = Parent(s[j], s[k])
    BY <1>1, <1>4
  <2>5. Parent(Node(a, b), Node(b, c)) = Node(a, c)
    BY <2>1, NodeParent DEF b, c
  <2>6. u[i] = Node(a, c)
    BY <1>2, <2>1 DEF a
  <2> QED  BY <2>2, <2>3, <2>4, <2>5, <2>6
<1>6. t = u
  BY <1>2, <1>4, <1>5, ListOf
<1> QED  BY <1>6 DEF s, t, u

\* A name for a concatenation
Joined(s, t) == s \o t

\* Two layers next to each other
LEMMA JoinedLayers ==
  ASSUME NEW lo \in Nat, NEW z \in Nat, NEW w \in Nat, NEW mid, mid = lo + w * z, NEW v, v = 2 * w
  PROVE  Joined(Layer(lo, z, w), Layer(mid, z, w)) = Layer(lo, z, v)
<1> DEFINE s == Layer(lo, z, w)
           t == Layer(mid, z, w)
           st == s \o t
           u == Layer(lo, z, v)
<1>1. IsList(s, w) /\ \A i \in 1..w : s[i] = Node(lo + (i - 1) * z, lo + i * z)
  BY LayerFacts
<1>2. IsList(t, w) /\ \A i \in 1..w : t[i] = Node(mid + (i - 1) * z, mid + i * z)
  <2>1. mid \in Nat
    OBVIOUS
  <2> QED  BY <2>1, LayerFacts
<1>3. v \in Nat /\ v = w + w /\ IsList(u, v) /\ \A i \in 1..v : u[i] = Node(lo + (i - 1) * z, lo + i * z)
  BY LayerFacts
<1> HIDE DEF s, t, u
<1>4. IsList(st, w + w) /\ Begins(st, s, w) /\ Behind(st, t, w, w)
  BY <1>1, <1>2, ListConcat
<1> HIDE DEF st
<1>5. \A i \in 1..v : st[i] = u[i]
  <2> TAKE i \in 1..v
  <2>1. CASE i <= w
    <3>1. i \in 1..w
      BY <2>1
    <3> QED  BY <1>1, <1>3, <1>4, <3>1 DEF Begins
  <2>2. CASE ~(i <= w)
    <3> DEFINE j == i - w
    <3>1. j \in 1..w /\ w + j = i
      BY <2>2
    <3>2. st[w + j] = t[j]
      BY <1>4, <3>1 DEF Behind
    <3>3. mid + (j - 1) * z = lo + (i - 1) * z /\ mid + j * z = lo + i * z
      <4>1. w * z + (j - 1) * z = (i - 1) * z /\ w * z + j * z = i * z
        OBVIOUS
      <4> QED  BY <3>1, <4>1
    <3> HIDE DEF j
    <3>4. t[j] = Node(lo + (i - 1) * z, lo + i * z)
      BY <1>2, <3>1, <3>3
    <3> QED  BY <1>3, <3>1, <3>2, <3>4
  <2> QED  BY <2>1, <2>2
<1>6. st = u
  BY <1>3, <1>4, <1>5, ListOf
<1> QED  BY <1>6 DEF s, t, u, st, Joined

-----------------------------------------------------------------------------
(* compress_subtree_wide and compress_subtree_to_parent_node *)

\* Chunks hashed side by side
LEMMA LeafLayer ==
  ASSUME NEW k \in Nat, NEW z \in Nat, NEW lo, lo = k * ChunkLen, NEW hi, hi = lo + z * ChunkLen
  PROVE  HashChunks(Bytes(lo, hi), k) = Layer(k, 1, z)
<1> DEFINE bytes == Bytes(lo, hi)
           n == z * ChunkLen
           s == HashChunks(bytes, k)
           t == Layer(k, 1, z)
<1>1. lo \in Nat /\ hi \in Nat /\ n \in Nat /\ lo <= hi /\ hi - lo = n
  BY Lengths
<1>2. Len(bytes) = n
  BY <1>1, BytesList
<1>3. DivCeil(Len(bytes), ChunkLen) = z
  <2> DEFINE c == ChunkLen
             x == n + c - 1
  <2>1. c \in Nat \ {0} /\ x \in Nat /\ c * z = n /\ c * z <= x /\ x < c * z + c
    BY <1>1, Lengths
  <2> HIDE DEF c, x
  <2>2. x \div c = z
    BY <2>1, QuotientIs
  <2> HIDE DEF bytes, n
  <2> QED  BY <1>2, <2>2 DEF DivCeil, x, c
<1>4. IsList(t, z) /\ \A i \in 1..z : t[i] = Node(k + (i - 1) * 1, k + i * 1)
  BY LayerFacts
<1>5. /\ IsList(s, z)
      /\ \A i \in 1..z : s[i] =
           ChunkOutput(ChunkUpdate(NewChunk(k + i - 1),
             SubSeq(bytes, (i - 1) * ChunkLen + 1, Min2(i * ChunkLen, Len(bytes)))))
  <2> HIDE DEF bytes
  <2> QED  BY <1>3 DEF HashChunks, IsList
<1> HIDE DEF s, t, bytes, n
<1>6. \A i \in 1..z : s[i] = t[i]
  <2> TAKE i \in 1..z
  <2> DEFINE j == k + i - 1
             x == j * ChunkLen
             y == (j + 1) * ChunkLen
             a == (i - 1) * ChunkLen + 1
             b == i * ChunkLen
  <2>1. j \in Nat /\ j + 1 = k + i
    OBVIOUS
  <2>2. /\ x \in Nat /\ y \in Nat /\ y = x + ChunkLen
        /\ a \in Nat /\ b \in Nat /\ a >= 1 /\ a <= b + 1
        /\ x = lo + a - 1 /\ y = lo + b
    <3> DEFINE e == (i - 1) * ChunkLen
    <3>1. e \in Nat /\ b = e + ChunkLen /\ x = k * ChunkLen + e /\ y = x + ChunkLen /\ a = e + 1
      BY Lengths
    <3> HIDE DEF e, x, y, a, b
    <3> QED  BY <1>1, <3>1, Lengths
  <2>3. b <= n
    BY MulMono, Lengths DEF n
  <2>4. Min2(b, Len(bytes)) = b
    BY <1>1, <1>2, <2>2, <2>3 DEF Min2
  <2> HIDE DEF a, b
  <2>5. lo + b <= hi
    BY <1>1, <2>2, <2>3
  <2>6. SubSeq(bytes, a, b) = Bytes(x, y)
    <3> HIDE DEF x, y
    <3>1. Part(Bytes(lo, hi), a, b) = Bytes(x, y)
      BY <1>1, <2>2, <2>5, BytesSub
    <3> QED  BY <3>1 DEF bytes, Part
  <2>7. ChunkOutput(ChunkUpdate(NewChunk(j), Bytes(x, y))) = ChunkOf(x, y)
    <3>1. x <= y /\ x = j * ChunkLen
      BY <2>2, Lengths
    <3> HIDE DEF j, x, y
    <3> QED  BY <2>1, <2>2, <3>1, WholeChunk
  <2>8. ChunkOf(x, y) = Tree[<<x, y>>]
    <3> HIDE DEF x, y
    <3> QED  BY <2>2, TreeLeaf, Lengths
  <2>9. s[i] = Tree[<<x, y>>]
    <3>1. s[i] = ChunkOutput(ChunkUpdate(NewChunk(j), SubSeq(bytes, a, Min2(b, Len(bytes)))))
      BY <1>5 DEF a, b
    <3> HIDE DEF j, x, y
    <3> QED  BY <2>4, <2>6, <2>7, <2>8, <3>1
  <2>10. t[i] = Node(j, j + 1)
    <3>1. k + (i - 1) * 1 = j /\ k + i * 1 = j + 1
      OBVIOUS
    <3> HIDE DEF j
    <3> QED  BY <1>4, <3>1
  <2> QED  BY <2>9, <2>10 DEF Node
<1>7. s = t
  BY <1>4, <1>5, <1>6, ListOf
<1> QED  BY <1>7 DEF s, t, bytes

\* The function in compress_subtree_wide, of a whole number of chunks
IsWide(f, lo, hi, k) ==
  /\ k \in Nat /\ hi \in Nat /\ lo = k * ChunkLen /\ degree \in Nat /\ degree >= 1
  /\ \A r \in Ranges : f[r] = OfRange("wide", Bytes(lo, hi), k, f, r)

\* The chunks g up to g + z
Span(g, z) == <<g * ChunkLen, (g + z) * ChunkLen>>

\* A batch is a layer of chunks, ...
LEMMA WideLeaf ==
  ASSUME NEW f, NEW lo, NEW hi, NEW k, IsWide(f, lo, hi, k),
         NEW g \in Nat, NEW z \in Nat, z >= 1, z <= degree, lo + (g + z) * ChunkLen <= hi
  PROVE  f[Span(g, z)] = Layer(k + g, 1, z)
<1> DEFINE r == Span(g, z)
           bytes == Bytes(lo, hi)
           x == g * ChunkLen
           y == (g + z) * ChunkLen
<1>1. /\ k \in Nat /\ hi \in Nat /\ lo = k * ChunkLen /\ degree \in Nat /\ degree >= 1
      /\ \A q \in Ranges : f[q] = OfRange("wide", bytes, k, f, q)
  BY DEF IsWide
<1>2. /\ x \in Nat /\ y \in Nat /\ lo \in Nat /\ y = x + z * ChunkLen /\ z * ChunkLen \in Nat
      /\ lo + x = (k + g) * ChunkLen
  BY <1>1, Lengths
<1>3. r \in Ranges /\ r[1] = x /\ r[2] = y
  BY <1>2 DEF Ranges, Span
<1> HIDE DEF r
<1>4. Size(r) <= LeafSize("wide")
  <2>1. Size(r) = z * ChunkLen
    BY <1>2, <1>3 DEF Size
  <2>2. z * ChunkLen <= degree * ChunkLen
    BY <1>1, MulMono, Lengths
  <2> QED  BY <2>1, <2>2 DEF LeafSize
<1>5. f[r] = HashChunks(SubSeq(bytes, x + 1, y), k + x \div ChunkLen)
  BY <1>1, <1>3, <1>4 DEF OfRange, OfLeaf
<1>6. x \div ChunkLen = g
  <2> DEFINE c == ChunkLen
  <2>1. c \in Nat \ {0} /\ c * g <= x /\ x < c * g + c
    BY <1>2, Lengths
  <2> HIDE DEF c, x
  <2>2. x \div c = g
    BY <1>2, <2>1, QuotientIs
  <2> QED  BY <2>2 DEF c
<1> DEFINE j == k + g
           from == lo + x
           to == lo + y
<1>7. SubSeq(bytes, x + 1, y) = Bytes(from, to)
  <2> DEFINE a == x + 1
  <2>1. /\ a \in Nat /\ a >= 1 /\ a <= y + 1 /\ lo + y <= hi
        /\ from \in Nat /\ to \in Nat /\ from = lo + a - 1 /\ to = lo + y
    BY <1>2
  <2> HIDE DEF a, x, y, from, to
  <2>2. Part(bytes, a, y) = Bytes(from, to)
    BY <1>1, <1>2, <2>1, BytesSub
  <2> QED  BY <2>2 DEF Part, a
<1>8. j \in Nat /\ from = j * ChunkLen /\ to = from + z * ChunkLen
  BY <1>1, <1>2
<1> HIDE DEF j, from, to, x, y, bytes
<1>9. HashChunks(Bytes(from, to), j) = Layer(j, 1, z)
  BY <1>8, LeafLayer
<1>10. k + x \div ChunkLen = j
  BY <1>6 DEF j
<1> QED  BY <1>5, <1>7, <1>9, <1>10 DEF r, j

\* ... and two layers of the same make one, of as many subtrees if they have more than
\* one each.
LEMMA WideSides ==
  ASSUME NEW f, NEW lo, NEW hi, NEW k, IsWide(f, lo, hi, k),
         NEW g \in Nat, NEW z \in Nat, IsPow2(z), NEW y, y = 2 * z, y > degree,
         NEW u \in Nat, NEW w \in Nat, IsPow2(u), z = w * u,
         f[Span(g, z)] = Layer(k + g, u, w), NEW h, h = g + z, f[Span(h, z)] = Layer(k + h, u, w)
  PROVE  f[Span(g, y)] = IF w = 1 THEN Layer(k + g, u, 2) ELSE Layer(k + g, 2 * u, w)
<1> DEFINE r == Span(g, y)
           bytes == Bytes(lo, hi)
           a == g * ChunkLen
           n == z * ChunkLen
           b == a + n
           c == b + n
<1>1. /\ k \in Nat /\ hi \in Nat /\ lo = k * ChunkLen /\ degree \in Nat /\ degree >= 1
      /\ \A q \in Ranges : f[q] = OfRange("wide", bytes, k, f, q)
  BY DEF IsWide
<1>2. /\ a \in Nat /\ n \in Nat /\ b \in Nat /\ c \in Nat
      /\ (g + y) * ChunkLen = c /\ h * ChunkLen = b /\ (h + z) * ChunkLen = c /\ (g + z) * ChunkLen = b
  BY Lengths
<1>3. Span(g, y) = <<a, c>> /\ Span(g, z) = <<a, b>> /\ Span(h, z) = <<b, c>>
  <2> HIDE DEF c, b
  <2> QED  BY <1>2 DEF Span
<1>4. n >= 1 /\ IsPow2(n)
  <2>1. z # 0
    BY Pow2Double
  <2>2. 1 * ChunkLen <= z * ChunkLen
    BY <2>1, MulMono, Lengths
  <2>3. IsPow2(z * ChunkLen)
    BY Pow2Product, Lengths
  <2> QED  BY <2>2, <2>3, Lengths
<1>5. ~(Size(r) <= LeafSize("wide")) /\ r \in Ranges
  <2>1. r[1] = a /\ r[2] = c /\ r \in Ranges
    BY <1>2, <1>3 DEF Ranges
  <2>2. Size(r) = 2 * n
    BY <1>2, <2>1 DEF Size
  <2>3. LeafSize("wide") = degree * ChunkLen
    BY DEF LeafSize
  <2>4. (degree + 1) * ChunkLen <= y * ChunkLen
    BY <1>1, MulMono, Lengths
  <2>5. (degree + 1) * ChunkLen = degree * ChunkLen + ChunkLen /\ y * ChunkLen = 2 * n /\ degree * ChunkLen \in Nat
    BY <1>1, Lengths
  <2> HIDE DEF n, r
  <2>6. degree * ChunkLen < 2 * n
    BY <2>4, <2>5, Lengths
  <2>7. ~(Size(r) <= LeafSize("wide"))
    BY <1>2, <2>2, <2>3, <2>5, <2>6
  <2> QED  BY <2>1, <2>7
<1>6. Mid("wide", r) = b
  <2>1. r[1] = a /\ r[2] = c
    BY <1>3
  <2> DEFINE m == 2 * n
  <2>2. m \in Nat /\ m >= 2 /\ m = 2 * n /\ r[2] - r[1] = m
    BY <1>2, <1>4, <2>1
  <2> HIDE DEF m, n, r
  <2>3. LeftSubtreeLen(m) = n
    BY <1>2, <1>4, <2>2, LeftSubtreeFacts
  <2> QED  BY <2>1, <2>2, <2>3 DEF Mid, b
<1> DEFINE left == Layer(k + g, u, w)
           right == Layer(k + h, u, w)
<1>7. f[r] = IF Len(left) = 1 THEN left \o right ELSE HashParents(left \o right)
  <2>1. r[1] = a /\ r[2] = c
    BY <1>3
  <2> HIDE DEF r, a, b, c, left, right
  <2>2. f[<<a, b>>] = left /\ f[<<b, c>>] = right
    BY <1>3 DEF left, right
  <2>3. f[r] = OfSides("wide", r, left, right)
    <3>1. f[r] = OfRange("wide", bytes, k, f, r)
      BY <1>1, <1>5
    <3>2. OfRange("wide", bytes, k, f, r)
            = OfSides("wide", r, f[<<r[1], Mid("wide", r)>>], f[<<Mid("wide", r), r[2]>>])
      BY <1>5 DEF OfRange
    <3>3. f[<<r[1], Mid("wide", r)>>] = left /\ f[<<Mid("wide", r), r[2]>>] = right
      BY <1>6, <2>1, <2>2
    <3> QED  BY <3>1, <3>2, <3>3
  <2> QED  BY <2>3 DEF OfSides
<1> DEFINE j == k + g
           v == 2 * w
           mid == k + h
<1>8. j \in Nat /\ mid = j + w * u /\ v = 2 * w
  BY <1>1
<1> HIDE DEF j, v, mid
<1>9. Joined(Layer(j, u, w), Layer(mid, u, w)) = Layer(j, u, v)
  BY <1>8, JoinedLayers
<1>10. left \o right = Layer(j, u, v)
  BY <1>9 DEF left, right, j, mid, Joined
<1>11. Len(left) = w
  BY <1>8, LayerFacts DEF j, left
<1> HIDE DEF left, right
<1>12. CASE w = 1
  <2>1. v = 2
    BY <1>8, <1>12
  <2>2. f[r] = left \o right
    BY <1>7, <1>11, <1>12
  <2> QED  BY <1>10, <1>12, <2>1, <2>2 DEF j
<1>13. CASE w # 1
  <2> DEFINE x == 2 * u
  <2>1. f[r] = HashParents(left \o right)
    BY <1>7, <1>11, <1>13
  <2>2. x = 2 * u
    OBVIOUS
  <2> HIDE DEF x
  <2>3. HashParents(Layer(j, u, v)) = Layer(j, x, w)
    BY <1>8, <2>2, ParentsLayer
  <2> QED  BY <1>10, <1>13, <2>1, <2>3 DEF j, x
<1> QED  BY <1>12, <1>13

\* z subtrees' worth of chunks in w subtrees of u, which are two at least if they can be
Layered(u, w, z) ==
  /\ u \in Nat /\ w \in Nat /\ IsPow2(u) /\ IsPow2(w) /\ z = w * u
  /\ z >= 2 => w >= 2

\* Any power of two of chunks is hashed to the same such layer, wherever it is.
LEMMA WideLayers ==
  ASSUME NEW f, NEW lo, NEW hi, NEW k, IsWide(f, lo, hi, k)
  PROVE  \A d \in Nat : \E u, w :
           /\ Layered(u, w, Exp2[d])
           /\ \A g \in Nat : lo + (g + Exp2[d]) * ChunkLen <= hi =>
                f[Span(g, Exp2[d])] = Layer(k + g, u, w)
<1> DEFINE P(z, u, w) == \A g \in Nat : lo + (g + z) * ChunkLen <= hi =>
                           f[Span(g, z)] = Layer(k + g, u, w)
           S == {d \in Nat : \E u, w : Layered(u, w, Exp2[d]) /\ P(Exp2[d], u, w)}
<1>1. /\ k \in Nat /\ hi \in Nat /\ lo = k * ChunkLen /\ lo \in Nat /\ degree \in Nat /\ degree >= 1
  BY Lengths DEF IsWide
<1>2. ASSUME NEW z \in Nat, IsPow2(z), z >= 1, z <= degree
      PROVE  Layered(1, z, z) /\ P(z, 1, z)
  <2>1. Layered(1, z, z)
    BY <1>2, Pow2Double DEF Layered
  <2>2. P(z, 1, z)
    <3> SUFFICES ASSUME NEW g \in Nat, lo + (g + z) * ChunkLen <= hi
                 PROVE  f[Span(g, z)] = Layer(k + g, 1, z)
      OBVIOUS
    <3> HIDE DEF P, S
    <3> QED  BY <1>2, WideLeaf
  <2> QED  BY <2>1, <2>2
<1>3. 0 \in S
  <2>1. Exp2[0] = 1 /\ IsPow2(1)
    BY Exp2Facts, Pow2Double
  <2>2. Layered(1, 1, 1) /\ P(1, 1, 1)
    <3> HIDE DEF P
    <3> QED  BY <1>1, <1>2, <2>1
  <2> HIDE DEF P
  <2> QED  BY <2>1, <2>2
<1>4. ASSUME NEW d \in Nat, d \in S
      PROVE  d + 1 \in S
  <2> DEFINE z == Exp2[d]
             y == 2 * z
  <2>1. z \in Nat /\ z >= 1 /\ Exp2[d + 1] = y /\ y \in Nat
    BY Exp2Facts
  <2>2. IsPow2(z)
    BY <2>1, Pow2Exp
  <2>20. IsPow2(y)
    BY <2>1, <2>2, Pow2Double
  <2>3. PICK u, w : Layered(u, w, z) /\ P(z, u, w)
    BY <1>4
  <2> HIDE DEF P
  <2>4. CASE y <= degree
    <3>1. Layered(1, y, y) /\ P(y, 1, y)
      BY <1>2, <2>1, <2>20, <2>4
    <3> QED  BY <2>1, <3>1
  <2>5. CASE ~(y <= degree)
    <3>1. u \in Nat /\ w \in Nat /\ IsPow2(u) /\ IsPow2(w) /\ z = w * u /\ (z >= 2 => w >= 2)
      BY <2>3 DEF Layered
    <3>2. w # 0
      BY <3>1, Pow2Double
    <3> DEFINE x == IF w = 1 THEN u ELSE 2 * u
               v == IF w = 1 THEN 2 ELSE w
    <3>3. Layered(x, v, y)
      <4>1. IsPow2(2) /\ IsPow2(2 * u)
        <5>1. 2 * 1 = 2
          OBVIOUS
        <5>2. IsPow2(2 * 1)
          BY Pow2Double
        <5>3. IsPow2(2 * u)
          BY <3>1, Pow2Double
        <5> QED  BY <5>1, <5>2, <5>3
      <4>2. CASE w = 1
        <5>1. y = 2 * u
          BY <3>1, <4>2
        <5> QED  BY <3>1, <4>1, <4>2, <5>1 DEF Layered
      <4>3. CASE w # 1
        <5>1. y = w * (2 * u) /\ 2 * u \in Nat
          BY <3>1
        <5> HIDE DEF y
        <5> QED  BY <3>1, <3>2, <4>1, <4>3, <5>1 DEF Layered
      <4> QED  BY <4>2, <4>3
    <3>4. ASSUME NEW g \in Nat, lo + (g + y) * ChunkLen <= hi
          PROVE  f[Span(g, y)] = Layer(k + g, x, v)
      <4> DEFINE h == g + z
      <4>1. h \in Nat /\ h = g + z /\ (g + y) * ChunkLen = (h + z) * ChunkLen
        BY <2>1
      <4>2. lo + (g + z) * ChunkLen <= hi
        <5>1. (h + z) * ChunkLen = (g + z) * ChunkLen + z * ChunkLen
          BY <2>1, Lengths
        <5>2. z * ChunkLen \in Nat /\ (g + z) * ChunkLen \in Nat
          BY <2>1, Lengths
        <5> DEFINE e == (g + z) * ChunkLen
                   e1 == z * ChunkLen
                   e2 == (g + y) * ChunkLen
        <5>3. e \in Nat /\ e1 \in Nat /\ e2 = e + e1 /\ lo + e2 <= hi
          BY <3>4, <4>1, <5>1, <5>2
        <5> HIDE DEF e, e1, e2
        <5>4. lo + e <= hi
          BY <1>1, <5>3
        <5> QED  BY <5>4 DEF e
      <4>3. f[Span(g, z)] = Layer(k + g, u, w)
        BY <2>3, <4>2 DEF P
      <4>4. lo + (h + z) * ChunkLen <= hi
        <5> HIDE DEF h, y
        <5> QED  BY <3>4, <4>1
      <4>5. f[Span(h, z)] = Layer(k + h, u, w)
        <5> HIDE DEF h
        <5> QED  BY <2>3, <4>1, <4>4 DEF P
      <4>6. y = 2 * z /\ y > degree
        BY <1>1, <2>1, <2>5
      <4> HIDE DEF y, z, h, x, v, S
      <4>7. f[Span(g, y)] = IF w = 1 THEN Layer(k + g, u, 2) ELSE Layer(k + g, 2 * u, w)
        BY <2>1, <2>2, <3>1, <4>1, <4>3, <4>5, <4>6, WideSides
      <4> QED  BY <4>7 DEF x, v
    <3>5. P(y, x, v)
      <4> HIDE DEF x, v, y
      <4> QED  BY <3>4 DEF P
    <3> HIDE DEF x, v
    <3> QED  BY <2>1, <3>3, <3>5
  <2> QED  BY <2>4, <2>5
<1>5. Nat \subseteq S
  <2> HIDE DEF S
  <2> QED  BY <1>3, <1>4, Induction
<1> QED  BY <1>5

\* A subtree of a power of two of chunks
Subtree(k, z, lo, hi) ==
  /\ k \in Nat /\ z \in Nat /\ IsPow2(z) /\ lo = k * ChunkLen /\ hi = lo + z * ChunkLen
  /\ degree \in Nat /\ degree >= 1

\* compress_subtree_wide hashes it to a layer, of two values at least if it has two
\* chunks.
LEMMA WideIs ==
  ASSUME NEW k, NEW z, NEW lo, NEW hi, Subtree(k, z, lo, hi)
  PROVE  \E u, w : Layered(u, w, z) /\ Wide(Bytes(lo, hi), k) = Layer(k, u, w)
<1>1. /\ k \in Nat /\ z \in Nat /\ IsPow2(z) /\ lo = k * ChunkLen /\ hi = lo + z * ChunkLen
      /\ degree \in Nat /\ degree >= 1
  BY DEF Subtree
<1>2. lo \in Nat /\ z * ChunkLen \in Nat /\ hi \in Nat /\ lo <= hi /\ hi - lo = z * ChunkLen
  BY <1>1, Lengths
<1> DEFINE bytes == Bytes(lo, hi)
<1>3. PICK f : /\ Wide(bytes, k) = f[<<0, Len(bytes)>>]
               /\ \A r \in Ranges : f[r] = OfRange("wide", bytes, k, f, r)
  <2> HIDE DEF bytes
  <2> QED  BY <1>1, WideEquation
<1>4. IsWide(f, lo, hi, k)
  BY <1>1, <1>2, <1>3 DEF IsWide
<1>5. Len(bytes) = z * ChunkLen
  BY <1>2, BytesList
<1> HIDE DEF bytes
<1>6. PICK d \in Nat : z = Exp2[d]
  BY <1>1, Pow2Exp
<1>7. PICK u, w : /\ Layered(u, w, Exp2[d])
                  /\ \A g \in Nat : lo + (g + Exp2[d]) * ChunkLen <= hi =>
                       f[Span(g, Exp2[d])] = Layer(k + g, u, w)
  BY <1>4, WideLayers
<1>8. 0 + z = z /\ k + 0 = k /\ 0 * ChunkLen = 0 /\ lo + z * ChunkLen <= hi
  BY <1>1, <1>2, Lengths
<1>9. f[Span(0, z)] = Layer(k, u, w)
  <2>1. lo + (0 + z) * ChunkLen <= hi => f[Span(0, z)] = Layer(k + 0, u, w)
    BY <1>6, <1>7
  <2> QED  BY <1>8, <2>1
<1>10. Span(0, z) = <<0, Len(bytes)>>
  BY <1>5, <1>8 DEF Span
<1>11. Wide(bytes, k) = Layer(k, u, w)
  BY <1>3, <1>9, <1>10
<1> QED  BY <1>6, <1>7, <1>11 DEF bytes

\* A layer of parents, unless two values are left
Up(v) == IF Len(v) > 2 THEN HashParents(v) ELSE v

\* The layers over z chunks from chunk k that have two values at least
LayerOf(v, k, z, w) ==
  /\ w \in Nat /\ IsPow2(w) /\ w >= 2
  /\ \E u \in Nat : IsPow2(u) /\ z = w * u /\ v = Layer(k, u, w)

\* The next layer is one too, and smaller unless there are two values.
LEMMA UpLayer ==
  ASSUME NEW k \in Nat, NEW z, NEW w, NEW v, LayerOf(v, k, z, w)
  PROVE  \E q : LayerOf(Up(v), k, z, q) /\ q <= w /\ (q = 2 \/ q < w)
<1>1. w \in Nat /\ IsPow2(w) /\ w >= 2
  BY DEF LayerOf
<1>2. PICK u \in Nat : IsPow2(u) /\ z = w * u /\ v = Layer(k, u, w)
  BY DEF LayerOf
<1>3. Len(v) = w
  BY <1>1, <1>2, LayerFacts
<1>4. CASE w = 2
  <2>1. Up(v) = v
    BY <1>3, <1>4 DEF Up
  <2>2. w <= w
    BY <1>1
  <2> QED  BY <1>4, <2>1, <2>2
<1>5. CASE w # 2
  <2>1. PICK q \in Nat : w = 2 * q /\ IsPow2(q)
    BY <1>1, Pow2Half
  <2>2. q >= 2 /\ q < w /\ q <= w
    BY <1>1, <1>5, <2>1
  <2> DEFINE y == 2 * u
  <2>3. Up(v) = HashParents(Layer(k, u, w))
    BY <1>1, <1>2, <1>3, <1>5 DEF Up
  <2>4. y \in Nat /\ y = 2 * u /\ IsPow2(y)
    BY <1>2, Pow2Double
  <2>5. z = q * y
    BY <1>2, <2>1
  <2> HIDE DEF y
  <2>6. HashParents(Layer(k, u, w)) = Layer(k, y, q)
    BY <1>2, <2>1, <2>4, ParentsLayer
  <2>7. LayerOf(Up(v), k, z, q)
    BY <2>1, <2>2, <2>3, <2>4, <2>5, <2>6 DEF LayerOf
  <2> QED  BY <2>2, <2>7
<1> QED  BY <1>4, <1>5

\* The function in compress_subtree_to_parent_node
Layers(g, wide, n) ==
  g = [i \in 0..n |-> IF i = 0 THEN wide
                      ELSE IF Len(g[i - 1]) > 2 THEN HashParents(g[i - 1]) ELSE g[i - 1]]

\* There is such a function.
LEMMA LayersExist ==
  ASSUME NEW wide, NEW n \in Nat
  PROVE  \E g : Layers(g, wide, n)
<1> DEFINE S == {i \in Nat : \E g : Layers(g, wide, i)}
<1>1. 0 \in S
  <2> DEFINE e == [i \in 0..0 |-> wide]
  <2>1. Layers(e, wide, 0)
    BY DEF Layers
  <2> HIDE DEF e
  <2> QED  BY <2>1
<1>2. ASSUME NEW i \in Nat, i \in S
      PROVE  i + 1 \in S
  <2>1. PICK g : Layers(g, wide, i)
    BY <1>2
  <2> DEFINE Turn(f, j) == IF j = 0 THEN wide
                           ELSE IF Len(f[j - 1]) > 2 THEN HashParents(f[j - 1]) ELSE f[j - 1]
             v == IF Len(g[i]) > 2 THEN HashParents(g[i]) ELSE g[i]
             e == [j \in 0..i + 1 |-> IF j = i + 1 THEN v ELSE g[j]]
  <2>2. \A j \in 0..i : g[j] = Turn(g, j)
    <3>1. g = [j \in 0..i |-> Turn(g, j)]
      BY <2>1 DEF Layers
    <3> HIDE DEF Turn
    <3> QED  BY <3>1
  <2>3. ASSUME NEW j \in 0..i + 1
        PROVE  e[j] = Turn(e, j)
    <3>1. CASE j = 0
      <4>1. e[j] = g[0] /\ 0 \in 0..i
        BY <3>1
      <4>2. g[0] = Turn(g, 0)
        BY <2>2
      <4> HIDE DEF e
      <4> QED  BY <3>1, <4>1, <4>2
    <3>2. CASE j # 0
      <4>1. e[j - 1] = g[j - 1] /\ j - 1 \in 0..i
        BY <3>2
      <4>2. CASE j = i + 1
        <5>1. e[j] = v /\ j - 1 = i
          BY <4>2
        <5> HIDE DEF e
        <5> QED  BY <3>2, <4>1, <5>1
      <4>3. CASE j # i + 1
        <5>1. e[j] = g[j] /\ j \in 0..i
          BY <4>3
        <5>2. g[j] = Turn(g, j)
          BY <2>2, <5>1
        <5> HIDE DEF e
        <5> QED  BY <3>2, <4>1, <5>1, <5>2
      <4> QED  BY <4>2, <4>3
    <3> QED  BY <3>1, <3>2
  <2>4. e = [j \in 0..i + 1 |-> e[j]]
    OBVIOUS
  <2>5. e = [j \in 0..i + 1 |-> Turn(e, j)]
    <3> HIDE DEF e, Turn
    <3> QED  BY <2>3, <2>4
  <2>6. Layers(e, wide, i + 1)
    <3> HIDE DEF e
    <3> QED  BY <2>5 DEF Layers
  <2> HIDE DEF e
  <2> QED  BY <2>6
<1>3. Nat \subseteq S
  <2> HIDE DEF S
  <2> QED  BY <1>1, <1>2, Induction
<1> QED  BY <1>3

\* After as many layers as there are values, two are left.
LEMMA LayersEnd ==
  ASSUME NEW k \in Nat, NEW z, NEW n \in Nat, NEW wide, LayerOf(wide, k, z, n), NEW g, Layers(g, wide, n)
  PROVE  LayerOf(g[n], k, z, 2)
<1> DEFINE Turn(f, j) == IF j = 0 THEN wide
                         ELSE IF Len(f[j - 1]) > 2 THEN HashParents(f[j - 1]) ELSE f[j - 1]
           S == {i \in Nat : i <= n => \E w : LayerOf(g[i], k, z, w) /\ (w = 2 \/ w + i <= n)}
<1>1. \A j \in 0..n : g[j] = Turn(g, j)
  <2>1. g = [j \in 0..n |-> Turn(g, j)]
    BY DEF Layers
  <2> HIDE DEF Turn
  <2> QED  BY <2>1
<1>2. 0 \in S
  <2>1. 0 \in 0..n /\ n + 0 <= n
    OBVIOUS
  <2>2. g[0] = wide
    BY <1>1, <2>1
  <2> QED  BY <2>1, <2>2
<1>3. ASSUME NEW i \in Nat, i \in S
      PROVE  i + 1 \in S
  <2> SUFFICES ASSUME i + 1 <= n
               PROVE  \E w : LayerOf(g[i + 1], k, z, w) /\ (w = 2 \/ w + (i + 1) <= n)
    OBVIOUS
  <2>1. i <= n /\ i + 1 \in 0..n /\ (i + 1) - 1 = i /\ i + 1 # 0
    OBVIOUS
  <2>2. PICK w : LayerOf(g[i], k, z, w) /\ (w = 2 \/ w + i <= n)
    BY <1>3, <2>1
  <2>3. g[i + 1] = Up(g[i])
    BY <1>1, <2>1 DEF Up
  <2>4. PICK q : LayerOf(Up(g[i]), k, z, q) /\ q <= w /\ (q = 2 \/ q < w)
    <3> HIDE DEF S, Turn
    <3> QED  BY <2>2, UpLayer
  <2>5. q \in Nat /\ w \in Nat /\ q >= 2
    BY <2>2, <2>4 DEF LayerOf
  <2>6. q = 2 \/ q + (i + 1) <= n
    BY <2>2, <2>4, <2>5
  <2> QED  BY <2>3, <2>4, <2>6
<1>4. Nat \subseteq S
  <2> HIDE DEF S
  <2> QED  BY <1>2, <1>3, Induction
<1>5. PICK w : LayerOf(g[n], k, z, w) /\ (w = 2 \/ w + n <= n)
  BY <1>4
<1>6. w \in Nat /\ w >= 2
  BY <1>5 DEF LayerOf
<1>7. w = 2
  BY <1>5, <1>6
<1> QED  BY <1>5, <1>7

\* The pair are the two halves of the subtree.
LEMMA PairIs ==
  ASSUME NEW k, NEW z, NEW lo, NEW hi, Subtree(k, z, lo, hi), NEW h \in Nat, z = 2 * h, h >= 1
  PROVE  /\ CVPair(Bytes(lo, hi), k)[1] = Node(k, k + h)
         /\ CVPair(Bytes(lo, hi), k)[2] = Node(k + h, k + z)
<1> DEFINE bytes == Bytes(lo, hi)
           wide == Wide(bytes, k)
           n == Len(wide)
           pair == CVPair(bytes, k)
           g == CHOOSE f : Layers(f, wide, n)
<1>1. k \in Nat /\ z \in Nat
  BY DEF Subtree
<1>2. PICK u, w : Layered(u, w, z) /\ wide = Layer(k, u, w)
  BY WideIs
<1>3. /\ u \in Nat /\ w \in Nat /\ IsPow2(u) /\ IsPow2(w) /\ z = w * u
      /\ w >= 2
  <2>1. u \in Nat /\ w \in Nat /\ IsPow2(u) /\ IsPow2(w) /\ z = w * u /\ (z >= 2 => w >= 2)
    BY <1>2 DEF Layered
  <2>2. z >= 2
    OBVIOUS
  <2> QED  BY <2>1, <2>2
<1>4. n = w
  BY <1>1, <1>2, <1>3, LayerFacts
<1>5. LayerOf(wide, k, z, n)
  BY <1>2, <1>3, <1>4 DEF LayerOf
<1>6. pair = g[n]
  BY DEF CVPair, Layers
<1> HIDE DEF wide, pair, bytes, n
<1>7. Layers(g, wide, n)
  <2>1. \E f : Layers(f, wide, n)
    BY <1>3, <1>4, LayersExist
  <2> QED  BY <2>1
<1> HIDE DEF g
<1>8. LayerOf(pair, k, z, 2)
  BY <1>1, <1>3, <1>4, <1>5, <1>6, <1>7, LayersEnd
<1>9. PICK v \in Nat : z = 2 * v /\ pair = Layer(k, v, 2)
  BY <1>8 DEF LayerOf
<1>10. v = h
  BY <1>9
<1>11. \A i \in 1..2 : Layer(k, h, 2)[i] = Node(k + (i - 1) * h, k + i * h)
  BY <1>1, LayerFacts
<1>12. k + (1 - 1) * h = k /\ k + 1 * h = k + h /\ k + (2 - 1) * h = k + h /\ k + 2 * h = k + z
  BY <1>1
<1>13. pair[1] = Node(k, k + h)
  <2>1. Layer(k, h, 2)[1] = Node(k + (1 - 1) * h, k + 1 * h)
    BY <1>11
  <2> QED  BY <1>9, <1>10, <1>12, <2>1
<1>14. pair[2] = Node(k + h, k + z)
  <2>1. Layer(k, h, 2)[2] = Node(k + (2 - 1) * h, k + 2 * h)
    BY <1>11
  <2> QED  BY <1>9, <1>10, <1>12, <2>1
<1> QED  BY <1>13, <1>14 DEF pair, bytes

-----------------------------------------------------------------------------
(* The fork's hasher *)

\* The place after the bytes given so far
Given == initial * ChunkLen + fed

\* The hasher has taken the bytes up to x, and the others are still to come; nothing is
\* left but the root when nothing is to come.
Takes(a, w, x) ==
  /\ Holds(a, w, x)
  /\ x <= Given /\ input = Bytes(x, Given)
  /\ at = "idle" => x = Given
  /\ at = "subtrees" => x = (initial + a) * ChunkLen
  /\ x = Given /\ x = (initial + a) * ChunkLen => Len(stack) # 1

ForkInv ==
  /\ degree \in Degrees /\ initial \in Nat
  /\ at \in {"idle", "partial", "subtrees"}
  /\ fed \in 0..MaxInput
  /\ initial # 0 => fed <= LowBit(initial) * ChunkLen
  /\ \E a, w, x : Takes(a, w, x)

\* What the invariant says of the state
LEMMA TakesFacts ==
  ASSUME initial \in Nat, fed \in Nat, NEW a, NEW w, NEW x, Takes(a, w, x),
         NEW k, k = initial + a, NEW lo, lo = k * ChunkLen
  PROVE  /\ k \in Nat /\ lo \in Nat /\ a \in Nat /\ x \in Nat /\ Given \in Nat
         /\ lo <= x /\ x <= Given /\ x <= lo + ChunkLen /\ initial * ChunkLen \in Nat
         /\ lo = initial * ChunkLen + a * ChunkLen /\ a * ChunkLen \in Nat
         /\ InChunk(k, lo, w, x) /\ chunk = Filled(k, lo, w, x)
         /\ chunk.counter = k /\ Count(chunk) = x - lo
         /\ input = Bytes(x, Given) /\ Len(input) = Given - x
         /\ input = <<>> <=> x = Given
<1>1. /\ a \in Nat /\ InChunk(k, lo, w, x) /\ x <= lo + ChunkLen
      /\ chunk = Filled(k, lo, w, x)
      /\ x <= Given /\ input = Bytes(x, Given)
  BY DEF Takes, Holds
<1>2. k \in Nat /\ lo \in Nat /\ x \in Nat /\ lo <= x
  BY <1>1 DEF InChunk
<1>3. Given \in Nat
  BY Lengths DEF Given
<1>4. chunk.counter = k /\ Count(chunk) = x - lo
  BY <1>1, CountIs
<1>5. Len(input) = Given - x /\ (input = <<>> <=> x = Given)
  BY <1>1, <1>2, <1>3, BytesList
<1>6. lo = initial * ChunkLen + a * ChunkLen /\ a * ChunkLen \in Nat /\ initial * ChunkLen \in Nat
  BY <1>1, Lengths
<1> QED  BY <1>1, <1>2, <1>3, <1>4, <1>5, <1>6

\* The hasher's type invariant, ...
LEMMA ForkInvType ==
  ForkInv => ForkTypeOK
<1> SUFFICES ASSUME ForkInv PROVE ForkTypeOK
  OBVIOUS
<1>1. /\ degree \in Degrees /\ initial \in Nat
      /\ at \in {"idle", "partial", "subtrees"}
      /\ fed \in 0..MaxInput
  BY DEF ForkInv
<1>2. MaxInput \in Nat /\ MaxDepth \in Nat /\ MaxInput <= Exp2[MaxDepth] * ChunkLen
  BY ForkAssumption
<1>3. fed \in Nat /\ fed <= MaxInput
  BY <1>1, <1>2
<1>4. PICK a, w, x : Takes(a, w, x)
  BY DEF ForkInv
<1> DEFINE k == initial + a
           lo == k * ChunkLen
<1>5. /\ k \in Nat /\ lo \in Nat /\ a \in Nat /\ x \in Nat /\ Given \in Nat
      /\ lo <= x /\ x <= Given /\ x <= lo + ChunkLen /\ initial * ChunkLen \in Nat
      /\ lo = initial * ChunkLen + a * ChunkLen /\ a * ChunkLen \in Nat
      /\ InChunk(k, lo, w, x) /\ chunk = Filled(k, lo, w, x)
      /\ chunk.counter = k /\ Count(chunk) = x - lo
      /\ input = Bytes(x, Given) /\ Len(input) = Given - x
      /\ input = <<>> <=> x = Given
  <2>1. k = initial + a /\ lo = k * ChunkLen
    OBVIOUS
  <2> HIDE DEF k, lo
  <2> QED  BY <1>1, <1>3, <1>4, <2>1, TakesFacts, SMTT(30)
<1> HIDE DEF k, lo
<1>6. Len(chunk.buf) <= BlockLen
  <2>1. w \in Nat /\ Kept(lo, w, x)
    BY <1>5 DEF InChunk
  <2>2. lo + w * BlockLen <= x /\ lo + w * BlockLen \in Nat
    BY <1>5, BlockCount
  <2>3. Len(Filled(k, lo, w, x).buf) = x - (lo + w * BlockLen)
    BY <1>5, <2>1, <2>2, FilledFacts
  <2> DEFINE b == lo + w * BlockLen
  <2>4. (x = lo /\ w = 0) \/ (b < x /\ x <= b + BlockLen)
    BY <2>1 DEF Kept
  <2>5. w = 0 => b = lo
    BY <1>5, Lengths
  <2>6. b \in Nat /\ Len(chunk.buf) = x - b
    BY <1>5, <2>2, <2>3
  <2>7. x \in Nat /\ lo \in Nat /\ BlockLen \in Nat
    BY <1>5, Lengths
  <2> HIDE DEF b
  <2>8. x - b <= BlockLen
    <3>1. CASE x = lo /\ w = 0
      BY <2>5, <2>6, <2>7, <3>1
    <3>2. CASE b < x /\ x <= b + BlockLen
      BY <2>6, <2>7, <3>2
    <3> QED  BY <2>4, <3>1, <3>2
  <2> QED  BY <2>6, <2>8
<1>7. Count(chunk) <= ChunkLen
  BY <1>5, Lengths
<1>8. Len(stack) <= MaxDepth + 1
  <2>1. Lazy(stack, initial, a)
    BY <1>4 DEF Takes, Holds
  <2>2. a <= Exp2[MaxDepth]
    <3> DEFINE e == Exp2[MaxDepth]
    <3>1. e \in Nat
      BY <1>2, Exp2Facts
    <3>2. a * ChunkLen <= e * ChunkLen /\ e * ChunkLen \in Nat
      <4>1. a * ChunkLen <= fed
        BY <1>3, <1>5, SMTT(30) DEF Given
      <4>2. e * ChunkLen \in Nat
        BY <3>1, Lengths
      <4> DEFINE y == e * ChunkLen
                 u == a * ChunkLen
      <4>3. y \in Nat /\ u \in Nat /\ MaxInput <= y /\ u <= fed
        BY <1>2, <1>5, <4>1, <4>2
      <4> HIDE DEF y, u
      <4>4. u <= y
        BY <1>2, <1>3, <4>3
      <4> QED  BY <4>2, <4>4 DEF y, u
    <3> HIDE DEF e
    <3> SUFFICES ASSUME ~(a <= e) PROVE FALSE
      BY DEF e
    <3>3. e + 1 <= a
      BY <1>5, <3>1
    <3>4. (e + 1) * ChunkLen <= a * ChunkLen
      BY <1>5, <3>1, <3>3, MulMono, Lengths
    <3>5. (e + 1) * ChunkLen = e * ChunkLen + ChunkLen
      BY <3>1, Lengths
    <3> QED  BY <1>5, <3>2, <3>4, <3>5, Lengths, SMTT(30)
  <2> QED  BY <1>2, <2>1, <2>2, LazyLen
<1>9. at = "idle" => input = <<>>
  BY <1>4, <1>5 DEF Takes
<1> QED  BY <1>1, <1>5, <1>6, <1>7, <1>8, <1>9 DEF ForkTypeOK

\* ... what it is finalized to, ...
LEMMA ForkInvFinal ==
  ForkInv => FinalIsTree
<1> SUFFICES ASSUME ForkInv PROVE FinalIsTree
  OBVIOUS
<1>1. initial \in Nat /\ fed \in Nat
  BY ForkAssumption DEF ForkInv
<1>2. PICK a, w, x : Takes(a, w, x)
  BY DEF ForkInv
<1> DEFINE k == initial + a
           lo == k * ChunkLen
<1>3. /\ k \in Nat /\ lo \in Nat /\ a \in Nat /\ x \in Nat /\ Given \in Nat
      /\ x <= Given /\ initial * ChunkLen \in Nat
      /\ lo = initial * ChunkLen + a * ChunkLen /\ a * ChunkLen \in Nat
      /\ chunk.counter = k /\ Count(chunk) = x - lo
      /\ Len(input) = Given - x
  <2>1. k = initial + a /\ lo = k * ChunkLen
    OBVIOUS
  <2> HIDE DEF k, lo
  <2> QED  BY <1>1, <1>2, <2>1, TakesFacts
<1>4. HasherCount + Len(input) = fed
  <2>1. chunk.counter - initial = a
    BY <1>1, <1>3
  <2>2. HasherCount = a * ChunkLen + (x - lo)
    BY <1>3, <2>1 DEF HasherCount
  <2> DEFINE i == initial * ChunkLen
             n == a * ChunkLen
  <2>3. /\ i \in Nat /\ n \in Nat /\ lo = i + n /\ Given = i + fed /\ x \in Nat /\ fed \in Nat
        /\ HasherCount = n + (x - lo) /\ Len(input) = Given - x /\ Given \in Nat
    BY <1>1, <1>3, <2>2 DEF Given
  <2> HIDE DEF lo, i, n
  <2> QED  BY <2>3
<1>5. ASSUME at = "idle"
      PROVE  FinalOutput = Tree[<<initial * ChunkLen, Given>>]
  <2>1. Holds(a, w, x) /\ x = Given /\ (x = (initial + a) * ChunkLen => Len(stack) # 1)
    BY <1>2, <1>5 DEF Takes
  <2>2. FinalOutput = Tree[<<initial * ChunkLen, x>>]
    BY <2>1, FinalIs
  <2> QED  BY <2>1, <2>2
<1> QED  BY <1>4, <1>5 DEF FinalIsTree, Given

\* ... and what a later chunk's hasher is.
LEMMA ForkInvNode ==
  ForkInv => OffsetIsNode
<1> SUFFICES ASSUME ForkInv, at = "idle", initial > 0, fed > 0
             PROVE  FinalOutput \in {Tree[r] : r \in Nodes[<<0, initial * ChunkLen + fed>>]}
  BY DEF OffsetIsNode
<1>1. initial \in Nat /\ fed \in Nat /\ initial # 0 /\ fed <= LowBit(initial) * ChunkLen
  BY ForkAssumption DEF ForkInv
<1> DEFINE x == initial * ChunkLen + fed
           r == <<initial * ChunkLen, x>>
<1>2. FinalOutput = Tree[r]
  BY ForkInvFinal DEF FinalIsTree
<1>3. r \in Nodes[<<0, x>>]
  <2> DEFINE p == LowBit(initial)
             y == initial * ChunkLen
             n == p * ChunkLen
  <2>1. p \in Nat
    BY <1>1, LowBitFacts
  <2> HIDE DEF p
  <2>2. y \in Nat /\ n \in Nat /\ (initial + p) * ChunkLen = y + n /\ fed <= n /\ x = y + fed
    BY <1>1, <2>1, Lengths DEF p
  <2> HIDE DEF y, n, x
  <2>3. x \in Nat /\ y < x /\ x <= y + n
    BY <1>1, <2>2
  <2>4. initial * ChunkLen < x /\ x <= (initial + p) * ChunkLen
    BY <2>2, <2>3 DEF y
  <2> QED  BY <1>1, <2>3, <2>4, OffsetNode DEF p
<1> QED  BY <1>2, <1>3

\* A new hasher holds nothing.
LEMMA ForkInvInit ==
  ForkInit => ForkInv
<1> SUFFICES ASSUME ForkInit PROVE ForkInv
  OBVIOUS
<1>1. /\ degree \in Degrees /\ initial = 0 /\ chunk = NewChunk(0) /\ stack = <<>>
      /\ input = <<>> /\ at = "idle" /\ fed = 0
  BY DEF ForkInit
<1>2. 0 * ChunkLen = 0 /\ initial + 0 = 0 /\ (initial + 0) * ChunkLen = 0
  BY <1>1, Lengths
<1>3. Given = 0
  BY <1>1, <1>2 DEF Given
<1>4. chunk = Filled(0, 0, 0, 0) /\ InChunk(0, 0, 0, 0)
  BY <1>1, <1>2, NewChunkIs
<1>5. Lazy(stack, initial, 0)
  BY <1>1 DEF Lazy
<1>6. Holds(0, 0, 0)
  BY <1>1, <1>2, <1>4, <1>5, Lengths DEF Holds
<1>7. Bytes(0, 0) = <<>>
  BY BytesList
<1>8. Len(stack) # 1
  BY <1>1
<1>9. Takes(0, 0, 0)
  BY <1>1, <1>2, <1>3, <1>6, <1>7, <1>8 DEF Takes
<1>10. fed \in 0..MaxInput
  BY <1>1, ForkAssumption
<1> QED  BY <1>1, <1>9, <1>10 DEF ForkInv

\* What the hasher holds changes with the stack and the chunk only.
LEMMA HoldsSame ==
  ASSUME NEW a, NEW w, NEW x, Holds(a, w, x), UNCHANGED <<initial, chunk, stack>>
  PROVE  Holds(a, w, x)'
<1>1. initial' = initial /\ chunk' = chunk /\ stack' = stack
  OBVIOUS
<1> QED  BY <1>1 DEF Holds

\* update is given the bytes that come next.
LEMMA UpdateKeeps ==
  ASSUME ForkInv, NEW n \in Nat, fed + n <= MaxInput, NEW z \in Nat, z = Given + n,
         Update(Bytes(Given, z))
  PROVE  ForkInv'
<1>1. /\ degree \in Degrees /\ initial \in Nat /\ fed \in Nat
  BY ForkAssumption DEF ForkInv
<1>2. PICK a, w, x : Takes(a, w, x)
  BY DEF ForkInv
<1>3. Given \in Nat /\ initial * ChunkLen \in Nat
  BY <1>1, Lengths DEF Given
<1>4. IsList(Bytes(Given, z), n) /\ Len(Bytes(Given, z)) = n
  BY <1>3, BytesList
<1>5. /\ at = "idle" /\ at' = "partial" /\ input' = Bytes(Given, z)
      /\ fed' = fed + n
      /\ degree' = degree /\ initial' = initial /\ chunk' = chunk /\ stack' = stack
  BY <1>4 DEF Update
<1>6. /\ Holds(a, w, x) /\ x = Given
      /\ x = (initial + a) * ChunkLen => Len(stack) # 1
  BY <1>2, <1>5 DEF Takes
<1>7. Holds(a, w, x)'
  BY <1>5, <1>6, HoldsSame
<1>8. Given' = z
  <2> DEFINE i == initial * ChunkLen
  <2>1. Given' = i + (fed + n) /\ Given = i + fed
    BY <1>5 DEF Given
  <2> HIDE DEF i
  <2> QED  BY <1>1, <1>3, <2>1 DEF i
<1>9. Takes(a, w, x)'
  <2>1. x <= z
    BY <1>3, <1>6
  <2>2. x <= Given' /\ input' = Bytes(x, Given')
    BY <1>5, <1>6, <1>8, <2>1
  <2> QED  BY <1>5, <1>6, <1>7, <2>2 DEF Takes
<1>10. ASSUME initial' # 0
       PROVE  fed' <= LowBit(initial') * ChunkLen
  <2>1. initial > 0
    BY <1>1, <1>5, <1>10
  <2>2. HasherCount + n <= MaxSubtreeLen
    BY <1>4, <2>1 DEF Update
  <2>3. HasherCount + Len(input) = fed
    BY ForkInvFinal DEF FinalIsTree
  <2>4. Len(input) = 0
    <3>1. input = Bytes(x, Given)
      BY <1>2 DEF Takes
    <3>2. Bytes(Given, Given) = <<>>
      BY <1>3, BytesList
    <3> QED  BY <1>6, <3>1, <3>2
  <2>5. HasherCount = fed
    <3>1. PICK k, lo : k = initial + a /\ lo = k * ChunkLen
      OBVIOUS
    <3>2. k \in Nat /\ lo \in Nat /\ a \in Nat /\ x \in Nat /\ lo <= x /\ chunk.counter = k /\ Count(chunk) = x - lo
          /\ a * ChunkLen \in Nat
      BY <1>1, <1>2, <3>1, TakesFacts
    <3>3. chunk.counter - initial = a
      BY <1>1, <3>1, <3>2
    <3>4. HasherCount = a * ChunkLen + (x - lo)
      BY <3>2, <3>3 DEF HasherCount
    <3> DEFINE u == a * ChunkLen
    <3>5. HasherCount = u + (x - lo) /\ u \in Nat
      BY <3>2, <3>4
    <3> HIDE DEF u
    <3>6. HasherCount \in Int
      BY <3>2, <3>5
    <3> QED  BY <1>1, <2>3, <2>4, <3>6
  <2>6. MaxSubtreeLen = LowBit(initial) * ChunkLen
    BY DEF MaxSubtreeLen, LowBit
  <2> QED  BY <1>5, <2>2, <2>5, <2>6
<1>11. fed' \in 0..MaxInput
  BY <1>1, <1>5, ForkAssumption
<1> QED  BY <1>1, <1>5, <1>9, <1>10, <1>11 DEF ForkInv

\* The steps of update leave what was given as it is.
LEMMA GivenSame ==
  ASSUME ForkInv, UNCHANGED <<degree, initial, fed>>,
         at' \in {"idle", "partial", "subtrees"},
         NEW a, NEW w, NEW x, Takes(a, w, x)'
  PROVE  ForkInv'
<1>1. degree' = degree /\ initial' = initial /\ fed' = fed
  OBVIOUS
<1> QED  BY <1>1 DEF ForkInv

\* A whole chunk is a subtree.
LEMMA ChunkIsNode ==
  ASSUME NEW k \in Nat, NEW j, j = k + 1, NEW lo, lo = k * ChunkLen, NEW hi, hi = lo + ChunkLen
  PROVE  ChunkOf(lo, hi) = Node(k, j) /\ lo \in Nat /\ hi \in Nat /\ j * ChunkLen = hi
<1>1. lo \in Nat /\ hi \in Nat /\ j * ChunkLen = hi
  BY Lengths
<1>2. Tree[<<lo, hi>>] = ChunkOf(lo, hi)
  BY <1>1, TreeLeaf, Lengths
<1> QED  BY <1>1, <1>2 DEF Node

\* What FinishChunk takes
LEMMA TakenFacts ==
  ASSUME NEW lo \in Nat, NEW x \in Nat, NEW e \in Nat, lo < x, x <= lo + ChunkLen, x <= e,
         NEW n, n = Min2(ChunkLen - (x - lo), e - x), NEW y, y = x + n
  PROVE  /\ n \in Nat /\ y \in Nat /\ x <= y /\ y <= e /\ y <= lo + ChunkLen /\ lo < y
         /\ y # e => y = lo + ChunkLen /\ y < e
BY Lengths DEF Min2

\* Finishing a partial chunk
LEMMA FinishKeeps ==
  ASSUME ForkInv, FinishChunk
  PROVE  ForkInv'
<1>1. /\ degree \in Degrees /\ initial \in Nat /\ fed \in Nat
  BY ForkAssumption DEF ForkInv
<1>2. PICK a, w, x : Takes(a, w, x)
  BY DEF ForkInv
<1>3. PICK k, lo : k = initial + a /\ lo = k * ChunkLen
  OBVIOUS
<1>4. /\ k \in Nat /\ lo \in Nat /\ a \in Nat /\ x \in Nat /\ Given \in Nat
      /\ lo <= x /\ x <= Given /\ x <= lo + ChunkLen
      /\ InChunk(k, lo, w, x) /\ chunk = Filled(k, lo, w, x)
      /\ chunk.counter = k /\ Count(chunk) = x - lo
      /\ input = Bytes(x, Given) /\ Len(input) = Given - x
  BY <1>1, <1>2, <1>3, TakesFacts
<1>5. /\ degree' = degree /\ initial' = initial /\ fed' = fed /\ Given' = Given
      /\ at = "partial" /\ Count(chunk) > 0
  BY DEF FinishChunk, Given
<1>6. lo < x
  BY <1>4, <1>5
<1>7. PICK n, y : n = Min2(ChunkLen - (x - lo), Given - x) /\ y = x + n
  OBVIOUS
<1>8. /\ n \in Nat /\ y \in Nat /\ x <= y /\ y <= Given /\ y <= lo + ChunkLen /\ lo < y
      /\ y # Given => y = lo + ChunkLen /\ y < Given
  BY <1>4, <1>6, <1>7, TakenFacts, SMTT(30)
<1>9. n = Min2(ChunkLen - Count(chunk), Len(input))
  BY <1>4, <1>7
<1>10. Take(input, n) = Bytes(x, y) /\ Drop(input, n) = Bytes(y, Given)
  BY <1>4, <1>7, <1>8, BytesTake
<1>11. PICK v : InChunk(k, lo, v, y) /\ ChunkUpdate(chunk, Bytes(x, y)) = Filled(k, lo, v, y)
  BY <1>4, <1>8, ChunkGrows
<1>12. Bytes(y, Given) = <<>> <=> y = Given
  BY <1>4, <1>8, BytesList
<1>13. input' = Bytes(y, Given)
  BY <1>9, <1>10 DEF FinishChunk
<1>14. Lazy(stack, initial, a) /\ stack = Peaks(initial, a)
  BY <1>2, <1>3, <1>6 DEF Takes, Holds
<1>15. CASE y = Given
  <2>1. /\ chunk' = Filled(k, lo, v, y) /\ at' = "idle" /\ stack' = stack
    BY <1>9, <1>10, <1>11, <1>12, <1>13, <1>15 DEF FinishChunk
  <2>2. Holds(a, v, y)'
    BY <1>1, <1>3, <1>4, <1>5, <1>8, <1>11, <1>14, <2>1 DEF Holds
  <2>3. y # (initial' + a) * ChunkLen
    BY <1>3, <1>4, <1>5, <1>8
  <2>4. Takes(a, v, y)'
    BY <1>4, <1>5, <1>8, <1>13, <1>15, <2>1, <2>2, <2>3 DEF Takes
  <2> QED  BY <1>5, <2>1, <2>4, GivenSame
<1>16. CASE y # Given
  <2>1. y = lo + ChunkLen /\ y < Given
    BY <1>8, <1>16
  <2>2. /\ chunk' = NewChunk(k + 1) /\ at' = "subtrees"
        /\ stack' = PushCV(stack, ChunkOutput(Filled(k, lo, v, y)), k)
    BY <1>4, <1>9, <1>10, <1>11, <1>12, <1>13, <1>16 DEF FinishChunk
  <2>3. PICK j, b : j = k + 1 /\ b = a + 1
    OBVIOUS
  <2>4. j \in Nat /\ b \in Nat /\ j = initial + b
    BY <1>1, <1>3, <1>4, <2>3
  <2>5. ChunkOf(lo, y) = Node(k, j) /\ j * ChunkLen = y
    BY <1>3, <1>4, <2>1, <2>3, ChunkIsNode
  <2>6. ChunkOutput(Filled(k, lo, v, y)) = Node(initial + a, initial + b)
    BY <1>3, <1>11, <2>4, <2>5, ChunkOutputIs
  <2>7. Next(1, a, a, b)
    BY <1>4, <2>3, <2>4, Pow2Double DEF Next
  <2>8. Lazy(PushCV(stack, Node(initial + a, initial + b), initial + a), initial, b)
    BY <1>14, <2>7, PushIs
  <2>9. Lazy(stack', initial, b)
    BY <1>3, <2>2, <2>6, <2>8
  <2>10. chunk' = Filled(j, y, 0, y) /\ InChunk(j, y, 0, y)
    BY <1>8, <2>2, <2>3, <2>4, <2>5, NewChunkIs
  <2>11. y <= y + ChunkLen
    BY <1>8, Lengths
  <2>12. Holds(b, 0, y)'
    <3>1. initial' + b = j /\ (initial' + b) * ChunkLen = y
      BY <1>5, <2>4, <2>5
    <3>2. InChunk(initial' + b, y, 0, y) /\ chunk' = Filled(initial' + b, y, 0, y)
      BY <2>10, <3>1
    <3>3. Lazy(stack', initial', b) /\ ~(y > y)
      BY <1>5, <1>8, <2>9
    <3>4. initial' \in Nat
      BY <1>1, <1>5
    <3> HIDE DEF Lazy, InChunk, Filled
    <3> QED  BY <2>4, <2>11, <3>1, <3>2, <3>3, <3>4 DEF Holds
  <2>13. Takes(b, 0, y)'
    BY <1>5, <1>8, <1>13, <1>16, <2>2, <2>4, <2>5, <2>12 DEF Takes
  <2> QED  BY <1>5, <2>2, <2>13, GivenSame
<1> QED  BY <1>15, <1>16

\* No partial chunk to finish
LEMMA NoPartialKeeps ==
  ASSUME ForkInv, NoPartialChunk
  PROVE  ForkInv'
<1>1. /\ degree \in Degrees /\ initial \in Nat /\ fed \in Nat
  BY ForkAssumption DEF ForkInv
<1>2. PICK a, w, x : Takes(a, w, x)
  BY DEF ForkInv
<1>3. PICK k, lo : k = initial + a /\ lo = k * ChunkLen
  OBVIOUS
<1>4. /\ lo \in Nat /\ x \in Nat /\ Count(chunk) = x - lo
  BY <1>1, <1>2, <1>3, TakesFacts
<1>5. /\ degree' = degree /\ initial' = initial /\ fed' = fed /\ Given' = Given
      /\ Count(chunk) = 0 /\ at' = "subtrees"
      /\ input' = input /\ chunk' = chunk /\ stack' = stack
  BY DEF NoPartialChunk, Given
<1>6. x = (initial + a) * ChunkLen
  BY <1>3, <1>4, <1>5
<1>7. Holds(a, w, x)'
  BY <1>2, <1>5, HoldsSame DEF Takes
<1>8. Takes(a, w, x)'
  BY <1>2, <1>5, <1>6, <1>7 DEF Takes
<1> QED  BY <1>5, <1>8, GivenSame

\* What divides a multiple divides the multiple's multiples and their differences.
LEMMA DivRest ==
  ASSUME NEW z \in Nat, z >= 1, NEW p \in Nat, NEW r \in Nat, p = z * r, NEW i \in Nat,
         NEW q \in Nat, i = p * q, NEW a \in Nat, NEW k, k = i + a, Div(z, k)
  PROVE  Div(z, a)
<1>1. PICK m \in Nat : k = z * m
  BY DEF Div
<1>2. PICK u \in Nat : u = r * q
  OBVIOUS
<1>3. i = z * u
  <2>1. (z * r) * q = z * (r * q)
    OBVIOUS
  <2> QED  BY <1>2, <2>1
<1>4. a = z * m - z * u /\ z * m - z * u = z * (m - u)
  <2>1. a = k - i
    OBVIOUS
  <2>2. z * m - z * u = z * (m - u)
    BY <1>1, <1>2
  <2> QED  BY <1>1, <1>3, <2>1, <2>2
<1>5. m - u >= 0
  <2> SUFFICES ASSUME m - u < 0 PROVE FALSE
    BY <1>1, <1>2
  <2>1. u >= m + 1
    BY <1>1, <1>2
  <2>2. (m + 1) * z <= u * z
    BY <1>1, <1>2, <2>1, MulMono
  <2>3. z * m + z <= z * u
    BY <1>1, <1>2, <2>2
  <2> DEFINE y == z * m
             v == z * u
  <2>4. y \in Int /\ v \in Int /\ y + z <= v /\ a = y - v
    BY <1>1, <1>2, <1>4, <2>3
  <2> HIDE DEF y, v
  <2> QED  BY <2>4
<1>6. m - u \in Nat /\ a = z * (m - u)
  BY <1>1, <1>2, <1>4, <1>5
<1> QED  BY <1>6 DEF Div

\* A subtree that divides the chunks before it divides those since the start: the start
\* is at a multiple of its size, since update would not take as much otherwise.
LEMMA DivSince ==
  ASSUME NEW i \in Nat, NEW a \in Nat, NEW k, k = i + a, NEW z \in Nat, IsPow2(z), z >= 1, Div(z, k),
         i # 0 => z <= LowBit(i)
  PROVE  Div(z, a)
<1>1. CASE i = 0
  BY <1>1
<1>2. CASE i # 0
  <2>1. LowBit(i) \in Nat /\ IsPow2(LowBit(i)) /\ z <= LowBit(i)
    BY <1>2, LowBitFacts
  <2>2. PICK c \in Nat : i = LowBit(i) * (2 * c + 1)
    BY <1>2, LowBitFacts
  <2> DEFINE p == LowBit(i)
  <2>3. p \in Nat /\ IsPow2(p) /\ z <= p /\ i = p * (2 * c + 1)
    BY <2>1, <2>2
  <2> HIDE DEF p
  <2>4. PICK r \in Nat : p = z * r
    BY <2>3, Pow2Ratio
  <2>5. PICK q \in Nat : q = 2 * c + 1
    OBVIOUS
  <2>6. q \in Nat /\ i = p * q
    BY <2>3, <2>5
  <2> HIDE DEF Div
  <2> QED  BY <2>3, <2>4, <2>6, DivRest
<1> QED  BY <1>1, <1>2

\* The chunks since the start are then the next multiples of it and of its half.
LEMMA Turns ==
  ASSUME NEW a \in Nat, NEW z \in Nat, IsPow2(z), Div(z, a), NEW b, b = a + z
  PROVE  /\ \E m : Next(z, m, a, b)
         /\ \A h \in Nat : IsPow2(h) /\ z = 2 * h =>
              \E m : Next(h, m, a, a + h) /\ Next(h, m + 1, a + h, b)
<1>1. PICK q \in Nat : a = z * q
  BY DEF Div
<1>2. b \in Nat
  OBVIOUS
<1>3. Next(z, q, a, b)
  BY <1>1, <1>2 DEF Next
<1>4. ASSUME NEW h \in Nat, IsPow2(h), z = 2 * h
      PROVE  \E m : Next(h, m, a, a + h) /\ Next(h, m + 1, a + h, b)
  <2>1. PICK m : m = 2 * q
    OBVIOUS
  <2>2. m \in Nat /\ m + 1 \in Nat
    BY <2>1
  <2>3. a = h * m
    <3>1. (2 * h) * q = h * (2 * q)
      OBVIOUS
    <3> QED  BY <1>1, <1>4, <2>1, <3>1
  <2>4. a + h = h * (m + 1)
    BY <2>2, <2>3
  <2>5. a + h \in Nat /\ b = (a + h) + h
    BY <1>4
  <2> QED  BY <1>2, <1>4, <2>2, <2>3, <2>4, <2>5 DEF Next
<1> QED  BY <1>3, <1>4

\* A chunk without bytes has no blocks.
LEMMA NoBlocks ==
  ASSUME NEW k, NEW lo, NEW w, InChunk(k, lo, w, lo)
  PROVE  w = 0
<1>1. lo \in Nat /\ w \in Nat /\ ((lo = lo /\ w = 0) \/ lo + w * BlockLen < lo)
  BY DEF InChunk, Kept
<1>2. w * BlockLen \in Nat
  BY <1>1, Lengths
<1> DEFINE y == w * BlockLen
<1>3. y \in Nat /\ (w = 0 \/ lo + y < lo)
  BY <1>1, <1>2
<1> HIDE DEF y
<1> QED  BY <1>1, <1>3

\* Two values pushed are not one.
LEMMA TwoPushed ==
  ASSUME NEW s, NEW a, Lazy(s, initial, a), a # 0, NEW v
  PROVE  Len(PushCV(s, v, initial + a)) # 1
<1>1. MergeStack(s, initial + a) = Peaks(initial, a)
  BY MergeStackIs
<1>2. initial \in Nat /\ a \in Nat
  BY DEF Lazy
<1>3. IsList(Peaks(initial, a), Ones[a]) /\ Ones[a] \in Nat
  BY <1>2, PeaksList
<1>4. Ones[a] # 0
  BY <1>2, OnesZero
<1>5. Len(Push(Peaks(initial, a), v)) = Ones[a] + 1
  BY <1>3, PushFacts
<1>6. PushCV(s, v, initial + a) = Push(Peaks(initial, a), v)
  BY <1>1 DEF PushCV, Push
<1>7. Len(PushCV(s, v, initial + a)) = Ones[a] + 1
  BY <1>5, <1>6
<1> DEFINE l == Len(PushCV(s, v, initial + a))
<1>8. l = Ones[a] + 1
  BY <1>7
<1> HIDE DEF l
<1>9. l # 1
  BY <1>3, <1>4, <1>8
<1> QED  BY <1>9 DEF l

\* Hashing a subtree at once
LEMMA SubtreeKeeps ==
  ASSUME ForkInv, HashSubtree
  PROVE  ForkInv'
<1>1. /\ degree \in Degrees /\ initial \in Nat /\ fed \in Nat
      /\ initial # 0 => fed <= LowBit(initial) * ChunkLen
  BY ForkAssumption DEF ForkInv
<1>2. PICK a, w, x : Takes(a, w, x)
  BY DEF ForkInv
<1>3. PICK k, lo : k = initial + a /\ lo = k * ChunkLen
  OBVIOUS
<1>4. /\ k \in Nat /\ lo \in Nat /\ a \in Nat /\ x \in Nat /\ Given \in Nat
      /\ x <= Given /\ initial * ChunkLen \in Nat /\ a * ChunkLen \in Nat
      /\ lo = initial * ChunkLen + a * ChunkLen
      /\ InChunk(k, lo, w, x) /\ chunk = Filled(k, lo, w, x)
      /\ chunk.counter = k
      /\ input = Bytes(x, Given) /\ Len(input) = Given - x
  BY <1>1, <1>2, <1>3, TakesFacts
<1>5. /\ degree' = degree /\ initial' = initial /\ fed' = fed /\ Given' = Given
      /\ at = "subtrees" /\ at' = at /\ Len(input) > ChunkLen
  BY DEF HashSubtree, Given
<1>6. x = lo /\ Lazy(stack, initial, a)
  BY <1>2, <1>3, <1>5 DEF Takes, Holds
<1>7. w = 0
  BY <1>4, <1>6, NoBlocks
<1>8. PICK z \in Nat : /\ IsPow2(z) /\ z >= 1 /\ Div(z, k)
                       /\ SubtreeLen = z * ChunkLen /\ SubtreeLen \div ChunkLen = z
                       /\ z * ChunkLen <= Given - x
  <2>1. Given - x \in Nat
    BY <1>4
  <2> QED  BY <1>4, <1>5, <2>1, SubtreeLenIs
<1>9. PICK n, y : n = z * ChunkLen /\ y = lo + n
  OBVIOUS
<1>10. n \in Nat /\ y \in Nat /\ y <= Given /\ lo <= y
  <2>1. n \in Nat
    BY <1>8, <1>9, Lengths
  <2>2. n <= Given - lo
    BY <1>6, <1>8, <1>9
  <2>3. lo \in Nat /\ Given \in Nat /\ y = lo + n
    BY <1>4, <1>9
  <2> QED  BY <2>1, <2>2, <2>3
<1>11. Take(input, n) = Bytes(lo, y) /\ Drop(input, n) = Bytes(y, Given)
  <2>1. lo \in Nat /\ Given \in Nat /\ y = lo + n /\ input = Bytes(lo, Given)
    BY <1>4, <1>6, <1>9
  <2> QED  BY <1>10, <2>1, BytesTake
<1>12. initial # 0 => z <= LowBit(initial)
  <2> SUFFICES ASSUME initial # 0, ~(z <= LowBit(initial)) PROVE FALSE
    OBVIOUS
  <2> DEFINE p == LowBit(initial)
             i == initial * ChunkLen
             c == a * ChunkLen
             e == p * ChunkLen
  <2>1. p \in Nat /\ fed <= e
    BY <1>1, LowBitFacts
  <2>2. ~(z <= p) /\ Given = i + fed /\ lo = i + c /\ i \in Nat /\ c \in Nat
    BY <1>4 DEF Given
  <2> HIDE DEF p, i, c
  <2>3. p + 1 <= z
    BY <1>8, <2>1, <2>2
  <2>4. (p + 1) * ChunkLen <= z * ChunkLen
    BY <1>8, <2>1, <2>3, MulMono, Lengths
  <2>5. (p + 1) * ChunkLen = e + ChunkLen /\ e \in Nat
    BY <2>1, Lengths
  <2> HIDE DEF e
  <2>6. e + ChunkLen <= n
    BY <1>9, <2>4, <2>5
  <2>7. n <= Given - lo
    BY <1>6, <1>8, <1>9
  <2> QED  BY <1>1, <1>10, <2>1, <2>2, <2>5, <2>6, <2>7, Lengths
<1>13. Div(z, a)
  BY <1>1, <1>3, <1>4, <1>8, <1>12, DivSince
<1>14. PICK j, b : j = k + z /\ b = a + z
  OBVIOUS
<1>15. /\ j \in Nat /\ b \in Nat /\ j = initial + b /\ j * ChunkLen = y
  <2>1. (k + z) * ChunkLen = k * ChunkLen + z * ChunkLen
    BY <1>4, <1>8, Lengths
  <2> QED  BY <1>1, <1>3, <1>4, <1>8, <1>9, <1>14, <2>1
<1>16. chunk' = Filled(j, y, 0, y) /\ InChunk(j, y, 0, y)
  <2>1. chunk' = [chunk EXCEPT !.counter = @ + SubtreeLen \div ChunkLen]
    BY DEF HashSubtree
  <2>2. chunk' = [chunk EXCEPT !.counter = j]
    BY <1>4, <1>8, <1>14, <2>1
  <2>3. NewChunk(k) = Filled(k, lo, 0, lo)
    BY <1>3, <1>4, NewChunkIs
  <2>4. chunk = [counter |-> k, done |-> <<>>, buf |-> <<>>]
    BY <1>4, <1>6, <1>7, <2>3 DEF NewChunk
  <2>5. chunk' = [counter |-> j, done |-> <<>>, buf |-> <<>>]
    BY <2>2, <2>4, NewCounter
  <2>6. chunk' = NewChunk(j)
    BY <2>5 DEF NewChunk
  <2> QED  BY <1>10, <1>15, <2>6, NewChunkIs
<1>17. input' = Bytes(y, Given)
  BY <1>8, <1>9, <1>11 DEF HashSubtree
<1>18. Lazy(stack', initial, b) /\ (y = Given => Len(stack') # 1)
  <2>1. CASE z = 1
    <3>1. stack' = PushCV(stack, ChunkOutput(ChunkUpdate(NewChunk(k), Bytes(lo, y))), k)
      BY <1>4, <1>8, <1>9, <1>11, <2>1 DEF HashSubtree
    <3>2. n = ChunkLen /\ j = k + 1
      BY <1>9, <1>14, <2>1, Lengths
    <3>3. ChunkOutput(ChunkUpdate(NewChunk(k), Bytes(lo, y))) = ChunkOf(lo, y)
      BY <1>3, <1>4, <1>10, WholeChunk
    <3>4. ChunkOf(lo, y) = Node(k, j)
      <4>1. k \in Nat /\ lo = k * ChunkLen /\ y = lo + ChunkLen
        BY <1>3, <1>4, <1>9, <3>2
      <4> QED  BY <3>2, <4>1, ChunkIsNode
    <3>5. stack' = PushCV(stack, Node(initial + a, initial + b), initial + a)
      BY <1>3, <1>15, <3>1, <3>3, <3>4
    <3>6. PICK m : Next(z, m, a, b)
      BY <1>4, <1>8, <1>13, <1>14, Turns
    <3>7. Lazy(PushCV(stack, Node(initial + a, initial + b), initial + a), initial, b)
      BY <1>6, <3>6, PushIs
    <3>8. y # Given
      <4>1. lo \in Nat /\ Given \in Nat /\ Given - lo > ChunkLen /\ y = lo + ChunkLen
        BY <1>4, <1>5, <1>6, <1>9, <3>2
      <4> QED  BY <4>1, Lengths
    <3> QED  BY <3>5, <3>7, <3>8
  <2>2. CASE z # 1
    <3>1. PICK h \in Nat : z = 2 * h /\ IsPow2(h)
      BY <1>8, <2>2, Pow2Half
    <3>2. h >= 1 /\ z \div 2 = h
      BY <1>8, <3>1
    <3>3. stack' = PushCV(PushCV(stack, CVPair(Bytes(lo, y), k)[1], k),
                          CVPair(Bytes(lo, y), k)[2], k + h)
      BY <1>4, <1>8, <1>9, <1>11, <2>2, <3>2 DEF HashSubtree
    <3>4. Subtree(k, z, lo, y)
      <4>1. degree \in Nat /\ degree >= 1
        <5>1. degree \in Nat /\ IsPow2(degree)
          BY <1>1, ForkAssumption
        <5>2. degree # 0
          BY <5>1, Pow2Double
        <5> QED  BY <5>1, <5>2
      <4> QED  BY <1>3, <1>4, <1>8, <1>9, <4>1 DEF Subtree
    <3>5. CVPair(Bytes(lo, y), k)[1] = Node(k, k + h)
      BY <3>1, <3>2, <3>4, PairIs
    <3>6. CVPair(Bytes(lo, y), k)[2] = Node(k + h, k + z)
      BY <3>1, <3>2, <3>4, PairIs
    <3>7. PICK c : c = a + h
      OBVIOUS
    <3>8. c \in Nat /\ k + h = initial + c /\ c # 0
      BY <1>1, <1>3, <1>4, <3>1, <3>2, <3>7
    <3>9. PICK m : Next(h, m, a, c) /\ Next(h, m + 1, c, b)
      BY <1>4, <1>8, <1>13, <1>14, <3>1, <3>7, Turns
    <3>10. PICK s : s = PushCV(stack, Node(initial + a, initial + c), initial + a)
      OBVIOUS
    <3>11. Lazy(s, initial, c)
      BY <1>6, <3>9, <3>10, PushIs
    <3>12. Lazy(PushCV(s, Node(initial + c, initial + b), initial + c), initial, b)
      BY <3>9, <3>11, PushIs
    <3>13. stack' = PushCV(s, Node(initial + c, initial + b), initial + c)
      BY <1>3, <1>14, <1>15, <3>3, <3>5, <3>6, <3>8, <3>10
    <3>14. Len(PushCV(s, Node(initial + c, initial + b), initial + c)) # 1
      BY <3>8, <3>11, TwoPushed
    <3> QED  BY <3>12, <3>13, <3>14
  <2> QED  BY <2>1, <2>2
<1>19. Holds(b, 0, y)'
  <2>1. initial' + b = j /\ (initial' + b) * ChunkLen = y
    BY <1>5, <1>15
  <2>2. InChunk(initial' + b, y, 0, y) /\ chunk' = Filled(initial' + b, y, 0, y)
    BY <1>16, <2>1
  <2>3. Lazy(stack', initial', b) /\ ~(y > y) /\ y <= y + ChunkLen
    BY <1>5, <1>10, <1>18, Lengths
  <2>4. initial' \in Nat
    BY <1>1, <1>5
  <2> HIDE DEF Lazy, InChunk, Filled
  <2> QED  BY <1>15, <2>1, <2>2, <2>3, <2>4 DEF Holds
<1>20. Takes(b, 0, y)'
  <2>1. y = (initial' + b) * ChunkLen
    BY <1>5, <1>15
  <2>2. at' # "idle"
    BY <1>5
  <2> QED  BY <1>5, <1>10, <1>17, <1>18, <1>19, <2>1, <2>2 DEF Takes
<1> QED  BY <1>5, <1>20, GivenSame

\* Keeping what is a chunk or less
LEMMA RestKeeps ==
  ASSUME ForkInv, KeepRest
  PROVE  ForkInv'
<1>1. /\ degree \in Degrees /\ initial \in Nat /\ fed \in Nat
  BY ForkAssumption DEF ForkInv
<1>2. PICK a, w, x : Takes(a, w, x)
  BY DEF ForkInv
<1>3. PICK k, lo : k = initial + a /\ lo = k * ChunkLen
  OBVIOUS
<1>4. /\ k \in Nat /\ lo \in Nat /\ a \in Nat /\ Given \in Nat
      /\ x <= Given
      /\ InChunk(k, lo, w, x) /\ chunk = Filled(k, lo, w, x)
      /\ chunk.counter = k
      /\ input = Bytes(x, Given) /\ Len(input) = Given - x
      /\ input = <<>> <=> x = Given
  BY <1>1, <1>2, <1>3, TakesFacts
<1>5. /\ degree' = degree /\ initial' = initial /\ fed' = fed /\ Given' = Given
      /\ at = "subtrees" /\ at' = "idle" /\ Len(input) <= ChunkLen
      /\ input' = <<>> /\ chunk' = ChunkUpdate(chunk, input)
      /\ stack' = IF input = <<>> THEN stack ELSE MergeStack(stack, chunk.counter)
  BY DEF KeepRest, Given
<1>6. x = lo /\ Lazy(stack, initial, a)
  BY <1>2, <1>3, <1>5 DEF Takes, Holds
<1>7. Given <= lo + ChunkLen /\ lo <= Given
  <2>1. lo \in Nat /\ Given \in Nat /\ lo <= Given /\ Given - lo <= ChunkLen
    BY <1>4, <1>5, <1>6
  <2> QED  BY <2>1, Lengths
<1>8. PICK v : InChunk(k, lo, v, Given) /\ ChunkUpdate(chunk, input) = Filled(k, lo, v, Given)
  BY <1>4, <1>6, <1>7, ChunkGrows
<1>9. /\ Lazy(stack', initial, a)
      /\ Given > lo => stack' = Peaks(initial, a)
      /\ Given = lo => stack' = stack
  <2>1. MergeStack(stack, initial + a) = Peaks(initial, a)
    BY <1>6, MergeStackIs
  <2>2. Lazy(Peaks(initial, a), initial, a)
    BY <1>1, <1>4, PeaksLazy
  <2>3. input = <<>> <=> Given = lo
    BY <1>4, <1>6
  <2>4. CASE input = <<>>
    <3>1. stack' = stack
      BY <1>5, <2>4
    <3>2. ~(Given > lo)
      BY <1>4, <2>3, <2>4
    <3> QED  BY <1>6, <3>1, <3>2
  <2>5. CASE input # <<>>
    BY <1>3, <1>4, <1>5, <2>1, <2>2, <2>3, <2>5
  <2> QED  BY <2>4, <2>5
<1>10. Holds(a, v, Given)'
  <2>1. initial' + a = k /\ (initial' + a) * ChunkLen = lo /\ initial' \in Nat
    BY <1>1, <1>3, <1>5
  <2>2. InChunk(k, lo, v, Given') /\ chunk' = Filled(k, lo, v, Given') /\ Given' <= lo + ChunkLen
    BY <1>5, <1>7, <1>8
  <2>3. Lazy(stack', initial', a) /\ (Given' > lo => stack' = Peaks(initial', a))
    BY <1>5, <1>9
  <2> HIDE DEF Lazy, InChunk, Filled, Peaks, Given
  <2> QED  BY <1>4, <2>1, <2>2, <2>3 DEF Holds
<1>11. Takes(a, v, Given)'
  <2>1. Given' <= Given' /\ input' = Bytes(Given', Given')
    BY <1>4, <1>5, BytesList
  <2>2. Given = (initial' + a) * ChunkLen => Len(stack') # 1
    BY <1>2, <1>3, <1>5, <1>6, <1>9 DEF Takes
  <2> QED  BY <1>5, <1>10, <2>1, <2>2 DEF Takes
<1> QED  BY <1>5, <1>11, GivenSame

\* A reset hasher is a new one.
LEMMA ResetKeeps ==
  ASSUME ForkInv, Reset
  PROVE  ForkInv'
<1>1. at = "idle" => input = <<>>
  BY ForkInvType DEF ForkTypeOK
<1>2. ForkInit'
  BY <1>1 DEF Reset, ForkInit, ForkInv
<1>3. ForkInit' => ForkInv'
  BY ForkInvInit, PTL
<1> QED  BY <1>2, <1>3

\* An offset is set before anything is given.
LEMMA OffsetKeeps ==
  ASSUME ForkInv, NEW counter \in Offsets, SetInputOffset(counter)
  PROVE  ForkInv'
<1>1. /\ degree \in Degrees /\ initial \in Nat /\ fed \in Nat /\ fed \in 0..MaxInput
  BY ForkAssumption DEF ForkInv
<1>2. PICK a, w, x : Takes(a, w, x)
  BY DEF ForkInv
<1>3. PICK k, lo : k = initial + a /\ lo = k * ChunkLen
  OBVIOUS
<1>4. /\ k \in Nat /\ lo \in Nat /\ a \in Nat /\ x \in Nat /\ Given \in Nat
      /\ lo <= x /\ initial * ChunkLen \in Nat
      /\ lo = initial * ChunkLen + a * ChunkLen /\ a * ChunkLen \in Nat
      /\ InChunk(k, lo, w, x) /\ chunk = Filled(k, lo, w, x)
      /\ input = Bytes(x, Given) /\ Len(input) = Given - x
  BY <1>1, <1>2, <1>3, TakesFacts
<1>5. /\ degree' = degree /\ initial' = counter /\ fed' = fed
      /\ at = "idle" /\ at' = "idle" /\ HasherCount = 0
      /\ input' = input /\ stack' = stack
      /\ chunk' = [chunk EXCEPT !.counter = counter]
  BY DEF SetInputOffset
<1>6. x = Given /\ Lazy(stack, initial, a)
  BY <1>2, <1>5 DEF Takes, Holds
<1>7. counter \in Nat
  BY ForkAssumption
<1>8. fed = 0
  <2>1. HasherCount + Len(input) = fed
    BY ForkInvFinal DEF FinalIsTree
  <2>2. Len(input) = 0
    BY <1>4, <1>6
  <2> QED  BY <1>1, <1>5, <2>1, <2>2
<1>9. a = 0 /\ x = lo
  <2> DEFINE i == initial * ChunkLen
             c == a * ChunkLen
  <2>1. i \in Nat /\ c \in Nat /\ lo = i + c /\ lo <= x /\ x = i
    <3>1. Given = i + 0
      BY <1>8 DEF Given
    <3> HIDE DEF i, c
    <3> QED  BY <1>4, <1>6, <3>1 DEF i, c
  <2> HIDE DEF i, c
  <2>2. c = 0 /\ x = lo
    BY <2>1
  <2>3. a = 0
    <3> SUFFICES ASSUME 1 <= a PROVE FALSE
      BY <1>4, <2>2
    <3>1. 1 * ChunkLen <= a * ChunkLen
      BY <1>4, MulMono, Lengths
    <3> QED  BY <2>2, <3>1, Lengths DEF c
  <2> QED  BY <2>2, <2>3
<1>10. stack' = <<>>
  BY <1>5, <1>6, <1>9, LazyLen
<1>11. PICK y : y = counter * ChunkLen
  OBVIOUS
<1>12. y \in Nat /\ counter + 0 = counter /\ y <= y + ChunkLen
  BY <1>7, <1>11, Lengths
<1>13. chunk' = Filled(counter, y, 0, y) /\ InChunk(counter, y, 0, y)
  <2>1. w = 0
    BY <1>4, <1>9, NoBlocks
  <2>2. chunk = NewChunk(k)
    BY <1>3, <1>4, <1>9, <2>1, NewChunkIs
  <2>3. chunk = [counter |-> k, done |-> <<>>, buf |-> <<>>]
    BY <2>2 DEF NewChunk
  <2>4. chunk' = [counter |-> counter, done |-> <<>>, buf |-> <<>>]
    BY <1>5, <2>3, NewCounter
  <2>5. chunk' = NewChunk(counter)
    BY <2>4 DEF NewChunk
  <2> QED  BY <1>7, <1>11, <1>12, <2>5, NewChunkIs
<1>14. Given' = y
  BY <1>5, <1>8, <1>11, <1>12 DEF Given
<1>15. Holds(0, 0, y)'
  <2>1. initial' + 0 = counter /\ (initial' + 0) * ChunkLen = y /\ initial' \in Nat
    BY <1>5, <1>7, <1>11, <1>12
  <2>2. Lazy(stack', initial', 0) /\ ~(y > y)
    BY <1>10, <1>12, <2>1 DEF Lazy
  <2> HIDE DEF Lazy, InChunk, Filled, Peaks
  <2> QED  BY <1>12, <1>13, <2>1, <2>2 DEF Holds
<1>16. Takes(0, 0, y)'
  <2>1. y <= Given' /\ input' = Bytes(y, Given')
    <3>1. Bytes(y, y) = <<>> /\ Bytes(x, x) = <<>>
      BY <1>4, <1>12, BytesList
    <3> QED  BY <1>4, <1>5, <1>6, <1>12, <1>14, <3>1
  <2>2. Len(stack') # 1
    BY <1>10
  <2> QED  BY <1>5, <1>14, <1>15, <2>1, <2>2 DEF Takes
<1>17. initial' # 0 => fed' <= LowBit(initial') * ChunkLen
  <2>1. ASSUME counter # 0
        PROVE  LowBit(counter) * ChunkLen \in Nat
    <3> DEFINE p == LowBit(counter)
    <3>1. p \in Nat
      BY <1>7, <2>1, LowBitFacts
    <3> HIDE DEF p
    <3>2. p * ChunkLen \in Nat
      BY <3>1, Lengths
    <3> QED  BY <3>2 DEF p
  <2> QED  BY <1>5, <1>8, <2>1
<1> QED  BY <1>1, <1>5, <1>7, <1>16, <1>17 DEF ForkInv

\* The rest of update, ...
LEMMA FeedingKeeps ==
  ASSUME ForkInv, Feeding
  PROVE  ForkInv'
BY FinishKeeps, NoPartialKeeps, SubtreeKeeps, RestKeeps DEF Feeding

\* ... and whatever another caller does
LEMMA ForkStep ==
  ASSUME ForkInv, ForkNext
  PROVE  ForkInv'
<1>1. initial \in Nat /\ fed \in 0..MaxInput /\ MaxInput \in Nat /\ Given \in Nat
  BY ForkAssumption, Lengths DEF ForkInv, Given
<1>2. ASSUME NEW n \in 0..(MaxInput - fed), Update(NextBytes(n))
      PROVE  ForkInv'
  <2>1. n \in Nat /\ fed + n <= MaxInput
    BY <1>1
  <2>2. NextBytes(n) = Bytes(Given, Given + n)
    BY DEF NextBytes, Given
  <2>3. Given + n \in Nat
    BY <1>1, <2>1
  <2> QED  BY <1>2, <2>1, <2>2, <2>3, UpdateKeeps
<1> QED  BY <1>2, FeedingKeeps, ResetKeeps, OffsetKeeps DEF ForkNext

\* Nor does a step of something else.
LEMMA ForkStays ==
  ASSUME ForkInv, UNCHANGED forkVars
  PROVE  ForkInv'
<1>1. /\ degree' = degree /\ initial' = initial /\ chunk' = chunk /\ stack' = stack
      /\ input' = input /\ at' = at /\ fed' = fed
  BY DEF forkVars
<1>2. PICK a, w, x : Takes(a, w, x)
  BY DEF ForkInv
<1>3. Given' = Given
  BY <1>1 DEF Given
<1>4. Holds(a, w, x)'
  BY <1>1, <1>2, HoldsSame DEF Takes
<1>5. Takes(a, w, x)'
  BY <1>1, <1>2, <1>3, <1>4 DEF Takes
<1> QED  BY <1>1, <1>5 DEF ForkInv

-----------------------------------------------------------------------------
(* The witness's chunks *)

\* The state of the witness's chunk k, at lo, with the bytes up to x
WFilled(k, lo, w, x) ==
  [counter |-> k, cv |-> Blocks(lo, w), block |-> Bytes(lo + w * BlockLen, x)]

\* Changing the block of a chunk's state, ...
LEMMA NewBlock ==
  ASSUME NEW a, NEW b, NEW c, NEW e, NEW r, r = [counter |-> a, cv |-> b, block |-> c]
  PROVE  [r EXCEPT !.block = e] = [counter |-> a, cv |-> b, block |-> e]
OBVIOUS

\* ... and the chaining value
LEMMA NewCv ==
  ASSUME NEW a, NEW b, NEW c, NEW d, NEW r, r = [counter |-> a, cv |-> b, block |-> c]
  PROVE  [r EXCEPT !.cv = d] = [counter |-> a, cv |-> d, block |-> c]
OBVIOUS

\* What the state tells
LEMMA WFilledFacts ==
  ASSUME NEW k, NEW lo, NEW w, NEW x, InChunk(k, lo, w, x), NEW b, b = lo + w * BlockLen
  PROVE  /\ WChunkCount(WFilled(k, lo, w, x)) = x - lo
         /\ WFilled(k, lo, w, x).counter = k
         /\ WFilled(k, lo, w, x).cv = Blocks(lo, w)
         /\ WFilled(k, lo, w, x).block = Bytes(b, x)
         /\ (WFilled(k, lo, w, x).cv = Zero) = (w = 0)
         /\ Len(WFilled(k, lo, w, x).block) = x - b
         /\ b \in Nat /\ b <= x /\ x <= b + BlockLen
<1>1. /\ WFilled(k, lo, w, x).counter = k
      /\ WFilled(k, lo, w, x).cv = Blocks(lo, w)
      /\ WFilled(k, lo, w, x).block = Bytes(b, x)
  BY DEF WFilled
<1>2. lo \in Nat /\ w \in Nat /\ x \in Nat /\ Kept(lo, w, x)
  BY DEF InChunk
<1>3. b \in Nat /\ b <= x
  BY BlockCount
<1>4. Len(Bytes(b, x)) = x - b
  BY <1>2, <1>3, BytesList
<1>5. Len(Blocks(lo, w)) = w /\ (Blocks(lo, w) = <<>> <=> w = 0)
  BY <1>2, BlocksFacts
<1>6. x <= b + BlockLen
  <2>1. (x = lo /\ w = 0) \/ (b < x /\ x <= b + BlockLen)
    BY <1>2 DEF Kept
  <2>2. b \in Nat /\ x \in Nat /\ BlockLen \in Nat /\ b <= x
    BY <1>2, <1>3, Lengths
  <2>3. w = 0 => b = lo
    BY <1>2, Lengths
  <2>4. CASE x = lo /\ w = 0
    BY <2>2, <2>3, <2>4
  <2> QED  BY <2>1, <2>4
<1>7. WChunkCount(WFilled(k, lo, w, x)) = w * BlockLen + (x - b)
  BY <1>1, <1>4, <1>5 DEF WChunkCount
<1>8. w * BlockLen + (x - b) = x - lo
  BY <1>2, Lengths
<1>9. (WFilled(k, lo, w, x).cv = Zero) = (w = 0)
  BY <1>1, <1>5 DEF Zero
<1> QED  BY <1>1, <1>3, <1>4, <1>6, <1>7, <1>8, <1>9

\* Compressing a full block
LEMMA WCompressIs ==
  ASSUME NEW k, NEW lo \in Nat, NEW w \in Nat, NEW b \in Nat, NEW x \in Nat, NEW v \in Nat,
         b = lo + w * BlockLen, x = b + BlockLen, v = w + 1
  PROVE  WCompress(WFilled(k, lo, w, x)) = WFilled(k, lo, v, x)
<1> DEFINE c == WFilled(k, lo, w, x)
           d == Append(c.cv, Block(c.block, c.cv = Zero, FALSE))
<1>1. x = lo + v * BlockLen
  BY Lengths
<1>2. Bytes(x, x) = <<>>
  BY BytesList
<1>3. c = [counter |-> k, cv |-> Blocks(lo, w), block |-> Bytes(b, x)]
      /\ c.cv = Blocks(lo, w) /\ c.block = Bytes(b, x)
  BY DEF WFilled
<1>4. WCompress(c) = [c EXCEPT !.cv = d, !.block = <<>>]
  BY DEF WCompress
<1> HIDE DEF c
<1>5. (c.cv = Zero) = (w = 0)
  <2>1. Blocks(lo, w) = <<>> <=> w = 0
    BY BlocksFacts
  <2> QED  BY <1>3, <2>1 DEF Zero
<1>6. d = Blocks(lo, v)
  <2>1. Append(Blocks(lo, w), Block(Bytes(lo + w * BlockLen, lo + w * BlockLen + BlockLen), w = 0, FALSE))
          = Blocks(lo, w + 1)
    BY BlocksNext
  <2> QED  BY <1>3, <1>5, <2>1
<1> HIDE DEF d
<1>7. [c EXCEPT !.cv = d, !.block = <<>>] = [counter |-> k, cv |-> d, block |-> <<>>]
  <2> DEFINE q == [c EXCEPT !.cv = d]
  <2>1. [c EXCEPT !.cv = d, !.block = <<>>] = [q EXCEPT !.block = <<>>]
    BY <1>3
  <2>2. q = [counter |-> k, cv |-> d, block |-> Bytes(b, x)]
    BY <1>3, NewCv
  <2> HIDE DEF q
  <2>3. [q EXCEPT !.block = <<>>] = [counter |-> k, cv |-> d, block |-> <<>>]
    BY <2>2, NewBlock
  <2> QED  BY <2>1, <2>3
<1>8. WFilled(k, lo, v, x) = [counter |-> k, cv |-> Blocks(lo, v), block |-> <<>>]
  BY <1>1, <1>2 DEF WFilled
<1> QED  BY <1>4, <1>6, <1>7, <1>8 DEF c

\* Bytes put behind those in the block
WFill(c, bytes) == [c EXCEPT !.block = c.block \o bytes]

\* This appends the bytes to the chunk.
LEMMA WFillIs ==
  ASSUME NEW k, NEW lo \in Nat, NEW w \in Nat, NEW b \in Nat, NEW x \in Nat, NEW y \in Nat,
         b = lo + w * BlockLen, b <= x, x <= y, NEW c, c = WFilled(k, lo, w, x)
  PROVE  WFill(c, Bytes(x, y)) = WFilled(k, lo, w, y)
<1>1. Bytes(b, x) \o Bytes(x, y) = Bytes(b, y)
  BY BytesConcat
<1>2. c = [counter |-> k, cv |-> Blocks(lo, w), block |-> Bytes(b, x)]
  BY DEF WFilled
<1>3. c.block = Bytes(b, x)
  BY <1>2
<1>4. [c EXCEPT !.block = Bytes(b, y)] = [counter |-> k, cv |-> Blocks(lo, w), block |-> Bytes(b, y)]
  BY <1>2, NewBlock
<1>5. WFill(c, Bytes(x, y)) = [c EXCEPT !.block = Bytes(b, y)]
  BY <1>1, <1>3 DEF WFill
<1> QED  BY <1>4, <1>5 DEF WFilled

\* One turn of ChunkState::update, and the loop
WTurn(s) ==
  LET open == IF Len(s.chunk.block) = BlockLen THEN WCompress(s.chunk) ELSE s.chunk
      room == BlockLen - Len(open.block)
      take == IF Len(s.rest) < room THEN Len(s.rest) ELSE room
  IN  [chunk |-> [open EXCEPT !.block = @ \o SubSeq(s.rest, 1, take)],
       rest |-> SubSeq(s.rest, take + 1, Len(s.rest))]

WStep(s) == IF s.rest = <<>> THEN s ELSE WTurn(s)

Loops(f, s) == f = [i \in Nat |-> IF i = 0 THEN s ELSE WStep(f[i - 1])]

\* The chunk has the bytes up to x, and those up to hi are to come.
At(k, lo, hi, s, x) ==
  /\ hi \in Nat /\ x \in Nat /\ x <= hi
  /\ \E w : InChunk(k, lo, w, x) /\ s = [chunk |-> WFilled(k, lo, w, x), rest |-> Bytes(x, hi)]

\* A turn takes some.
LEMMA WTurnIs ==
  ASSUME NEW k, NEW lo, NEW hi, NEW s, NEW x, At(k, lo, hi, s, x), x < hi
  PROVE  \E y : At(k, lo, hi, WTurn(s), y) /\ x < y
<1>1. hi \in Nat /\ x \in Nat
  BY DEF At
<1>2. PICK w : InChunk(k, lo, w, x) /\ s = [chunk |-> WFilled(k, lo, w, x), rest |-> Bytes(x, hi)]
  BY DEF At
<1>3. PICK b : b = lo + w * BlockLen
  OBVIOUS
<1>4. /\ WFilled(k, lo, w, x).block = Bytes(b, x) /\ Len(WFilled(k, lo, w, x).block) = x - b
      /\ b \in Nat /\ b <= x /\ x <= b + BlockLen
  BY <1>2, <1>3, WFilledFacts
<1>5. k \in Nat /\ lo \in Nat /\ lo = k * ChunkLen /\ w \in Nat /\ lo <= x
  BY <1>2 DEF InChunk
<1> DEFINE open == IF Len(s.chunk.block) = BlockLen THEN WCompress(s.chunk) ELSE s.chunk
           room == BlockLen - Len(open.block)
           take == IF Len(s.rest) < room THEN Len(s.rest) ELSE room
<1>6. WTurn(s) = [chunk |-> WFill(open, SubSeq(s.rest, 1, take)),
                  rest |-> SubSeq(s.rest, take + 1, Len(s.rest))]
  BY DEF WTurn, WFill
<1>7. s.chunk = WFilled(k, lo, w, x) /\ s.rest = Bytes(x, hi)
  BY <1>2
<1>8. PICK v, c : /\ v \in Nat /\ c = lo + v * BlockLen /\ c \in Nat /\ c <= x /\ x < c + BlockLen
                  /\ open = WFilled(k, lo, v, x) /\ Len(open.block) = x - c
  <2>1. CASE x = b + BlockLen
    <3>1. PICK v : v = w + 1
      OBVIOUS
    <3>2. v \in Nat
      BY <1>5, <3>1
    <3>3. WCompress(WFilled(k, lo, w, x)) = WFilled(k, lo, v, x)
      BY <1>1, <1>3, <1>4, <1>5, <2>1, <3>1, <3>2, WCompressIs
    <3>4. x = lo + v * BlockLen
      BY <1>3, <1>5, <2>1, <3>1, Lengths
    <3>5. x - b = BlockLen
      BY <1>4, <2>1, Lengths
    <3>6. open = WFilled(k, lo, v, x)
      BY <1>4, <1>7, <3>3, <3>5
    <3>7. WFilled(k, lo, v, x).block = Bytes(x, x)
      BY <3>4 DEF WFilled
    <3>8. Len(Bytes(x, x)) = x - x
      BY <1>1, BytesList
    <3>9. x < x + BlockLen
      BY <1>1, Lengths
    <3> HIDE DEF open
    <3> QED  BY <1>1, <3>2, <3>4, <3>6, <3>7, <3>8, <3>9
  <2>2. CASE x # b + BlockLen
    <3>1. x - b # BlockLen
      BY <1>1, <1>4, <2>2, Lengths
    <3>2. open = WFilled(k, lo, w, x)
      BY <1>4, <1>7, <3>1
    <3>3. x < b + BlockLen
      BY <1>1, <1>4, <2>2, Lengths
    <3> HIDE DEF open
    <3> QED  BY <1>3, <1>4, <1>5, <3>2, <3>3
  <2> QED  BY <2>1, <2>2
<1> HIDE DEF open
<1>9. Len(Bytes(x, hi)) = hi - x
  BY <1>1, BytesList
<1>10. PICK n, y : n = take /\ y = x + n
  OBVIOUS
<1>11. n \in Nat /\ n >= 1 /\ y \in Nat /\ x < y /\ y <= hi /\ y <= c + BlockLen /\ c < y
  <2>1. room = c + BlockLen - x
    BY <1>1, <1>8, Lengths
  <2>2. n = IF hi - x < room THEN hi - x ELSE room
    BY <1>7, <1>9, <1>10
  <2>3. /\ c \in Nat /\ x \in Nat /\ hi \in Nat /\ BlockLen \in Nat
        /\ c <= x /\ x < c + BlockLen /\ x < hi /\ y = x + n
    BY <1>1, <1>8, <1>10, Lengths
  <2> DEFINE r == c + BlockLen - x
  <2>4. n = IF hi - x < r THEN hi - x ELSE r
    BY <2>1, <2>2
  <2> HIDE DEF room, take, r
  <2>5. r \in Nat /\ r >= 1 /\ x + r = c + BlockLen
    BY <2>3 DEF r
  <2> QED  BY <2>3, <2>4, <2>5
<1>12. SubSeq(s.rest, 1, n) = Bytes(x, y) /\ SubSeq(s.rest, n + 1, Len(s.rest)) = Bytes(y, hi)
  <2>1. Take(Bytes(x, hi), n) = Bytes(x, y) /\ Drop(Bytes(x, hi), n) = Bytes(y, hi)
    BY <1>1, <1>10, <1>11, BytesTake
  <2> QED  BY <1>7, <2>1 DEF Take, Drop
<1>13. WTurn(s) = [chunk |-> WFill(open, Bytes(x, y)), rest |-> Bytes(y, hi)]
  BY <1>6, <1>10, <1>12
<1>14. WFill(open, Bytes(x, y)) = WFilled(k, lo, v, y)
  <2>1. x <= y
    BY <1>1, <1>11
  <2>2. open = WFilled(k, lo, v, x) /\ c = lo + v * BlockLen
    BY <1>8
  <2>3. lo \in Nat /\ v \in Nat /\ c \in Nat /\ x \in Nat /\ y \in Nat /\ c <= x
    BY <1>1, <1>5, <1>8, <1>11
  <2> QED  BY <2>1, <2>2, <2>3, WFillIs
<1>15. InChunk(k, lo, v, y)
  <2>1. lo <= y
    BY <1>1, <1>5, <1>11
  <2>2. Kept(lo, v, y)
    BY <1>8, <1>11 DEF Kept
  <2> QED  BY <1>5, <1>8, <1>11, <2>1, <2>2 DEF InChunk
<1>16. At(k, lo, hi, WTurn(s), y)
  BY <1>1, <1>11, <1>13, <1>14, <1>15 DEF At
<1> QED  BY <1>11, <1>16

\* The loop has a run.
LEMMA LoopExists ==
  ASSUME NEW k, NEW lo, NEW hi, NEW s, NEW x, At(k, lo, hi, s, x)
  PROVE  \E f : Loops(f, s)
<1> DEFINE T == {[chunk |-> WFilled(k, lo, w, y), rest |-> Bytes(y, hi)] : w \in Nat, y \in Nat}
           V == {t \in T : \E y : At(k, lo, hi, t, y)}
<1>1. ASSUME NEW t, NEW y, At(k, lo, hi, t, y)
      PROVE  t \in V
  <2>1. PICK w : InChunk(k, lo, w, y) /\ t = [chunk |-> WFilled(k, lo, w, y), rest |-> Bytes(y, hi)]
    BY <1>1 DEF At
  <2>2. w \in Nat /\ y \in Nat
    BY <2>1 DEF InChunk
  <2>3. t \in T
    BY <2>1, <2>2
  <2> HIDE DEF T
  <2> QED  BY <1>1, <2>3
<1>2. ASSUME NEW t \in V
      PROVE  WStep(t) \in V
  <2>1. PICK y : At(k, lo, hi, t, y)
    OBVIOUS
  <2>2. PICK w : InChunk(k, lo, w, y) /\ t = [chunk |-> WFilled(k, lo, w, y), rest |-> Bytes(y, hi)]
    BY <2>1 DEF At
  <2>3. t.rest = Bytes(y, hi) /\ y \in Nat /\ hi \in Nat /\ y <= hi
    BY <2>1, <2>2 DEF At
  <2>4. Bytes(y, hi) = <<>> <=> y = hi
    BY <2>3, BytesList
  <2>5. CASE y = hi
    BY <2>3, <2>4, <2>5 DEF WStep
  <2>6. CASE y # hi
    <3>1. y < hi /\ WStep(t) = WTurn(t)
      BY <2>3, <2>4, <2>6 DEF WStep
    <3>2. \E z : At(k, lo, hi, WTurn(t), z)
      BY <2>1, <3>1, WTurnIs
    <3> QED  BY <1>1, <3>1, <3>2
  <2> QED  BY <2>5, <2>6
<1>3. s \in V
  BY <1>1
<1> HIDE DEF V
<1> DEFINE start == [i \in Nat |-> s]
           prev == [i \in Nat |-> IF i = 0 THEN 0 ELSE i - 1]
           G == [i \in Nat |-> [t \in V |-> WStep(t)]]
           L == {0}
<1>4. start \in [Nat -> V] /\ prev \in [Nat -> Nat] /\ G \in [Nat -> [V -> V]]
  BY <1>2, <1>3
<1>5. \A i \in Nat \ L : prev[i] < i
  OBVIOUS
<1>6. PICK f \in [Nat -> V] : Descends(f, Nat, L, start, prev, G)
  <2> HIDE DEF start, prev, G, L
  <2> QED  BY <1>4, <1>5, Descent
<1>7. ASSUME NEW i \in Nat
      PROVE  f[i] = IF i = 0 THEN s ELSE WStep(f[i - 1])
  <2>1. f[i] = IF i \in L THEN start[i] ELSE G[i][f[prev[i]]]
    <3> HIDE DEF start, prev, G, L
    <3> QED  BY <1>6 DEF Descends
  <2>2. CASE i = 0
    BY <2>1, <2>2
  <2>3. CASE i # 0
    <3>1. prev[i] = i - 1 /\ i - 1 \in Nat /\ i \notin L
      BY <2>3
    <3>2. f[i - 1] \in V
      BY <1>6, <3>1
    <3>3. f[i] = G[i][f[i - 1]]
      BY <2>1, <3>1
    <3>4. G[i][f[i - 1]] = WStep(f[i - 1])
      BY <3>2
    <3> QED  BY <2>3, <3>3, <3>4
  <2> QED  BY <2>2, <2>3
<1>8. f = [i \in Nat |-> f[i]]
  BY <1>6
<1>9. f = [i \in Nat |-> IF i = 0 THEN s ELSE WStep(f[i - 1])]
  BY <1>7, <1>8
<1> QED  BY <1>9 DEF Loops

\* update of the witness's chunk appends the bytes.
LEMMA WChunkGrows ==
  ASSUME NEW k, NEW lo, NEW w, NEW x, InChunk(k, lo, w, x), NEW y \in Nat, x <= y
  PROVE  \E v : InChunk(k, lo, v, y) /\ WChunkUpdate(WFilled(k, lo, w, x), Bytes(x, y)) = WFilled(k, lo, v, y)
<1>1. k \in Nat /\ lo \in Nat /\ x \in Nat
  BY DEF InChunk
<1> DEFINE c == WFilled(k, lo, w, x)
           bytes == Bytes(x, y)
           s == [chunk |-> c, rest |-> bytes]
           f == CHOOSE g : Loops(g, s)
<1>2. WChunkUpdate(c, bytes) = f[Len(bytes)].chunk
  BY DEF WChunkUpdate, Loops, WStep, WTurn
<1>3. At(k, lo, y, s, x)
  BY <1>1 DEF At
<1>4. Loops(f, s)
  <2>1. \E g : Loops(g, s)
    <3> HIDE DEF s
    <3> QED  BY <1>3, LoopExists
  <2> HIDE DEF s
  <2> QED  BY <2>1
<1>5. Len(bytes) = y - x /\ y - x \in Nat
  BY <1>1, BytesList
<1> HIDE DEF f, s, bytes
<1>6. \A i \in Nat : f[i] = IF i = 0 THEN s ELSE WStep(f[i - 1])
  BY <1>4 DEF Loops
<1> DEFINE S == {i \in Nat : \E z : At(k, lo, y, f[i], z) /\ (x + i <= z \/ z = y)}
<1>7. 0 \in S
  BY <1>1, <1>3, <1>6
<1>8. ASSUME NEW i \in Nat, i \in S
      PROVE  i + 1 \in S
  <2>1. PICK z : At(k, lo, y, f[i], z) /\ (x + i <= z \/ z = y)
    BY <1>8
  <2>2. PICK v : InChunk(k, lo, v, z) /\ f[i] = [chunk |-> WFilled(k, lo, v, z), rest |-> Bytes(z, y)]
    BY <2>1 DEF At
  <2>3. f[i].rest = Bytes(z, y) /\ z \in Nat /\ z <= y
    BY <2>1, <2>2 DEF At
  <2>4. Bytes(z, y) = <<>> <=> z = y
    BY <2>3, BytesList
  <2>5. f[i + 1] = WStep(f[i])
    BY <1>6
  <2>6. CASE z = y
    <3>1. f[i + 1] = f[i]
      BY <2>3, <2>4, <2>5, <2>6 DEF WStep
    <3> QED  BY <2>1, <2>6, <3>1
  <2>7. CASE z # y
    <3>1. z < y /\ f[i + 1] = WTurn(f[i])
      BY <2>3, <2>4, <2>5, <2>7 DEF WStep
    <3>2. PICK q : At(k, lo, y, f[i + 1], q) /\ z < q
      BY <2>1, <3>1, WTurnIs
    <3>3. q \in Nat
      BY <3>2 DEF At
    <3>4. x + (i + 1) <= q
      BY <1>1, <2>1, <2>3, <2>7, <3>2, <3>3
    <3> QED  BY <3>2, <3>4
  <2> QED  BY <2>6, <2>7
<1>9. Nat \subseteq S
  <2> HIDE DEF S
  <2> QED  BY <1>7, <1>8, Induction
<1>10. PICK z : At(k, lo, y, f[y - x], z) /\ (x + (y - x) <= z \/ z = y)
  BY <1>5, <1>9
<1>11. z = y
  <2>1. z \in Nat /\ z <= y
    BY <1>10 DEF At
  <2> QED  BY <1>1, <1>10, <2>1
<1>12. PICK v : InChunk(k, lo, v, y) /\ f[y - x] = [chunk |-> WFilled(k, lo, v, y), rest |-> Bytes(y, y)]
  BY <1>10, <1>11 DEF At
<1>13. f[y - x].chunk = WFilled(k, lo, v, y)
  BY <1>12
<1> QED  BY <1>2, <1>5, <1>12, <1>13 DEF bytes

\* A new chunk
LEMMA WNewChunkIs ==
  ASSUME NEW k \in Nat, NEW lo \in Nat, lo = k * ChunkLen
  PROVE  WNewChunk(k) = WFilled(k, lo, 0, lo) /\ InChunk(k, lo, 0, lo)
<1>1. lo + 0 * BlockLen = lo
  BY Lengths
<1>2. Blocks(lo, 0) = <<>>
  <2>1. 0 \in Nat
    OBVIOUS
  <2> QED  BY <2>1, BlocksFacts
<1>3. Bytes(lo, lo) = <<>>
  BY BytesList
<1> QED  BY <1>1, <1>2, <1>3 DEF WNewChunk, WFilled, InChunk, Kept, Zero

\* output of a chunk's state is the chunk of the tree.
LEMMA WChunkOutputIs ==
  ASSUME NEW k, NEW lo, NEW w, NEW x, InChunk(k, lo, w, x)
  PROVE  WChunkOutput(WFilled(k, lo, w, x)) = ChunkOf(lo, x)
<1> DEFINE c == WFilled(k, lo, w, x)
<1>1. /\ c.counter = k /\ c.cv = Blocks(lo, w) /\ c.block = Bytes(lo + w * BlockLen, x)
      /\ (c.cv = Zero) = (w = 0)
  BY WFilledFacts
<1>2. WChunkOutput(c) = Chunk(c.counter, Append(c.cv, Block(c.block, c.cv = Zero, TRUE)))
  BY DEF WChunkOutput
<1> HIDE DEF c
<1>3. WChunkOutput(c) = Chunk(k, Closed(lo, w, x))
  BY <1>1, <1>2 DEF Closed
<1>4. Chunk(k, Closed(lo, w, x)) = ChunkOf(lo, x)
  BY LastBlock
<1> QED  BY <1>3, <1>4 DEF c

-----------------------------------------------------------------------------
(* The witness's stack *)

\* A peak is followed by no more than itself in what a chunk adds.
LEMMA ChunkOverhangs ==
  ASSUME NEW k \in Nat, k # 0, NEW lo, lo = k * ChunkLen, NEW x \in Nat, lo < x, x <= lo + ChunkLen
  PROVE  Overhangs(0, k, x)
<1> DEFINE p == LowBit(k)
<1>1. p \in Nat /\ p >= 1
  BY LowBitFacts
<1> HIDE DEF p
<1>2. (0 + k + p) * ChunkLen = lo + p * ChunkLen /\ p * ChunkLen >= ChunkLen /\ p * ChunkLen \in Nat
      /\ lo \in Nat /\ (0 + k) * ChunkLen = lo
  <2>1. (0 + k + p) * ChunkLen = k * ChunkLen + p * ChunkLen /\ (0 + k) * ChunkLen = k * ChunkLen
        /\ k * ChunkLen \in Nat
    BY <1>1, Lengths
  <2>2. 1 * ChunkLen <= p * ChunkLen /\ p * ChunkLen \in Nat
    BY <1>1, MulMono, Lengths
  <2> QED  BY <2>1, <2>2, Lengths
<1>3. x <= (0 + k + p) * ChunkLen
  <2> DEFINE n == p * ChunkLen
             m == (0 + k + p) * ChunkLen
  <2>1. m = lo + n /\ n >= ChunkLen /\ n \in Nat /\ lo \in Nat
    BY <1>2
  <2> HIDE DEF n, m
  <2>2. x <= m
    BY <2>1, Lengths
  <2> QED  BY <2>2 DEF m
<1>4. (0 + k) * ChunkLen < x
  BY <1>2
<1> QED  BY <1>3, <1>4 DEF Overhangs, p

\* The next chunk is merged with as many peaks as there are trailing zeros: those it
\* leaves, and what it makes of the others, are the peaks then.
Adds(s, k, j, q) ==
  /\ q \in Nat /\ q <= Ones[k] /\ Ones[k] \in Nat /\ Ones[j] = q + 1
  /\ Same(s, Peaks(0, j), 1, q)
  /\ Onto(Part(s, q + 1, Ones[k]), Node(k, j)) = Peaks(0, j)[q + 1]

\* It is as many as add_chunk_cv merges.
LEMMA AddsIs ==
  ASSUME NEW k \in Nat, NEW j, j = k + 1, NEW s, Same(s, Peaks(0, k), 1, Ones[k]),
         NEW q, q = Ones[k] - TrailingZeros[j]
  PROVE  Adds(s, k, j, q)
<1>1. j \in Nat /\ j \in Nat \ {0} /\ j - 1 = k
  OBVIOUS
<1>2. Next(1, k, k, j)
  BY <1>1, Pow2Double DEF Next
<1>3. PICK c : Joins(0, k, j, c)
  <2>1. 0 \in Nat
    OBVIOUS
  <2> QED  BY <1>2, <2>1, Joining
<1>4. /\ c \in Nat /\ Ones[c] \in Nat /\ Ones[c] <= Ones[k] /\ Ones[j] = Ones[c] + 1
      /\ Peaks(0, j) = Append(Peaks(0, c), Node(0 + c, 0 + j))
      /\ Same(Peaks(0, k), Peaks(0, c), 1, Ones[c])
      /\ Onto(Part(Peaks(0, k), Ones[c] + 1, Ones[k]), Node(0 + k, 0 + j)) = Node(0 + c, 0 + j)
  BY <1>3 DEF Joins
<1>5. Ones[k] \in Nat /\ TrailingZeros[j] \in Nat
  BY <1>1, OnesFacts, TrailingPow2
<1>6. q = Ones[c]
  <2>1. Ones[k] + 1 = Ones[j] + TrailingZeros[j]
    BY <1>1, OnesNext
  <2> QED  BY <1>4, <1>5, <2>1, SMTT(30)
<1>7. q \in Nat /\ q <= Ones[k] /\ Ones[j] = q + 1
  BY <1>4, <1>6
<1>8. IsList(Peaks(0, c), q)
  <2>1. 0 \in Nat
    OBVIOUS
  <2> QED  BY <1>4, <1>6, <2>1, PeaksList
<1> DEFINE r == Peaks(0, c)
           v == Node(0 + c, 0 + j)
           t == Peaks(0, j)
           e == Peaks(0, k)
<1>9. t = Push(r, v)
  BY <1>4 DEF Push
<1>10. Same(e, r, 1, q)
  BY <1>4, <1>6
<1>11. Same(s, e, 1, Ones[k])
  OBVIOUS
<1>12. Onto(Part(e, q + 1, Ones[k]), Node(0 + k, 0 + j)) = v
  BY <1>4, <1>6
<1>13. IsList(r, q)
  BY <1>8
<1> HIDE DEF r, v, t, e
<1>14. t[q + 1] = v /\ Same(t, r, 1, q)
  BY <1>7, <1>9, <1>13, PushFacts
<1>15. Same(s, t, 1, q)
  BY <1>5, <1>7, <1>10, <1>11, <1>14 DEF Same
<1>16. Part(s, q + 1, Ones[k]) = Part(e, q + 1, Ones[k])
  <2>1. Same(s, e, q + 1, Ones[k])
    BY <1>5, <1>7, <1>11 DEF Same
  <2> DEFINE n == Ones[k]
             p == q + 1
  <2>2. n \in Nat /\ p \in Nat /\ p <= n + 1
    BY <1>5, <1>7
  <2> HIDE DEF n, p
  <2> QED  BY <2>1, <2>2, SubSame DEF n, p
<1>17. 0 + k = k /\ 0 + j = j
  BY <1>1
<1>18. Onto(Part(s, q + 1, Ones[k]), Node(k, j)) = t[q + 1]
  BY <1>12, <1>14, <1>16, <1>17
<1> QED  BY <1>5, <1>7, <1>15, <1>18 DEF Adds, t

-----------------------------------------------------------------------------
(* The witness's hasher *)

\* It has taken the bytes up to x, those of k chunks on the stack and the rest in the
\* chunk.
WTakes(k, w, x) ==
  LET lo == k * ChunkLen
  IN  /\ InChunk(k, lo, w, x) /\ x <= lo + ChunkLen
      /\ k # 0 => lo < x
      /\ wchunk = WFilled(k, lo, w, x)
      /\ x <= wfed /\ winput = Bytes(x, wfed)
      /\ cvLen = Ones[k] /\ cvLen <= Reserve
      /\ Same(cvs, Peaks(0, k), 1, cvLen)
      /\ \A i \in cvLen + 1..Reserve : cvs[i] = Zero

WitnessInv ==
  /\ wfed \in 0..MaxWitness
  /\ \/ keyWords = "key" /\ \E k, w, x : WTakes(k, w, x)
     \/ /\ keyWords = "zero"
        /\ cvLen = 0 /\ wchunk.cv = Zero /\ wchunk.block = <<>> /\ winput = <<>>
        /\ \A i \in 1..Reserve : cvs[i] = Zero

\* What it says of the state
LEMMA WTakesFacts ==
  ASSUME wfed \in 0..MaxWitness, NEW k, NEW w, NEW x, WTakes(k, w, x), NEW lo, lo = k * ChunkLen
  PROVE  /\ k \in Nat /\ lo \in Nat /\ x \in Nat /\ wfed \in Nat /\ MaxWitness \in Nat
         /\ lo <= x /\ x <= wfed /\ x <= lo + ChunkLen /\ wfed <= MaxWitness
         /\ InChunk(k, lo, w, x) /\ wchunk = WFilled(k, lo, w, x)
         /\ wchunk.counter = k /\ WChunkCount(wchunk) = x - lo
         /\ winput = Bytes(x, wfed) /\ Len(winput) = wfed - x
         /\ winput = <<>> <=> x = wfed
         /\ cvLen = Ones[k] /\ cvLen \in Nat /\ cvLen <= Reserve /\ Reserve \in Nat
<1>1. /\ InChunk(k, lo, w, x) /\ x <= lo + ChunkLen
      /\ wchunk = WFilled(k, lo, w, x)
      /\ x <= wfed /\ winput = Bytes(x, wfed)
      /\ cvLen = Ones[k] /\ cvLen <= Reserve
  BY DEF WTakes
<1>2. k \in Nat /\ lo \in Nat /\ x \in Nat /\ lo <= x
  BY <1>1 DEF InChunk
<1>3. wfed \in Nat /\ MaxWitness \in Nat /\ wfed <= MaxWitness /\ Reserve \in Nat
  BY WitnessAssumption
<1>4. wchunk.counter = k /\ WChunkCount(wchunk) = x - lo
  BY <1>1, WFilledFacts
<1>5. Len(winput) = wfed - x /\ (winput = <<>> <=> x = wfed)
  BY <1>1, <1>2, <1>3, BytesList
<1>6. Ones[k] \in Nat
  BY <1>2, OnesFacts
<1> QED  BY <1>1, <1>2, <1>3, <1>4, <1>5, <1>6

\* The slots
LEMMA WitnessInvSlots ==
  WitnessInv => SlotsAreLive
<1> SUFFICES ASSUME WitnessInv PROVE SlotsAreLive
  OBVIOUS
<1>1. CASE keyWords = "key" /\ \E k, w, x : WTakes(k, w, x)
  <2>1. PICK k, w, x : WTakes(k, w, x)
    BY <1>1
  <2>2. PICK lo : lo = k * ChunkLen
    OBVIOUS
  <2>3. wfed \in 0..MaxWitness
    BY DEF WitnessInv
  <2>4. wchunk.counter = k /\ cvLen = Ones[k]
    BY <2>1, <2>2, <2>3, WTakesFacts
  <2>5. \A i \in cvLen + 1..Reserve : cvs[i] = Zero
    BY <2>1 DEF WTakes
  <2> QED  BY <1>1, <2>4, <2>5 DEF SlotsAreLive
<1>2. CASE /\ keyWords = "zero"
           /\ cvLen = 0 /\ wchunk.cv = Zero /\ wchunk.block = <<>> /\ winput = <<>>
           /\ \A i \in 1..Reserve : cvs[i] = Zero
  BY <1>2 DEF SlotsAreLive
<1> QED  BY <1>1, <1>2 DEF WitnessInv

\* What it ends with is the tree.
LEMMA WitnessFinal ==
  ASSUME WitnessInv, keyWords = "key", winput = <<>>
  PROVE  WitnessOutput = Tree[<<0, wfed>>]
<1>1. wfed \in 0..MaxWitness
  BY DEF WitnessInv
<1>2. PICK k, w, x : WTakes(k, w, x)
  BY DEF WitnessInv
<1>3. PICK lo : lo = k * ChunkLen
  OBVIOUS
<1>4. /\ k \in Nat /\ lo \in Nat /\ x \in Nat /\ x = wfed /\ x <= lo + ChunkLen
      /\ InChunk(k, lo, w, x) /\ wchunk = WFilled(k, lo, w, x)
      /\ cvLen = Ones[k] /\ cvLen \in Nat
  BY <1>1, <1>2, <1>3, WTakesFacts
<1>5. WChunkOutput(wchunk) = Tree[<<lo, x>>]
  BY <1>4, WChunkOutputIs, TreeLeaf
<1>6. SubSeq(cvs, 1, cvLen) = Peaks(0, k)
  <2>1. Same(cvs, Peaks(0, k), 1, cvLen)
    BY <1>2 DEF WTakes
  <2>2. 0 \in Nat
    OBVIOUS
  <2>3. IsList(Peaks(0, k), cvLen)
    BY <1>4, <2>2, PeaksList
  <2>4. Part(cvs, 1, cvLen) = Peaks(0, k)
    BY <1>4, <2>1, <2>3, SubFirst
  <2> QED  BY <2>4 DEF Part
<1>7. WitnessOutput = Onto(Peaks(0, k), Tree[<<lo, x>>])
  BY <1>5, <1>6 DEF WitnessOutput
<1>8. CASE k = 0
  <2>1. lo = 0 /\ 0 \in Nat
    BY <1>3, <1>8, Lengths
  <2>2. Peaks(0, 0) = <<>>
    BY <2>1, PeaksEquation
  <2>3. Onto(Peaks(0, k), Tree[<<lo, x>>]) = Tree[<<0, x>>]
    BY <1>8, <2>1, <2>2, OntoEmpty
  <2> QED  BY <1>4, <1>7, <2>3
<1>9. CASE k # 0
  <2>1. lo < x
    BY <1>2, <1>3, <1>9 DEF WTakes
  <2>2. Overhangs(0, k, x)
    BY <1>3, <1>4, <1>9, <2>1, ChunkOverhangs
  <2>3. 0 \in Nat
    OBVIOUS
  <2>4. Spans(0, k, x)
    BY <1>4, <2>2, <2>3, Spine
  <2>5. (0 + k) * ChunkLen = lo /\ 0 * ChunkLen = 0
    BY <1>3, <1>4, Lengths
  <2>6. Onto(Peaks(0, k), Tree[<<lo, x>>]) = Tree[<<0, x>>]
    BY <2>4, <2>5 DEF Spans
  <2> QED  BY <1>4, <1>7, <2>6
<1> QED  BY <1>8, <1>9

\* Hasher::new_keyed
LEMMA WitnessInvInit ==
  WitnessInit => WitnessInv
<1> SUFFICES ASSUME WitnessInit PROVE WitnessInv
  OBVIOUS
<1>1. /\ keyWords = "key" /\ wchunk = WNewChunk(0)
      /\ cvs = [i \in 1..Reserve |-> Zero] /\ cvLen = 0
      /\ winput = <<>> /\ wfed = 0
  BY DEF WitnessInit
<1>2. 0 * ChunkLen = 0 /\ 0 \in Nat /\ MaxWitness \in Nat /\ Reserve \in Nat
  BY Lengths, WitnessAssumption
<1>3. wchunk = WFilled(0, 0, 0, 0) /\ InChunk(0, 0, 0, 0)
  BY <1>1, <1>2, WNewChunkIs
<1>4. Bytes(0, 0) = <<>>
  BY BytesList
<1>5. Ones[0] = 0
  BY OnesFacts
<1>6. Same(cvs, Peaks(0, 0), 1, cvLen)
  BY <1>1 DEF Same
<1>7. \A i \in cvLen + 1..Reserve : cvs[i] = Zero
  BY <1>1, <1>2
<1>8. WTakes(0, 0, 0)
  BY <1>1, <1>2, <1>3, <1>4, <1>5, <1>6, <1>7, Lengths DEF WTakes
<1>9. wfed \in 0..MaxWitness
  BY <1>1, <1>2
<1> QED  BY <1>1, <1>8, <1>9 DEF WitnessInv

\* update is given the bytes that come next.
LEMMA WitnessFeedKeeps ==
  ASSUME WitnessInv, NEW n \in Nat, wfed + n <= MaxWitness, NEW z \in Nat, z = wfed + n,
         WitnessFeed(Bytes(wfed, z))
  PROVE  WitnessInv'
<1>1. wfed \in 0..MaxWitness /\ MaxWitness \in Nat /\ wfed \in Nat
  BY WitnessAssumption DEF WitnessInv
<1>2. Len(Bytes(wfed, z)) = n
  BY <1>1, BytesList
<1>3. /\ keyWords = "key" /\ winput = <<>>
      /\ winput' = Bytes(wfed, z) /\ wfed' = z
      /\ keyWords' = keyWords /\ wchunk' = wchunk /\ cvs' = cvs /\ cvLen' = cvLen
  BY <1>2 DEF WitnessFeed
<1>4. PICK k, w, x : WTakes(k, w, x)
  BY <1>3 DEF WitnessInv
<1>5. PICK lo : lo = k * ChunkLen
  OBVIOUS
<1>6. x = wfed
  BY <1>1, <1>3, <1>4, <1>5, WTakesFacts
<1>7. x <= z
  BY <1>1, <1>6
<1>8. WTakes(k, w, x)'
  BY <1>3, <1>4, <1>6, <1>7 DEF WTakes
<1>9. wfed' \in 0..MaxWitness
  BY <1>1, <1>3
<1> QED  BY <1>3, <1>8, <1>9 DEF WitnessInv

\* Fewer chunks than the stack has room for
LEMMA Room ==
  ASSUME NEW j \in Nat, NEW n \in Nat, j * ChunkLen < n, n <= MaxWitness
  PROVE  Ones[j] <= Reserve
<1>1. Reserve \in Nat /\ MaxWitness \in Nat /\ MaxWitness <= Exp2[Reserve] * ChunkLen
  BY WitnessAssumption
<1> DEFINE e == Exp2[Reserve]
<1>2. e \in Nat
  BY <1>1, Exp2Facts
<1>3. MaxWitness <= e * ChunkLen
  BY <1>1
<1> HIDE DEF e
<1>4. j < e
  <2> SUFFICES ASSUME ~(j < e) PROVE FALSE
    OBVIOUS
  <2>1. e <= j
    BY <1>2
  <2>2. e * ChunkLen <= j * ChunkLen /\ e * ChunkLen \in Nat /\ j * ChunkLen \in Nat
    BY <1>2, <2>1, MulMono, Lengths
  <2> DEFINE a == e * ChunkLen
             b == j * ChunkLen
  <2>3. a <= b /\ a \in Nat /\ b \in Nat /\ b < n /\ MaxWitness <= a
    BY <1>3, <2>2
  <2> HIDE DEF a, b
  <2> QED  BY <1>1, <2>3
<1> QED  BY <1>1, <1>4, OnesBelow DEF e

\* A turn of update's loop
LEMMA WitnessTurnKeeps ==
  ASSUME WitnessInv, WitnessTurn
  PROVE  WitnessInv'
<1>1. wfed \in 0..MaxWitness /\ MaxWitness \in Nat /\ wfed \in Nat
  BY WitnessAssumption DEF WitnessInv
<1>2. winput # <<>> /\ keyWords' = keyWords /\ wfed' = wfed
  BY DEF WitnessTurn
<1>3. keyWords = "key"
  BY <1>2 DEF WitnessInv
<1>4. PICK k, w, x : WTakes(k, w, x)
  BY <1>3 DEF WitnessInv
<1>5. PICK lo : lo = k * ChunkLen
  OBVIOUS
<1>6. /\ k \in Nat /\ lo \in Nat /\ x \in Nat
      /\ lo <= x /\ x < wfed /\ x <= lo + ChunkLen /\ wfed <= MaxWitness
      /\ InChunk(k, lo, w, x) /\ wchunk = WFilled(k, lo, w, x)
      /\ wchunk.counter = k /\ WChunkCount(wchunk) = x - lo
      /\ winput = Bytes(x, wfed) /\ Len(winput) = wfed - x
      /\ cvLen = Ones[k] /\ cvLen \in Nat /\ cvLen <= Reserve /\ Reserve \in Nat
  BY <1>1, <1>2, <1>4, <1>5, WTakesFacts
<1> DEFINE full == WChunkCount(wchunk) = ChunkLen
           open == IF full THEN WNewChunk(wchunk.counter + 1) ELSE wchunk
           room == ChunkLen - WChunkCount(open)
           take == IF Len(winput) < room THEN Len(winput) ELSE room
<1>7. /\ IF full THEN AddChunk(WChunkOutput(wchunk), wchunk.counter + 1)
         ELSE UNCHANGED <<cvs, cvLen>>
      /\ wchunk' = WChunkUpdate(open, SubSeq(winput, 1, take))
      /\ winput' = SubSeq(winput, take + 1, Len(winput))
  BY DEF WitnessTurn
<1>8. full <=> x = lo + ChunkLen
  BY <1>6, Lengths
<1>9. ASSUME NEW j, NEW m, NEW v, InChunk(j, m, v, x), x < m + ChunkLen, open = WFilled(j, m, v, x)
      PROVE  \E y, u : /\ InChunk(j, m, u, y) /\ y <= m + ChunkLen /\ m < y /\ y <= wfed
                       /\ wchunk' = WFilled(j, m, u, y) /\ winput' = Bytes(y, wfed)
  <2>1. m \in Nat /\ m <= x
    BY <1>9 DEF InChunk
  <2>2. WChunkCount(open) = x - m
    BY <1>9, WFilledFacts
  <2>3. PICK n, y : n = take /\ y = x + n
    OBVIOUS
  <2>4. n = IF wfed - x < ChunkLen - (x - m) THEN wfed - x ELSE ChunkLen - (x - m)
    BY <1>6, <2>2, <2>3
  <2>5. n \in Nat /\ y \in Nat /\ x < y /\ y <= wfed /\ y <= m + ChunkLen /\ m < y
    <3>1. PICK r : r = ChunkLen - (x - m)
      OBVIOUS
    <3>2. /\ m \in Nat /\ x \in Nat /\ wfed \in Nat /\ m <= x /\ x < m + ChunkLen /\ x < wfed
          /\ y = x + n
      BY <1>1, <1>6, <1>9, <2>1, <2>3
    <3>3. n = IF wfed - x < r THEN wfed - x ELSE r
      BY <2>4, <3>1
    <3> HIDE DEF full, open, room, take
    <3>4. r \in Nat /\ r >= 1 /\ x + r = m + ChunkLen
      BY <3>1, <3>2, Lengths
    <3>5. n \in Nat /\ n >= 1 /\ n <= wfed - x /\ n <= r
      BY <3>2, <3>3, <3>4
    <3> QED  BY <3>2, <3>4, <3>5, Lengths
  <2>6. SubSeq(winput, 1, n) = Bytes(x, y) /\ SubSeq(winput, n + 1, Len(winput)) = Bytes(y, wfed)
    <3>1. Take(Bytes(x, wfed), n) = Bytes(x, y) /\ Drop(Bytes(x, wfed), n) = Bytes(y, wfed)
      BY <1>1, <1>6, <2>3, <2>5, BytesTake, SMTT(30)
    <3> QED  BY <1>6, <3>1 DEF Take, Drop
  <2>7. wchunk' = WChunkUpdate(WFilled(j, m, v, x), Bytes(x, y)) /\ winput' = Bytes(y, wfed)
    BY <1>7, <1>9, <2>3, <2>6
  <2>8. x <= y
    BY <1>6, <2>5
  <2>9. PICK u : InChunk(j, m, u, y) /\ WChunkUpdate(WFilled(j, m, v, x), Bytes(x, y)) = WFilled(j, m, u, y)
    BY <1>9, <2>5, <2>8, WChunkGrows
  <2> QED  BY <2>5, <2>7, <2>9
<1>10. CASE x # lo + ChunkLen
  <2>1. open = WFilled(k, lo, w, x) /\ cvs' = cvs /\ cvLen' = cvLen
    BY <1>6, <1>7, <1>8, <1>10
  <2>2. x < lo + ChunkLen
    BY <1>6, <1>10, Lengths
  <2> HIDE DEF open
  <2>3. PICK y, u : /\ InChunk(k, lo, u, y) /\ y <= lo + ChunkLen /\ lo < y /\ y <= wfed
                    /\ wchunk' = WFilled(k, lo, u, y) /\ winput' = Bytes(y, wfed)
    BY <1>6, <1>9, <2>1, <2>2
  <2>4. WTakes(k, u, y)'
    BY <1>2, <1>4, <1>5, <2>1, <2>3 DEF WTakes
  <2> QED  BY <1>1, <1>2, <1>3, <2>4 DEF WitnessInv
<1>11. CASE x = lo + ChunkLen
  <2>1. PICK j : j = k + 1
    OBVIOUS
  <2>2. j \in Nat /\ j * ChunkLen = x /\ j # 0
    BY <1>5, <1>6, <1>11, <2>1, Lengths
  <2>3. open = WNewChunk(j) /\ AddChunk(WChunkOutput(wchunk), j)
    BY <1>6, <1>7, <1>8, <1>11, <2>1
  <2>4. open = WFilled(j, x, 0, x) /\ InChunk(j, x, 0, x)
    BY <1>6, <2>2, <2>3, WNewChunkIs
  <2>5. WChunkOutput(wchunk) = Node(k, j)
    <3>1. WChunkOutput(wchunk) = ChunkOf(lo, x)
      BY <1>6, WChunkOutputIs
    <3>2. ChunkOf(lo, x) = Node(k, j)
      BY <1>5, <1>6, <1>11, <2>1, ChunkIsNode
    <3> QED  BY <3>1, <3>2
  <2> HIDE DEF open
  <2>6. PICK y, u : /\ InChunk(j, x, u, y) /\ y <= x + ChunkLen /\ x < y /\ y <= wfed
                    /\ wchunk' = WFilled(j, x, u, y) /\ winput' = Bytes(y, wfed)
    <3>1. x < x + ChunkLen
      BY <1>6, Lengths
    <3> QED  BY <1>9, <2>4, <3>1
  <2>7. PICK q : q = Ones[k] - TrailingZeros[j]
    OBVIOUS
  <2>8. Adds(cvs, k, j, q)
    <3>1. Same(cvs, Peaks(0, k), 1, Ones[k])
      BY <1>4, <1>6 DEF WTakes
    <3> QED  BY <1>6, <2>1, <2>7, <3>1, AddsIs
  <2>9. /\ q \in Nat /\ Ones[j] = q + 1
        /\ Same(cvs, Peaks(0, j), 1, q)
        /\ Onto(Part(cvs, q + 1, Ones[k]), Node(k, j)) = Peaks(0, j)[q + 1]
    BY <2>8 DEF Adds
  <2>10. PICK e : e = Onto(Part(cvs, q + 1, Ones[k]), Node(k, j))
    OBVIOUS
  <2>11. /\ cvLen' = q + 1
         /\ cvs' = [i \in 1..Reserve |-> IF i <= q THEN cvs[i] ELSE IF i = q + 1 THEN e ELSE Zero]
    BY <1>6, <2>3, <2>5, <2>7, <2>10 DEF AddChunk, Part
  <2>12. Ones[j] <= Reserve
    BY <1>1, <1>6, <2>2, Room
  <2>13. q + 1 <= Reserve
    BY <2>9, <2>12
  <2>14. Same(cvs', Peaks(0, j), 1, cvLen')
    <3> SUFFICES ASSUME NEW i \in 1..q + 1
                 PROVE  cvs'[i] = Peaks(0, j)[i]
      BY <2>11 DEF Same
    <3>1. i \in 1..Reserve
      BY <1>6, <2>9, <2>13
    <3>2. CASE i = q + 1
      <4>1. cvs'[i] = e
        BY <2>9, <2>11, <3>1, <3>2
      <4> QED  BY <2>9, <2>10, <3>2, <4>1
    <3>3. CASE i # q + 1
      <4>1. i \in 1..q /\ i <= q
        BY <2>9, <3>3
      <4>2. cvs'[i] = cvs[i]
        BY <2>11, <3>1, <4>1
      <4> QED  BY <2>9, <4>1, <4>2 DEF Same
    <3> QED  BY <3>2, <3>3
  <2>15. ASSUME NEW i \in cvLen' + 1..Reserve
         PROVE  cvs'[i] = Zero
    <3>1. i \in 1..Reserve /\ ~(i <= q) /\ i # q + 1
      BY <1>6, <2>9, <2>11
    <3> QED  BY <2>11, <3>1
  <2>16. x < y
    BY <2>6
  <2>17. cvLen' = Ones[j] /\ cvLen' <= Reserve
    BY <2>9, <2>11, <2>12
  <2>18. WTakes(j, u, y)'
    BY <1>2, <2>2, <2>6, <2>14, <2>15, <2>17 DEF WTakes
  <2> QED  BY <1>1, <1>2, <1>3, <2>18 DEF WitnessInv
<1> QED  BY <1>10, <1>11

\* wipe_state leaves nothing behind.
LEMMA WipeKeeps ==
  ASSUME WitnessInv, WipeState
  PROVE  WitnessInv'
<1>1. wfed \in 0..MaxWitness
  BY DEF WitnessInv
<1>2. /\ keyWords = "key" /\ winput = <<>> /\ winput' = winput /\ wfed' = wfed
      /\ cvs' = [i \in 1..Reserve |-> IF i <= cvLen THEN Zero ELSE cvs[i]]
      /\ cvLen' = 0 /\ keyWords' = "zero"
      /\ wchunk' = [wchunk EXCEPT !.cv = Zero, !.block = <<>>]
  BY DEF WipeState
<1>3. PICK k, w, x : WTakes(k, w, x)
  BY <1>2 DEF WitnessInv
<1>4. PICK lo : lo = k * ChunkLen
  OBVIOUS
<1>5. wchunk = WFilled(k, lo, w, x) /\ cvLen \in Nat /\ Reserve \in Nat
  BY <1>1, <1>3, <1>4, WTakesFacts
<1>6. wchunk'.cv = Zero /\ wchunk'.block = <<>>
  BY <1>2, <1>5 DEF WFilled
<1>7. ASSUME NEW i \in 1..Reserve
      PROVE  cvs'[i] = Zero
  <2>1. CASE i <= cvLen
    BY <1>2, <2>1
  <2>2. CASE ~(i <= cvLen)
    <3>1. i \in cvLen + 1..Reserve
      BY <1>5, <2>2
    <3>2. cvs[i] = Zero
      BY <1>3, <3>1 DEF WTakes
    <3> QED  BY <1>2, <2>2, <3>2
  <2> QED  BY <2>1, <2>2
<1> QED  BY <1>1, <1>2, <1>6, <1>7 DEF WitnessInv

\* Nor does a step of something else change it.
LEMMA WitnessStays ==
  ASSUME WitnessInv, UNCHANGED witnessVars
  PROVE  WitnessInv'
<1>1. /\ keyWords' = keyWords /\ wchunk' = wchunk /\ cvs' = cvs /\ cvLen' = cvLen
      /\ winput' = winput /\ wfed' = wfed
  BY DEF witnessVars
<1> QED  BY <1>1 DEF WitnessInv, WTakes

-----------------------------------------------------------------------------
(* The callers *)

\* The hasher at work was given n bytes of head || aad || msg, and the parts that follow
\* are p.
Fed(n, p) ==
  \/ n = 0 /\ p = <<Prefix, Aad, Msg>>
  \/ n = HeadLen /\ p = <<Aad, Msg>>
  \/ n = HeadLen + lens.aad /\ p = <<Msg>>
  \/ n = Total /\ p = <<>>

\* The copy of head || aad || msg
Copied == [reserved |-> Total, bytes |-> Bytes(0, Total)]

TagInv ==
  /\ ForkInv /\ WitnessInv
  /\ pc \in {"apart", "window", "copy", "fork", "witness", "done"}
  /\ pc = "apart" => lens = [aad |-> 0, msg |-> 0] /\ cat = NoCat
  /\ pc # "apart" => lens \in [aad : AadLens, msg : MsgLens] /\ initial = 0
  /\ pc \in {"window", "copy", "fork"} => keyWords = "key" /\ wfed = 0
  /\ pc \in {"window", "copy"} => fed = 0
  /\ pc = "window" => cat = NoCat
  /\ pc = "copy" => InWindow /\ cat = [reserved |-> Total, bytes |-> <<>>]
  /\ pc = "fork" => /\ Fed(fed, parts) \/ (fed = 0 /\ parts = <<Bytes(0, Total)>>)
                    /\ cat = NoCat \/ (InWindow /\ cat = Copied)
  /\ pc \in {"witness", "done"} => cat = NoCat /\ inner = Tree[<<0, Total>>]
  /\ pc = "witness" => keyWords = "key" /\ Fed(wfed, parts)
  /\ pc = "done" => again = inner

\* The lengths of a call
LEMMA LensFacts ==
  ASSUME lens \in [aad : AadLens, msg : MsgLens]
  PROVE  /\ HeadLen \in Nat /\ lens.aad \in Nat /\ lens.msg \in Nat
         /\ Total \in Nat /\ Total = HeadLen + lens.aad + lens.msg
         /\ Total <= MaxInput /\ Total <= MaxWitness
<1>1. lens.aad \in AadLens /\ lens.msg \in MsgLens
  OBVIOUS
<1>2. HeadLen \in Nat /\ AadLens \subseteq Nat /\ MsgLens \subseteq Nat
  BY TagAssumption
<1>3. HeadLen + lens.aad + lens.msg <= MaxInput /\ HeadLen + lens.aad + lens.msg <= MaxWitness
  BY <1>1, TagAssumption
<1>4. lens.aad \in Nat /\ lens.msg \in Nat
  BY <1>1, <1>2
<1>5. Total = HeadLen + lens.aad + lens.msg
  BY DEF Total
<1>6. Total \in Nat
  BY <1>2, <1>4, <1>5
<1> QED  BY <1>2, <1>3, <1>4, <1>5, <1>6

\* The next part, and what is given with it
NextPart(n, p, z) ==
  /\ z \in Nat /\ n <= z /\ z <= Total
  /\ Head(p) = Bytes(n, z)
  /\ Fed(z, Tail(p))

\* There is one as long as parts follow.
LEMMA Feeds ==
  ASSUME lens \in [aad : AadLens, msg : MsgLens], NEW n, NEW p, Fed(n, p), p # <<>>
  PROVE  n \in Nat /\ \E z : NextPart(n, p, z)
<1>1. /\ HeadLen \in Nat /\ lens.aad \in Nat /\ lens.msg \in Nat
      /\ Total \in Nat /\ Total = HeadLen + lens.aad + lens.msg
  BY LensFacts
<1>2. CASE n = 0 /\ p = <<Prefix, Aad, Msg>>
  <2>1. Head(p) = Prefix /\ Tail(p) = <<Aad, Msg>>
    BY <1>2
  <2>2. NextPart(n, p, HeadLen)
    BY <1>1, <1>2, <2>1 DEF NextPart, Fed, Prefix
  <2> QED  BY <1>2, <2>2
<1>3. CASE n = HeadLen /\ p = <<Aad, Msg>>
  <2>1. Head(p) = Aad /\ Tail(p) = <<Msg>>
    BY <1>3
  <2>2. NextPart(n, p, HeadLen + lens.aad)
    BY <1>1, <1>3, <2>1 DEF NextPart, Fed, Aad
  <2> QED  BY <1>1, <1>3, <2>2
<1>4. CASE n = HeadLen + lens.aad /\ p = <<Msg>>
  <2>1. Head(p) = Msg /\ Tail(p) = <<>>
    BY <1>4
  <2>2. NextPart(n, p, Total)
    BY <1>1, <1>4, <2>1 DEF NextPart, Fed, Msg
  <2> QED  BY <1>1, <1>4, <2>2
<1>5. CASE n = Total /\ p = <<>>
  BY <1>5
<1> QED  BY <1>2, <1>3, <1>4, <1>5 DEF Fed

\* Nothing is left to give when all is given.
LEMMA FedAll ==
  ASSUME NEW n, Fed(n, <<>>)
  PROVE  n = Total
BY DEF Fed

\* The copy is the bytes of the three parts, one after the other.
LEMMA CopyIs ==
  ASSUME lens \in [aad : AadLens, msg : MsgLens]
  PROVE  Prefix \o Aad \o Msg = Bytes(0, Total)
<1>1. /\ HeadLen \in Nat /\ lens.aad \in Nat /\ lens.msg \in Nat
      /\ Total \in Nat /\ Total = HeadLen + lens.aad + lens.msg
  BY LensFacts
<1>2. PICK m : m = HeadLen + lens.aad
  OBVIOUS
<1>3. m \in Nat /\ HeadLen <= m /\ m <= Total /\ Total = m + lens.msg /\ 0 \in Nat /\ 0 <= HeadLen /\ 0 <= m
  BY <1>1, <1>2
<1>4. Bytes(0, HeadLen) \o Bytes(HeadLen, m) = Bytes(0, m)
  BY <1>1, <1>3, BytesConcat
<1>5. Bytes(0, m) \o Bytes(m, Total) = Bytes(0, Total)
  BY <1>1, <1>3, BytesConcat
<1>6. Prefix = Bytes(0, HeadLen) /\ Aad = Bytes(HeadLen, m) /\ Msg = Bytes(m, Total)
  BY <1>1, <1>2 DEF Prefix, Aad, Msg, Total
<1> QED  BY <1>4, <1>5, <1>6

\* What the definitions of the call say stays with the lengths.
LEMMA CallSame ==
  ASSUME lens' = lens
  PROVE  /\ Prefix' = Prefix /\ Aad' = Aad /\ Msg' = Msg /\ Total' = Total
         /\ InWindow' <=> InWindow
         /\ Copied' = Copied
BY DEF Prefix, Aad, Msg, Total, InWindow, Copied

\* What the fork's hasher, ...
LEMMA FedFork ==
  ASSUME lens' = lens, NEW n, NEW p, Fed(n, p), fed' = n, parts' = p
  PROVE  Fed(fed, parts)'
<1>1. Prefix' = Prefix /\ Aad' = Aad /\ Msg' = Msg /\ Total' = Total
  BY CallSame
<1> QED  BY <1>1 DEF Fed

\* ... or the witness's, was given, and the parts that follow
LEMMA FedWitness ==
  ASSUME lens' = lens, NEW n, NEW p, Fed(n, p), wfed' = n, parts' = p
  PROVE  Fed(wfed, parts)'
<1>1. Prefix' = Prefix /\ Aad' = Aad /\ Msg' = Msg /\ Total' = Total
  BY CallSame
<1> QED  BY <1>1 DEF Fed

-----------------------------------------------------------------------------
\* A call starts with both hashers new.
LEMMA TagInvInit ==
  HasherInit => TagInv
<1> SUFFICES ASSUME HasherInit PROVE TagInv
  OBVIOUS
<1>1. ForkInit /\ WitnessInit
  BY DEF HasherInit, TagInit
<1>2. ForkInv /\ WitnessInv
  BY <1>1, ForkInvInit, WitnessInvInit
<1>3. initial = 0 /\ fed = 0 /\ keyWords = "key" /\ wfed = 0
  BY <1>1 DEF ForkInit, WitnessInit
<1>4. CASE TagInit
  BY <1>2, <1>3, <1>4 DEF TagInit, TagInv
<1>5. CASE lens = [aad |-> 0, msg |-> 0] /\ pc = "apart" /\ cat = NoCat
  BY <1>2, <1>3, <1>5 DEF TagInv
<1> QED  BY <1>4, <1>5 DEF HasherInit

\* Choosing between the copy and the three updates
LEMMA WindowKeeps ==
  ASSUME TagInv, OutOfWindow \/ Reserved \/ ReserveRefused
  PROVE  TagInv'
<1>1. /\ forkVars' = forkVars /\ witnessVars' = witnessVars /\ lens' = lens
      /\ pc = "window"
  BY DEF OutOfWindow, Reserved, ReserveRefused
<1>2. ForkInv' /\ WitnessInv'
  BY <1>1, ForkStays, WitnessStays DEF TagInv
<1>3. /\ initial' = initial /\ fed' = fed /\ keyWords' = keyWords /\ wfed' = wfed
  BY <1>1 DEF forkVars, witnessVars
<1>4. /\ lens \in [aad : AadLens, msg : MsgLens] /\ initial = 0 /\ keyWords = "key" /\ wfed = 0
      /\ fed = 0 /\ cat = NoCat
  BY <1>1 DEF TagInv
<1>5. CASE OutOfWindow \/ ReserveRefused
  <2>1. parts' = <<Prefix, Aad, Msg>> /\ pc' = "fork" /\ cat' = cat
    BY <1>5 DEF OutOfWindow, ReserveRefused, ThreeUpdates
  <2>2. Fed(0, <<Prefix, Aad, Msg>>)
    BY DEF Fed
  <2>3. Fed(fed, parts)'
    BY <1>1, <1>3, <1>4, <2>1, <2>2, FedFork
  <2>4. NoCat' = NoCat
    BY DEF NoCat
  <2> QED  BY <1>1, <1>2, <1>3, <1>4, <2>1, <2>3, <2>4 DEF TagInv
<1>6. CASE Reserved
  <2>1. pc' = "copy" /\ InWindow /\ cat' = [reserved |-> Total, bytes |-> <<>>]
    BY <1>6 DEF Reserved, NoCat
  <2>2. Total' = Total /\ InWindow'
    BY <1>1, <2>1, CallSame
  <2> QED  BY <1>1, <1>2, <1>3, <1>4, <2>1, <2>2 DEF TagInv
<1> QED  BY <1>5, <1>6

\* Copying
LEMMA CopyKeeps ==
  ASSUME TagInv, Copy
  PROVE  TagInv'
<1>1. /\ forkVars' = forkVars /\ witnessVars' = witnessVars /\ lens' = lens
      /\ pc = "copy" /\ pc' = "fork"
      /\ cat' = [cat EXCEPT !.bytes = Prefix \o Aad \o Msg]
      /\ parts' = <<cat'.bytes>>
  BY DEF Copy
<1>2. ForkInv' /\ WitnessInv'
  BY <1>1, ForkStays, WitnessStays DEF TagInv
<1>3. /\ initial' = initial /\ fed' = fed /\ keyWords' = keyWords /\ wfed' = wfed
  BY <1>1 DEF forkVars, witnessVars
<1>4. /\ lens \in [aad : AadLens, msg : MsgLens] /\ initial = 0 /\ keyWords = "key" /\ wfed = 0
      /\ fed = 0 /\ InWindow /\ cat = [reserved |-> Total, bytes |-> <<>>]
  BY <1>1 DEF TagInv
<1>5. cat' = Copied
  <2>1. Prefix \o Aad \o Msg = Bytes(0, Total)
    BY <1>4, CopyIs
  <2>2. cat' = [cat EXCEPT !.bytes = Bytes(0, Total)]
    BY <1>1, <2>1
  <2> QED  BY <1>4, <2>2 DEF Copied
<1>6. parts' = <<Bytes(0, Total)>>
  BY <1>1, <1>5 DEF Copied
<1>7. Total' = Total /\ InWindow' /\ Copied' = Copied
  BY <1>1, <1>4, CallSame
<1> QED  BY <1>1, <1>2, <1>3, <1>4, <1>5, <1>6, <1>7 DEF TagInv

\* Feeding the fork's hasher
LEMMA FeedForkKeeps ==
  ASSUME TagInv, FeedFork
  PROVE  TagInv'
<1>1. /\ witnessVars' = witnessVars /\ lens' = lens /\ cat' = cat
      /\ pc = "fork" /\ pc' = pc /\ parts # <<>> /\ parts' = Tail(parts)
      /\ Update(Head(parts))
  BY DEF FeedFork
<1>2. ForkInv /\ WitnessInv'
  BY <1>1, WitnessStays DEF TagInv
<1>3. keyWords' = keyWords /\ wfed' = wfed
  BY <1>1 DEF witnessVars
<1>4. /\ lens \in [aad : AadLens, msg : MsgLens] /\ initial = 0 /\ keyWords = "key" /\ wfed = 0
      /\ Fed(fed, parts) \/ (fed = 0 /\ parts = <<Bytes(0, Total)>>)
      /\ cat = NoCat \/ (InWindow /\ cat = Copied)
  BY <1>1 DEF TagInv
<1>5. Total \in Nat /\ Total <= MaxInput /\ MaxInput \in Nat
  BY <1>4, LensFacts, ForkAssumption
<1>6. PICK z : /\ z \in Nat /\ fed \in Nat /\ fed <= z /\ z <= Total
               /\ Head(parts) = Bytes(fed, z)
               /\ Fed(z, Tail(parts))
  <2>1. CASE Fed(fed, parts)
    BY <1>1, <1>4, <2>1, Feeds DEF NextPart
  <2>2. CASE fed = 0 /\ parts = <<Bytes(0, Total)>>
    <3>1. Head(parts) = Bytes(0, Total) /\ Tail(parts) = <<>>
      BY <2>2
    <3>2. Fed(Total, <<>>)
      BY DEF Fed
    <3> QED  BY <1>5, <2>2, <3>1, <3>2
  <2> QED  BY <1>4, <2>1, <2>2
<1>7. Given = fed
  <2>1. 0 * ChunkLen = 0
    BY Lengths
  <2> QED  BY <1>4, <1>6, <2>1 DEF Given
<1>8. PICK n : n = z - fed
  OBVIOUS
<1>9. n \in Nat /\ fed + n = z /\ z = Given + n /\ fed + n <= MaxInput
  BY <1>5, <1>6, <1>7, <1>8
<1>10. Update(Bytes(Given, z))
  BY <1>1, <1>6, <1>7
<1>11. ForkInv'
  BY <1>2, <1>6, <1>9, <1>10, UpdateKeeps
<1>12. Len(Bytes(fed, z)) = n
  BY <1>6, <1>8, BytesList
<1>13. initial' = 0 /\ fed' = z
  BY <1>1, <1>4, <1>6, <1>9, <1>12 DEF Update
<1>14. Fed(fed, parts)'
  BY <1>1, <1>6, <1>13, FedFork
<1>15. (InWindow' <=> InWindow) /\ Copied' = Copied /\ NoCat' = NoCat
  BY <1>1, CallSame DEF NoCat
<1> QED  BY <1>1, <1>2, <1>3, <1>4, <1>11, <1>13, <1>14, <1>15 DEF TagInv

\* update of the fork's hasher at work
LEMMA ForkWorksKeeps ==
  ASSUME TagInv, ForkWorks
  PROVE  TagInv'
<1>1. /\ witnessVars' = witnessVars /\ lens' = lens /\ cat' = cat
      /\ pc = "fork" /\ pc' = pc /\ parts' = parts
      /\ Feeding
  BY DEF ForkWorks
<1>2. ForkInv' /\ WitnessInv'
  BY <1>1, FeedingKeeps, WitnessStays DEF TagInv
<1>3. keyWords' = keyWords /\ wfed' = wfed
  BY <1>1 DEF witnessVars
<1>4. initial' = initial /\ fed' = fed
  BY <1>1 DEF Feeding, FinishChunk, NoPartialChunk, HashSubtree, KeepRest
<1>5. /\ lens \in [aad : AadLens, msg : MsgLens] /\ initial = 0 /\ keyWords = "key" /\ wfed = 0
      /\ Fed(fed, parts) \/ (fed = 0 /\ parts = <<Bytes(0, Total)>>)
      /\ cat = NoCat \/ (InWindow /\ cat = Copied)
  BY <1>1 DEF TagInv
<1>6. (InWindow' <=> InWindow) /\ Copied' = Copied /\ NoCat' = NoCat /\ Total' = Total
  BY <1>1, CallSame DEF NoCat
<1>7. Fed(fed, parts) => Fed(fed, parts)'
  BY <1>1, <1>4, FedFork
<1> QED  BY <1>1, <1>2, <1>3, <1>4, <1>5, <1>6, <1>7 DEF TagInv

\* The main path's result
LEMMA ForkDoneKeeps ==
  ASSUME TagInv, ForkDone
  PROVE  TagInv'
<1>1. /\ forkVars' = forkVars /\ witnessVars' = witnessVars /\ lens' = lens
      /\ pc = "fork" /\ pc' = "witness" /\ parts = <<>> /\ at = "idle"
      /\ inner' = FinalOutput /\ cat' = NoCat /\ parts' = <<Prefix, Aad, Msg>>
  BY DEF ForkDone, WitnessParts
<1>2. ForkInv' /\ WitnessInv' /\ ForkInv
  BY <1>1, ForkStays, WitnessStays DEF TagInv
<1>3. initial' = initial /\ keyWords' = keyWords /\ wfed' = wfed
  BY <1>1 DEF forkVars, witnessVars
<1>4. /\ lens \in [aad : AadLens, msg : MsgLens] /\ initial = 0 /\ keyWords = "key" /\ wfed = 0
      /\ Fed(fed, parts) \/ (fed = 0 /\ parts = <<Bytes(0, Total)>>)
  BY <1>1 DEF TagInv
<1>5. fed = Total /\ Total \in Nat
  <2>1. Fed(fed, <<>>)
    BY <1>1, <1>4
  <2> QED  BY <1>4, <2>1, FedAll, LensFacts
<1>6. inner' = Tree[<<0, Total>>]
  <2>1. FinalOutput = Tree[<<initial * ChunkLen, initial * ChunkLen + fed>>]
    BY <1>1, <1>2, ForkInvFinal DEF FinalIsTree
  <2>2. initial * ChunkLen = 0 /\ 0 + fed = Total
    BY <1>4, <1>5, Lengths
  <2> QED  BY <1>1, <2>1, <2>2
<1>7. Total' = Total /\ NoCat' = NoCat
  BY <1>1, CallSame DEF NoCat
<1>8. Fed(wfed, parts)'
  <2>1. Fed(0, <<Prefix, Aad, Msg>>)
    BY DEF Fed
  <2> QED  BY <1>1, <1>3, <1>4, <2>1, FedWitness
<1> QED  BY <1>1, <1>2, <1>3, <1>4, <1>6, <1>7, <1>8 DEF TagInv

\* Feeding the witness's hasher
LEMMA FeedWitnessKeeps ==
  ASSUME TagInv, FeedWitness
  PROVE  TagInv'
<1>1. /\ forkVars' = forkVars /\ lens' = lens /\ cat' = cat /\ inner' = inner
      /\ pc = "witness" /\ pc' = pc /\ parts # <<>> /\ parts' = Tail(parts)
      /\ WitnessFeed(Head(parts))
  BY DEF FeedWitness
<1>2. ForkInv' /\ WitnessInv
  BY <1>1, ForkStays DEF TagInv
<1>3. initial' = initial
  BY <1>1 DEF forkVars
<1>4. /\ lens \in [aad : AadLens, msg : MsgLens] /\ initial = 0 /\ keyWords = "key"
      /\ Fed(wfed, parts) /\ cat = NoCat /\ inner = Tree[<<0, Total>>]
  BY <1>1 DEF TagInv
<1>5. Total \in Nat /\ Total <= MaxWitness /\ MaxWitness \in Nat
  BY <1>4, LensFacts, WitnessAssumption
<1>6. PICK z : /\ z \in Nat /\ wfed \in Nat /\ wfed <= z /\ z <= Total
               /\ Head(parts) = Bytes(wfed, z)
               /\ Fed(z, Tail(parts))
  BY <1>1, <1>4, Feeds DEF NextPart
<1>7. PICK n : n = z - wfed
  OBVIOUS
<1>8. n \in Nat /\ z = wfed + n /\ wfed + n <= MaxWitness
  BY <1>5, <1>6, <1>7
<1>9. WitnessFeed(Bytes(wfed, z))
  BY <1>1, <1>6
<1>10. WitnessInv'
  BY <1>2, <1>6, <1>8, <1>9, WitnessFeedKeeps
<1>11. Len(Bytes(wfed, z)) = n
  BY <1>6, <1>7, BytesList
<1>12. keyWords' = "key" /\ wfed' = z
  BY <1>4, <1>8, <1>9, <1>11 DEF WitnessFeed
<1>13. Fed(wfed, parts)'
  BY <1>1, <1>6, <1>12, FedWitness
<1>14. Total' = Total /\ NoCat' = NoCat
  BY <1>1, CallSame DEF NoCat
<1> QED  BY <1>1, <1>2, <1>3, <1>4, <1>10, <1>12, <1>13, <1>14 DEF TagInv

\* update of the witness's hasher at work
LEMMA WitnessWorksKeeps ==
  ASSUME TagInv, WitnessWorks
  PROVE  TagInv'
<1>1. /\ forkVars' = forkVars /\ lens' = lens /\ cat' = cat /\ inner' = inner
      /\ pc = "witness" /\ pc' = pc /\ parts' = parts
      /\ WitnessTurn
  BY DEF WitnessWorks
<1>2. ForkInv' /\ WitnessInv'
  BY <1>1, ForkStays, WitnessTurnKeeps DEF TagInv
<1>3. initial' = initial /\ keyWords' = keyWords /\ wfed' = wfed
  BY <1>1 DEF forkVars, WitnessTurn
<1>4. /\ lens \in [aad : AadLens, msg : MsgLens] /\ initial = 0 /\ keyWords = "key"
      /\ Fed(wfed, parts) /\ cat = NoCat /\ inner = Tree[<<0, Total>>]
  BY <1>1 DEF TagInv
<1>5. Fed(wfed, parts)'
  BY <1>1, <1>3, <1>4, FedWitness
<1>6. Total' = Total /\ NoCat' = NoCat
  BY <1>1, CallSame DEF NoCat
<1> QED  BY <1>1, <1>2, <1>3, <1>4, <1>5, <1>6 DEF TagInv

\* The witness's result, and the wipe
LEMMA WitnessDoneKeeps ==
  ASSUME TagInv, WitnessDone
  PROVE  TagInv'
<1>1. /\ forkVars' = forkVars /\ lens' = lens /\ cat' = cat /\ inner' = inner
      /\ pc = "witness" /\ pc' = "done" /\ parts = <<>>
      /\ again' = WitnessOutput /\ WipeState
  BY DEF WitnessDone
<1>2. ForkInv' /\ WitnessInv' /\ WitnessInv
  BY <1>1, ForkStays, WipeKeeps DEF TagInv
<1>3. initial' = initial
  BY <1>1 DEF forkVars
<1>4. /\ lens \in [aad : AadLens, msg : MsgLens] /\ initial = 0 /\ keyWords = "key"
      /\ Fed(wfed, parts) /\ cat = NoCat /\ inner = Tree[<<0, Total>>]
  BY <1>1 DEF TagInv
<1>5. again' = inner'
  <2>1. wfed = Total
    BY <1>1, <1>4, FedAll
  <2>2. winput = <<>>
    BY <1>1 DEF WipeState
  <2>3. WitnessOutput = Tree[<<0, wfed>>]
    BY <1>2, <1>4, <2>2, WitnessFinal
  <2> QED  BY <1>1, <1>4, <2>1, <2>3
<1>6. Total' = Total /\ NoCat' = NoCat
  BY <1>1, CallSame DEF NoCat
<1> QED  BY <1>1, <1>2, <1>3, <1>4, <1>5, <1>6 DEF TagInv

\* Another caller's fork hasher
LEMMA ApartKeeps ==
  ASSUME TagInv, Apart
  PROVE  TagInv'
<1>1. /\ witnessVars' = witnessVars /\ lens' = lens /\ cat' = cat
      /\ pc = "apart" /\ pc' = pc /\ ForkNext
  BY DEF Apart
<1>2. ForkInv' /\ WitnessInv'
  BY <1>1, ForkStep, WitnessStays DEF TagInv
<1>3. lens = [aad |-> 0, msg |-> 0] /\ cat = NoCat /\ NoCat' = NoCat
  BY <1>1 DEF TagInv, NoCat
<1> QED  BY <1>1, <1>2, <1>3 DEF TagInv

\* Nothing happens.
LEMMA StutterKeeps ==
  ASSUME TagInv, UNCHANGED tagVars
  PROVE  TagInv'
<1>1. /\ forkVars' = forkVars /\ witnessVars' = witnessVars /\ lens' = lens /\ pc' = pc
      /\ parts' = parts /\ cat' = cat /\ inner' = inner /\ again' = again
  BY DEF tagVars
<1>2. ForkInv' /\ WitnessInv'
  BY <1>1, ForkStays, WitnessStays DEF TagInv
<1>3. /\ initial' = initial /\ fed' = fed /\ keyWords' = keyWords /\ wfed' = wfed
  BY <1>1 DEF forkVars, witnessVars
<1>4. (InWindow' <=> InWindow) /\ Copied' = Copied /\ NoCat' = NoCat /\ Total' = Total
  BY <1>1, CallSame DEF NoCat
<1>5. (Fed(fed, parts) => Fed(fed, parts)') /\ (Fed(wfed, parts) => Fed(wfed, parts)')
  BY <1>1, <1>3, FedFork, FedWitness
<1> QED  BY <1>1, <1>2, <1>3, <1>4, <1>5 DEF TagInv

-----------------------------------------------------------------------------
\* The invariant of all steps
THEOREM HasherInvariant ==
  HasherSpec => []TagInv
<1>1. HasherInit => TagInv
  BY TagInvInit
<1>2. TagInv /\ [TagNext \/ Apart]_tagVars => TagInv'
  <2> SUFFICES ASSUME TagInv, [TagNext \/ Apart]_tagVars PROVE TagInv'
    OBVIOUS
  <2>1. CASE OutOfWindow \/ Reserved \/ ReserveRefused
    BY <2>1, WindowKeeps
  <2>2. CASE Copy
    BY <2>2, CopyKeeps
  <2>3. CASE FeedFork
    BY <2>3, FeedForkKeeps
  <2>4. CASE ForkWorks
    BY <2>4, ForkWorksKeeps
  <2>5. CASE ForkDone
    BY <2>5, ForkDoneKeeps
  <2>6. CASE FeedWitness
    BY <2>6, FeedWitnessKeeps
  <2>7. CASE WitnessWorks
    BY <2>7, WitnessWorksKeeps
  <2>8. CASE WitnessDone
    BY <2>8, WitnessDoneKeeps
  <2>9. CASE Apart
    BY <2>9, ApartKeeps
  <2>10. CASE UNCHANGED tagVars
    BY <2>10, StutterKeeps
  <2> QED
    BY <2>1, <2>2, <2>3, <2>4, <2>5, <2>6, <2>7, <2>8, <2>9, <2>10 DEF TagNext
<1> QED  BY <1>1, <1>2, PTL DEF HasherSpec

\* The state of the caller and of the hasher it calls: no push of the fork's hasher finds
\* its stack full, and the copy fits what was reserved.
THEOREM HasherTypes ==
  HasherSpec => []TagTypeOK
<1>1. TagInv => TagTypeOK
  <2> SUFFICES ASSUME TagInv PROVE TagTypeOK
    OBVIOUS
  <2>1. ForkTypeOK
    BY ForkInvType DEF TagInv
  <2>2. lens \in [aad : AadLens \cup {0}, msg : MsgLens \cup {0}]
    <3>1. CASE pc = "apart"
      BY <3>1 DEF TagInv
    <3>2. CASE pc # "apart"
      BY <3>2 DEF TagInv
    <3> QED  BY <3>1, <3>2
  <2>3. pc \in {"apart", "window", "copy", "fork", "witness", "done"}
    BY DEF TagInv
  <2>4. \/ cat = NoCat
        \/ /\ lens \in [aad : AadLens, msg : MsgLens] /\ InWindow
           /\ cat = [reserved |-> Total, bytes |-> <<>>] \/ cat = Copied
    BY DEF TagInv
  <2>5. ConcatLimit \in Nat /\ ConcatMin \in Nat
    BY TagAssumption
  <2>6. CASE cat = NoCat
    <3>1. cat.bytes = <<>> /\ cat.reserved = 0
      BY <2>6 DEF NoCat
    <3> QED  BY <2>1, <2>2, <2>3, <2>5, <3>1 DEF TagTypeOK
  <2>7. CASE /\ lens \in [aad : AadLens, msg : MsgLens] /\ InWindow
             /\ cat = [reserved |-> Total, bytes |-> <<>>] \/ cat = Copied
    <3>1. Total \in Nat /\ Total <= ConcatLimit /\ 0 \in Nat /\ 0 <= Total
      BY <2>5, <2>7, LensFacts DEF InWindow
    <3>2. Len(Bytes(0, Total)) = Total
      <4>1. Len(Bytes(0, Total)) = Total - 0
        BY <3>1, BytesList
      <4> QED  BY <3>1, <4>1
    <3>3. cat.reserved = Total /\ (cat.bytes = <<>> \/ cat.bytes = Bytes(0, Total))
      BY <2>7 DEF Copied
    <3>4. Len(cat.bytes) <= cat.reserved
      BY <3>1, <3>2, <3>3
    <3> QED  BY <2>1, <2>2, <2>3, <3>1, <3>3, <3>4 DEF TagTypeOK
  <2> QED  BY <2>4, <2>6, <2>7
<1> QED  BY <1>1, HasherInvariant, PTL

\* Whatever the splits over update calls, the SIMD degree, the offset and the resets: the
\* fork's hasher is finalized to the root of the tree over all it was given, and loses
\* no byte.
THEOREM FinalIsAlwaysTree ==
  HasherSpec => []FinalIsTree
<1>1. TagInv => FinalIsTree
  BY ForkInvFinal DEF TagInv
<1> QED  BY <1>1, HasherInvariant, PTL

\* A hasher that was started at an offset ends with a node of the tree over the whole.
THEOREM OffsetIsAlwaysNode ==
  HasherSpec => []OffsetIsNode
<1>1. TagInv => OffsetIsNode
  BY ForkInvNode DEF TagInv
<1> QED  BY <1>1, HasherInvariant, PTL

\* The main path and the witness end at the tree over head || aad || msg, both.
THEOREM TagsAlwaysAgree ==
  HasherSpec => []TagsAgree
<1>1. TagInv => TagsAgree
  BY DEF TagInv, TagsAgree
<1> QED  BY <1>1, HasherInvariant, PTL

\* The witness's stack has room, one value for every one-bit of the chunks, and nothing
\* past them, nor after the wipe.
THEOREM SlotsAreAlwaysLive ==
  HasherSpec => []SlotsAreLive
<1>1. TagInv => SlotsAreLive
  BY WitnessInvSlots DEF TagInv
<1> QED  BY <1>1, HasherInvariant, PTL
=============================================================================
