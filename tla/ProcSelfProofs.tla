--------------------------- MODULE ProcSelfProofs ---------------------------
(***************************************************************************)
(* For every name a process may give itself, every number of the kernel's, *)
(* every way the reads cut the file and any bound: locked_bytes closes its *)
(* descriptor and answers the number the kernel's own digits say, and      *)
(* deny_debugging has done what it says.                                   *)
(***************************************************************************)
EXTENDS ProcSelf, SequenceTheorems, FiniteSetTheorems, WellFoundedInduction, TLAPS

(* The inductive invariant. *)

TypeInv ==
  /\ dumpable \in 0..2 /\ before \in 0..2
  /\ pc \in [Threads -> {"idle", "read", "set"}]
  /\ pc[Owner] # "read" /\ pc[Reader] # "set"
  /\ DOMAIN answer = Threads
  /\ reading \in [buf : Seq(Symbols), tries : Nat, open : BOOLEAN, failed : BOOLEAN]

\* The file is the one a kernel writes, and what was read of it is its beginning.
FileInv ==
  /\ field \in Fields
  /\ file \in UNION {StatusFiles(name, field) : name \in Names}
  /\ Len(reading.buf) <= Len(file)
  /\ reading.buf = SubSeq(file, 1, Len(reading.buf))

\* A reading keeps its descriptor to itself, and has had no failure yet.
OpenInv == reading.open <=> At(Reader, "read")
QuietInv == At(Reader, "read") => ~reading.failed

\* Between the two calls of deny_debugging nobody else sets the flag.
PendingInv == At(Owner, "set") => dumpable = before

\* Whatever was read last was read to the end.
WholeInv ==
  answer[Reader].of = "locked_bytes" /\ At(Reader, "idle") =>
    answer[Reader].value = IF reading.failed THEN None ELSE Parse(file)

Inv ==
  /\ TypeInv /\ FileInv /\ OpenInv /\ QuietInv /\ PendingInv
  /\ DenialIsReal /\ WholeInv

\* What FieldIsReported says, with the parser's own arithmetic in the place of Charged
FieldIsRead ==
  answer[Reader].of = "locked_bytes" /\ At(Reader, "idle") =>
    answer[Reader].value = IF reading.failed \/ Number(field) = -1 THEN None
                           ELSE Limited(Number(field) * Kibi)

-----------------------------------------------------------------------------
(* Induction, and functions defined by recursion on 0..n *)

\* Every non-empty set of naturals has a least member.
LEMMA Least ==
  ASSUME NEW T, T \subseteq Nat, T # {}
  PROVE  \E m \in T : \A k \in T : m <= k
<1> DEFINE R == StrictSubsetOrdering(Nat)
           U == {0..n : n \in T}
<1>1. IsWellFoundedOn(R, FiniteSubsetsOf(Nat))
  BY FS_StrictSubsetOrderingWellFounded
<1>2. U \subseteq FiniteSubsetsOf(Nat) /\ U # {}
  <2>1. \A n \in Nat : IsFiniteSet(0..n)
    BY FS_Interval
  <2>2. \A n \in T : 0..n \in FiniteSubsetsOf(Nat)
    BY <2>1 DEF FiniteSubsetsOf
  <2> QED
    BY <2>2
<1>3. PICK x \in U : \A y \in U : ~(<<y, x>> \in R)
  <2> HIDE DEF R, U
  <2> QED
    BY <1>1, <1>2, WFMin
<1>4. PICK m \in T : x = 0..m
  OBVIOUS
<1>5. ASSUME NEW k \in T, k < m
      PROVE  FALSE
  <2>1. 0..k \subseteq 0..m /\ 0..k # 0..m /\ 0..k \in U
    <3>1. m \in 0..m /\ m \notin 0..k
      BY <1>5
    <3>2. 0..k \subseteq 0..m
      BY <1>5
    <3> QED
      BY <3>1, <3>2
  <2>2. <<0..k, 0..m>> \in (SUBSET Nat) \X (SUBSET Nat)
    OBVIOUS
  <2>3. <<0..k, 0..m>> \in R
    BY <2>1, <2>2 DEF StrictSubsetOrdering
  <2> QED
    BY <1>3, <1>4, <2>1, <2>3
<1> QED
  BY <1>5

\* What holds of zero, and of the next of all it holds of, holds of every natural.
LEMMA Induction ==
  ASSUME NEW S, 0 \in S, \A n \in Nat : n \in S => n + 1 \in S
  PROVE  Nat \subseteq S
<1> SUFFICES ASSUME Nat \ S # {} PROVE FALSE
  OBVIOUS
<1>1. PICK m \in Nat \ S : \A k \in Nat \ S : m <= k
  BY Least
<1>2. m - 1 \in Nat /\ m - 1 \in S
  BY <1>1
<1>3. (m - 1) + 1 = m
  OBVIOUS
<1> QED
  BY <1>1, <1>2, <1>3

\* f follows the recursion from start on, one G[k] for each step
Follows(f, n, start, G) ==
  /\ f = [k \in 0..n |-> f[k]]
  /\ f[0] = start
  /\ \A k \in 1..n : f[k] = G[k][f[k - 1]]

\* There is a function that does.
LEMMA Recursion ==
  ASSUME NEW n \in Nat, NEW V, NEW start \in V, NEW G \in [1..n -> [V -> V]]
  PROVE  \E f \in [0..n -> V] : Follows(f, n, start, G)
<1> DEFINE Works(f, m) == f[0] = start /\ \A k \in 1..m : f[k] = G[k][f[k - 1]]
           S == {m \in Nat : m <= n => \E f \in [0..m -> V] : Works(f, m)}
<1>1. 0 \in S
  <2> DEFINE f == [k \in 0..0 |-> start]
  <2>1. f \in [0..0 -> V] /\ Works(f, 0)
    OBVIOUS
  <2> QED
    BY <2>1
<1>2. ASSUME NEW m \in Nat, m \in S PROVE m + 1 \in S
  <2> SUFFICES ASSUME m + 1 <= n PROVE \E g \in [0..m + 1 -> V] : Works(g, m + 1)
    OBVIOUS
  <2>1. PICK f \in [0..m -> V] : Works(f, m)
    BY <1>2
  <2> DEFINE g == [k \in 0..m + 1 |-> IF k = m + 1 THEN G[k][f[m]] ELSE f[k]]
  <2>2. m \in 0..m /\ m + 1 \in 1..n /\ m + 1 \in 0..m + 1 /\ f[m] \in V
    OBVIOUS
  <2>3. g \in [0..m + 1 -> V]
    <3>1. G[m + 1] \in [V -> V]
      BY <2>2
    <3>2. \A k \in 0..m + 1 : k = m + 1 \/ k \in 0..m
      OBVIOUS
    <3> QED
      BY <2>2, <3>1, <3>2
  <2>4. g[0] = start
    BY <2>1
  <2>5. \A k \in 1..m : g[k] = f[k] /\ g[k - 1] = f[k - 1]
    OBVIOUS
  <2>6. g[m + 1] = G[m + 1][g[m]]
    BY <2>2
  <2>7. \A k \in 1..m + 1 : k \in 1..m \/ k = m + 1
    OBVIOUS
  <2>8. \A k \in 1..m + 1 : g[k] = G[k][g[k - 1]]
    <3> HIDE DEF g
    <3> TAKE k \in 1..m + 1
    <3>1. CASE k \in 1..m
      BY <2>1, <2>5, <3>1
    <3>2. CASE k = m + 1
      <4>1. (m + 1) - 1 = m
        OBVIOUS
      <4> QED
        BY <2>6, <3>2, <4>1
    <3> QED
      BY <2>7, <3>1, <3>2
  <2> HIDE DEF g
  <2> QED
    BY <2>3, <2>4, <2>8
<1>3. n \in S
  <2> HIDE DEF S
  <2> QED
    BY <1>1, <1>2, Induction
<1>4. PICK f \in [0..n -> V] : Works(f, n)
  BY <1>3
<1> QED
  BY <1>4 DEF Follows

\* f follows it as long as its values are in V.
FollowsWithin(f, n, V, start, G) ==
  /\ f = [k \in 0..n |-> f[k]]
  /\ f[0] = start
  /\ \A k \in 1..n : f[k - 1] \in V => f[k] = G[k][f[k - 1]]

\* And one that does so wherever it is in V is in V everywhere.
LEMMA FollowsInside ==
  ASSUME NEW n \in Nat, NEW V, NEW start \in V, NEW G \in [1..n -> [V -> V]], NEW f,
         FollowsWithin(f, n, V, start, G)
  PROVE  f \in [0..n -> V] /\ Follows(f, n, start, G)
<1> DEFINE T == {k \in Nat : k <= n => f[k] \in V}
<1>1. 0 \in T
  BY DEF FollowsWithin
<1>2. ASSUME NEW k \in Nat, k \in T PROVE k + 1 \in T
  <2> SUFFICES ASSUME k + 1 <= n PROVE f[k + 1] \in V
    OBVIOUS
  <2>1. f[k] \in V
    BY <1>2
  <2>2. k + 1 \in 1..n /\ (k + 1) - 1 = k
    OBVIOUS
  <2>3. f[k + 1] = G[k + 1][f[k]] /\ G[k + 1] \in [V -> V]
    BY <2>1, <2>2 DEF FollowsWithin
  <2> QED
    BY <2>1, <2>3
<1> HIDE DEF T
<1>3. Nat \subseteq T
  BY <1>1, <1>2, Induction
<1>4. \A k \in 0..n : f[k] \in V
  BY <1>3 DEF T
<1>5. \A k \in 1..n : k - 1 \in 0..n
  OBVIOUS
<1> QED
  BY <1>4, <1>5 DEF Follows, FollowsWithin

-----------------------------------------------------------------------------
(* What the digits say *)

\* checked_mul and checked_add of one digit
NumberStep(v, x) == IF v = -1 \/ Base * v + x > MaxU64 THEN -1 ELSE Base * v + x

\* Number, digit by digit
LEMMA NumberByDigits ==
  ASSUME ProcAssumption, NEW d \in Seq(Digits)
  PROVE  \E f \in [0..Len(d) -> Int] :
            /\ Number(d) = f[Len(d)]
            /\ f[0] = 0
            /\ \A k \in 1..Len(d) : f[k] = NumberStep(f[k - 1], d[k])
<1> DEFINE n == Len(d)
           value[k \in 0..Len(d)] ==
             IF k = 0 THEN 0
             ELSE IF value[k - 1] = -1 \/ Base * value[k - 1] + d[k] > MaxU64 THEN -1
             ELSE Base * value[k - 1] + d[k]
           G == [k \in 1..n |-> [v \in Int |-> NumberStep(v, d[k])]]
<1>1. Number(d) = value[n]
  BY DEF Number
<1>2. n \in Nat /\ 0 \in Int /\ G \in [1..n -> [Int -> Int]]
  <2>1. \A k \in 1..n : d[k] \in Int
    BY DEF Digits, ProcAssumption
  <2> QED
    BY <2>1 DEF NumberStep, ProcAssumption
<1>3. \A k \in 1..n : \A v \in Int : G[k][v] = NumberStep(v, d[k])
  OBVIOUS
<1>4. \A k \in 1..n : k - 1 \in 0..n /\ k \in 0..n /\ k # 0
  BY <1>2
<1> HIDE DEF G
<1>5. value = [k \in 0..n |-> IF k = 0 THEN 0
             ELSE IF value[k - 1] = -1 \/ Base * value[k - 1] + d[k] > MaxU64 THEN -1
             ELSE Base * value[k - 1] + d[k]]
  <2>1. PICK f \in [0..n -> Int] : Follows(f, n, 0, G)
    <3> HIDE DEF n, value
    <3> QED
      BY <1>2, Recursion
  <2>2. f = [k \in 0..n |-> IF k = 0 THEN 0
              ELSE IF f[k - 1] = -1 \/ Base * f[k - 1] + d[k] > MaxU64 THEN -1
              ELSE Base * f[k - 1] + d[k]]
    <3> HIDE DEF value, n
    <3>1. \A k \in 0..n : k = 0 \/ k \in 1..n
      BY <1>2
    <3>2. \A k \in 1..n : f[k] = NumberStep(f[k - 1], d[k])
      BY <1>3, <1>4, <2>1 DEF Follows
    <3>3. f[0] = 0 /\ f = [k \in 0..n |-> f[k]]
      BY <2>1 DEF Follows
    <3> QED
      BY <3>1, <3>2, <3>3 DEF NumberStep
  <2> QED
    BY <2>2
<1> DEFINE next(k) == IF k = 0 THEN 0
             ELSE IF value[k - 1] = -1 \/ Base * value[k - 1] + d[k] > MaxU64 THEN -1
             ELSE Base * value[k - 1] + d[k]
<1> HIDE DEF value, n, next
<1>6. /\ value = [k \in 0..n |-> value[k]] /\ value[0] = 0
      /\ \A k \in 1..n : value[k] = NumberStep(value[k - 1], d[k])
  <2>1. value = [k \in 0..n |-> value[k]] /\ \A k \in 0..n : value[k] = next(k)
    <3>1. value = [k \in 0..n |-> next(k)]
      BY <1>5 DEF next
    <3> QED
      BY <3>1
  <2>2. 0 \in 0..n /\ next(0) = 0
    BY <1>2 DEF next
  <2>3. \A k \in 1..n : next(k) = NumberStep(value[k - 1], d[k])
    BY <1>4 DEF next, NumberStep
  <2> QED
    BY <1>4, <2>1, <2>2, <2>3
<1>7. FollowsWithin(value, n, Int, 0, G)
  BY <1>3, <1>4, <1>6 DEF FollowsWithin
<1>8. value \in [0..n -> Int]
  BY <1>2, <1>7, FollowsInside
<1> QED
  BY <1>1, <1>6, <1>8 DEF n

\* Charged the same way
LEMMA ChargedByDigits ==
  ASSUME ProcAssumption, field \in Seq(Digits)
  PROVE  \E f \in [0..Len(field) -> Nat] :
            /\ Charged = f[Len(field)]
            /\ f[0] = 0
            /\ \A k \in 1..Len(field) : f[k] = Base * f[k - 1] + field[k]
<1> DEFINE n == Len(field)
           value[k \in 0..Len(field)] ==
             IF k = 0 THEN 0 ELSE Base * value[k - 1] + field[k]
           G == [k \in 1..n |-> [v \in Nat |-> Base * v + field[k]]]
<1>1. Charged = value[n]
  BY DEF Charged
<1>2. n \in Nat /\ 0 \in Nat /\ G \in [1..n -> [Nat -> Nat]]
  <2>1. \A k \in 1..n : field[k] \in Nat
    BY DEF Digits, ProcAssumption
  <2> QED
    BY <2>1 DEF ProcAssumption
<1>3. \A k \in 1..n : \A v \in Nat : G[k][v] = Base * v + field[k]
  OBVIOUS
<1>4. \A k \in 1..n : k - 1 \in 0..n /\ k \in 0..n /\ k # 0
  BY <1>2
<1> HIDE DEF G
<1>5. value = [k \in 0..n |-> IF k = 0 THEN 0 ELSE Base * value[k - 1] + field[k]]
  <2>1. PICK f \in [0..n -> Nat] : Follows(f, n, 0, G)
    <3> HIDE DEF n, value
    <3> QED
      BY <1>2, Recursion
  <2>2. f = [k \in 0..n |-> IF k = 0 THEN 0 ELSE Base * f[k - 1] + field[k]]
    <3> HIDE DEF value, n
    <3>1. \A k \in 0..n : k = 0 \/ k \in 1..n
      BY <1>2
    <3>2. \A k \in 1..n : f[k] = Base * f[k - 1] + field[k]
      BY <1>3, <1>4, <2>1 DEF Follows
    <3>3. f[0] = 0 /\ f = [k \in 0..n |-> f[k]]
      BY <2>1 DEF Follows
    <3> QED
      BY <3>1, <3>2, <3>3
  <2> QED
    BY <2>2
<1> DEFINE next(k) == IF k = 0 THEN 0 ELSE Base * value[k - 1] + field[k]
<1> HIDE DEF value, n, next
<1>6. /\ value = [k \in 0..n |-> value[k]] /\ value[0] = 0
      /\ \A k \in 1..n : value[k] = Base * value[k - 1] + field[k]
  <2>1. value = [k \in 0..n |-> value[k]] /\ \A k \in 0..n : value[k] = next(k)
    <3>1. value = [k \in 0..n |-> next(k)]
      BY <1>5 DEF next
    <3> QED
      BY <3>1
  <2>2. 0 \in 0..n /\ next(0) = 0
    BY <1>2 DEF next
  <2>3. \A k \in 1..n : next(k) = Base * value[k - 1] + field[k]
    BY <1>4 DEF next
  <2> QED
    BY <1>4, <2>1, <2>2, <2>3
<1>7. FollowsWithin(value, n, Nat, 0, G)
  BY <1>3, <1>4, <1>6 DEF FollowsWithin
<1>8. value \in [0..n -> Nat]
  BY <1>2, <1>7, FollowsInside
<1> QED
  BY <1>1, <1>6, <1>8 DEF n

\* Base * v + x only grows.
LEMMA StepGrows ==
  ASSUME ProcAssumption, NEW v \in Nat, NEW x \in Nat
  PROVE  Base * v + x \in Nat /\ Base * v + x >= v
<1>1. Base \in Nat /\ Base >= 1
  BY DEF ProcAssumption
<1>2. Base * v >= v
  <2>1. (Base - 1) * v >= 0 /\ Base - 1 \in Nat
    BY <1>1
  <2>2. Base * v = (Base - 1) * v + v
    BY <1>1
  <2> QED
    BY <1>1, <2>1, <2>2
<1> QED
  BY <1>1, <1>2

\* checked_mul and checked_add find out exactly the numbers that a u64 cannot hold.
LEMMA NumberIsCharged ==
  ASSUME ProcAssumption, field \in Seq(Digits)
  PROVE  Charged \in Nat /\ Number(field) = IF Charged > MaxU64 THEN -1 ELSE Charged
<1> DEFINE n == Len(field)
           Agree(v, w) == v = IF w > MaxU64 THEN -1 ELSE w
<1>1. PICK f \in [0..n -> Int] :
            /\ Number(field) = f[n] /\ f[0] = 0
            /\ \A k \in 1..n : f[k] = NumberStep(f[k - 1], field[k])
  BY NumberByDigits
<1>2. PICK g \in [0..n -> Nat] :
            /\ Charged = g[n] /\ g[0] = 0
            /\ \A k \in 1..n : g[k] = Base * g[k - 1] + field[k]
  BY ChargedByDigits
<1>3. n \in Nat /\ \A k \in 1..n : field[k] \in Nat
  BY DEF Digits, ProcAssumption
<1> HIDE DEF n
<1> DEFINE T == {k \in Nat : k <= n => Agree(f[k], g[k])}
<1>4. 0 \in T
  BY <1>1, <1>2 DEF ProcAssumption
<1>5. ASSUME NEW k \in Nat, k \in T PROVE k + 1 \in T
  <2> SUFFICES ASSUME k + 1 <= n PROVE Agree(f[k + 1], g[k + 1])
    OBVIOUS
  <2>1. k + 1 \in 1..n /\ (k + 1) - 1 = k /\ k \in 0..n /\ k <= n
    BY <1>3
  <2>2. /\ f[k + 1] = NumberStep(f[k], field[k + 1])
        /\ g[k + 1] = Base * g[k] + field[k + 1]
        /\ g[k] \in Nat /\ field[k + 1] \in Nat /\ Agree(f[k], g[k])
    BY <1>1, <1>2, <1>3, <1>5, <2>1
  <2>3. Base * g[k] + field[k + 1] >= g[k] /\ Base * g[k] + field[k + 1] \in Nat
    BY <2>2, StepGrows
  <2> DEFINE w == Base * g[k] + field[k + 1]
  <2>4. CASE g[k] > MaxU64
    <3>1. f[k] = -1
      BY <2>2, <2>4
    <3>2. w > MaxU64
      BY <2>2, <2>3, <2>4 DEF ProcAssumption
    <3>3. f[k + 1] = -1
      BY <2>2, <3>1 DEF NumberStep
    <3> QED
      BY <2>2, <3>2, <3>3
  <2>5. CASE ~(g[k] > MaxU64)
    <3>1. f[k] = g[k] /\ f[k] # -1
      BY <2>2, <2>5
    <3>2. f[k + 1] = IF w > MaxU64 THEN -1 ELSE w
      BY <2>2, <3>1 DEF NumberStep
    <3> QED
      BY <2>2, <3>2
  <2> QED
    BY <2>4, <2>5
<1> HIDE DEF T
<1>6. n \in T
  BY <1>3, <1>4, <1>5, Induction
<1>7. Agree(f[n], g[n]) /\ g[n] \in Nat
  BY <1>2, <1>3, <1>6 DEF T
<1> QED
  BY <1>1, <1>2, <1>7

-----------------------------------------------------------------------------
(* The status file *)

\* Two sequences one behind the other, by index
LEMMA ConcatByIndex ==
  ASSUME NEW S, NEW s \in Seq(S), NEW t \in Seq(S)
  PROVE  /\ s \o t \in Seq(S) /\ Len(s \o t) = Len(s) + Len(t)
         /\ \A i \in 1..Len(s) : (s \o t)[i] = s[i]
         /\ \A i \in 1..Len(t) : (s \o t)[Len(s) + i] = t[i]
<1>1. Len(s) \in Nat /\ Len(t) \in Nat
  OBVIOUS
<1>2. \A i \in 1..Len(t) : Len(s) + i \in 1..Len(s) + Len(t) /\ ~(Len(s) + i <= Len(s))
                          /\ (Len(s) + i) - Len(s) = i
  BY <1>1
<1>3. \A i \in 1..Len(s) : i \in 1..Len(s) + Len(t) /\ i <= Len(s)
  BY <1>1
<1> DEFINE st == s \o t
<1>4. /\ st \in Seq(S) /\ Len(st) = Len(s) + Len(t)
      /\ \A i \in 1..Len(s) + Len(t) : st[i] = IF i <= Len(s) THEN s[i] ELSE t[i - Len(s)]
  BY ConcatProperties
<1> HIDE DEF st
<1>5. /\ st \in Seq(S) /\ Len(st) = Len(s) + Len(t)
      /\ \A i \in 1..Len(s) : st[i] = s[i]
      /\ \A i \in 1..Len(t) : st[Len(s) + i] = t[i]
  BY <1>2, <1>3, <1>4
<1> QED
  BY <1>5 DEF st

\* A status file by index: where the line of the field is, and what is on it
FieldLine(f, at, d) ==
  /\ f \in Seq(Symbols) /\ Len(f) = at + Len(d) + 3
  /\ f[at - 1] = Lf /\ f[at] = Needle /\ f[at + 1] = Tab
  /\ \A i \in 1..Len(d) : f[at + 1 + i] = d[i]
  /\ f[at + Len(d) + 2] = Byte /\ f[at + Len(d) + 3] = Lf

\* In a status file it comes behind the name.
LEMMA FileByIndex ==
  ASSUME NEW n \in Seq(Symbols), NEW d \in Seq(Digits)
  PROVE  FieldLine(<<Byte>> \o n \o <<Lf, Needle, Tab>> \o d \o <<Byte, Lf>>, Len(n) + 3, d)
<1> DEFINE a == <<Byte>> \o n
           b == a \o <<Lf, Needle, Tab>>
           c == b \o d
           f == c \o <<Byte, Lf>>
<1>0. /\ d \in Seq(Symbols) /\ Len(n) \in Nat /\ Len(d) \in Nat
      /\ <<Byte>> \in Seq(Symbols) /\ <<Lf, Needle, Tab>> \in Seq(Symbols)
      /\ <<Byte, Lf>> \in Seq(Symbols)
  BY DEF Symbols
<1>1. a \in Seq(Symbols) /\ Len(a) = Len(n) + 1
  <2>1. a \in Seq(Symbols) /\ Len(a) = Len(<<Byte>>) + Len(n)
    BY <1>0, ConcatByIndex
  <2> QED  BY <1>0, <2>1
<1> HIDE DEF a
<1>2. /\ b \in Seq(Symbols) /\ Len(b) = Len(n) + 4
      /\ b[Len(n) + 2] = Lf /\ b[Len(n) + 3] = Needle /\ b[Len(n) + 4] = Tab
  <2> DEFINE x == <<Lf, Needle, Tab>>
  <2>1. /\ b \in Seq(Symbols) /\ Len(b) = Len(a) + Len(x)
        /\ \A i \in 1..Len(x) : b[Len(a) + i] = x[i]
    BY <1>0, <1>1, ConcatByIndex
  <2>2. Len(x) = 3 /\ x[1] = Lf /\ x[2] = Needle /\ x[3] = Tab
    OBVIOUS
  <2> HIDE DEF b, x
  <2>3. b[Len(a) + 1] = Lf /\ b[Len(a) + 2] = Needle /\ b[Len(a) + 3] = Tab
    BY <2>1, <2>2
  <2> QED  BY <1>0, <1>1, <2>1, <2>2, <2>3
<1> HIDE DEF b
<1>3. /\ c \in Seq(Symbols) /\ Len(c) = Len(n) + Len(d) + 4
      /\ c[Len(n) + 2] = Lf /\ c[Len(n) + 3] = Needle /\ c[Len(n) + 4] = Tab
      /\ \A i \in 1..Len(d) : c[Len(n) + 4 + i] = d[i]
  <2>1. /\ c \in Seq(Symbols) /\ Len(c) = Len(b) + Len(d)
        /\ \A i \in 1..Len(b) : c[i] = b[i]
        /\ \A i \in 1..Len(d) : c[Len(b) + i] = d[i]
    <3>1. b \in Seq(Symbols) /\ d \in Seq(Symbols)
      BY <1>0, <1>2
    <3> QED  BY <3>1, ConcatByIndex
  <2>2. Len(n) + 2 \in 1..Len(b) /\ Len(n) + 3 \in 1..Len(b) /\ Len(n) + 4 \in 1..Len(b)
    BY <1>0, <1>2
  <2> HIDE DEF c
  <2> QED  BY <1>0, <1>2, <2>1, <2>2
<1> HIDE DEF c
<1>4. /\ f \in Seq(Symbols) /\ Len(f) = Len(n) + Len(d) + 6
      /\ \A i \in 1..Len(c) : f[i] = c[i]
      /\ f[Len(n) + Len(d) + 5] = Byte /\ f[Len(n) + Len(d) + 6] = Lf
  <2> DEFINE x == <<Byte, Lf>>
  <2>1. /\ f \in Seq(Symbols) /\ Len(f) = Len(c) + Len(x)
        /\ \A i \in 1..Len(c) : f[i] = c[i]
        /\ \A i \in 1..Len(x) : f[Len(c) + i] = x[i]
    BY <1>0, <1>3, ConcatByIndex
  <2>2. Len(x) = 2 /\ x[1] = Byte /\ x[2] = Lf
    OBVIOUS
  <2> HIDE DEF f, x
  <2>3. f[Len(c) + 1] = Byte /\ f[Len(c) + 2] = Lf
    BY <2>1, <2>2
  <2> QED  BY <1>0, <1>3, <2>1, <2>2, <2>3
<1> HIDE DEF f
<1>5. \A i \in 1..Len(d) : Len(n) + 4 + i \in 1..Len(c)
  BY <1>0, <1>3
<1>6. Len(n) + 2 \in 1..Len(c) /\ Len(n) + 3 \in 1..Len(c) /\ Len(n) + 4 \in 1..Len(c)
  BY <1>0, <1>3
<1>7. FieldLine(f, Len(n) + 3, d)
  <2>1. \A i \in 1..Len(d) : f[Len(n) + 4 + i] = d[i]
    BY <1>3, <1>4, <1>5
  <2>2. f[Len(n) + 2] = Lf /\ f[Len(n) + 3] = Needle /\ f[Len(n) + 4] = Tab
    BY <1>3, <1>4, <1>6
  <2> QED  BY <1>0, <1>4, <2>1, <2>2 DEF FieldLine
<1> QED
  BY <1>7 DEF a, b, c, f

\* An escaped name is a name.
LEMMA EscapedIsName ==
  ASSUME NEW n \in Seq(Symbols)
  PROVE  Escaped(n) \in Seq(Symbols) /\ Len(Escaped(n)) = Len(n)
<1>1. \A i \in 1..Len(n) : n[i] \in Symbols
  OBVIOUS
<1>2. Escape \in Symbols
  BY DEF Symbols
<1> QED
  BY <1>1, <1>2 DEF Escaped

\* The first index that ends a run is the only one there is.
LEMMA SkipStopsAt ==
  ASSUME NEW S, NEW buf \in Seq(S), NEW kind,
         NEW i \in 1..Len(buf), NEW j \in i..Len(buf),
         \A k \in i..j - 1 : buf[k] \in kind,
         buf[j] \notin kind
  PROVE  SkipWhile(buf, i, kind) = j
<1> DEFINE Ends(e) == /\ \A k \in i..e - 1 : buf[k] \in kind
                      /\ e = Len(buf) + 1 \/ buf[e] \notin kind
<1>1. j \in i..Len(buf) + 1 /\ Ends(j)
  OBVIOUS
<1>2. ASSUME NEW e \in i..Len(buf) + 1, Ends(e)
      PROVE  e = j
  <2>1. CASE e < j
    BY <1>2, <2>1
  <2>2. CASE e > j
    BY <1>2, <2>2
  <2> QED  BY <2>1, <2>2
<1> QED
  BY <1>1, <1>2 DEF SkipWhile

\* parse_vmlck finds the digits of the last line, whatever is in front of it.
LEMMA ParseFindsField ==
  ASSUME ProcAssumption,
         NEW d \in Seq(Digits), d # <<>>,
         NEW f, NEW at \in Nat \ {0, 1}, FieldLine(f, at, d)
  PROVE  Parse(f) = IF Number(d) = -1 THEN None ELSE Limited(Number(d) * Kibi)
<1> DEFINE first == at + 2
           stop == at + Len(d) + 2
<1>0. Len(d) \in Nat /\ Len(d) >= 1 /\ \A i \in 1..Len(d) : d[i] \in Nat
  BY DEF ProcAssumption, Digits
<1>1. /\ f \in Seq(Symbols) /\ Len(f) = stop + 1
      /\ f[at - 1] = Lf /\ f[at] = Needle /\ f[at + 1] = Tab
      /\ \A i \in 1..Len(d) : f[first + i - 1] = d[i]
      /\ f[stop] = Byte /\ f[stop + 1] = Lf
  BY <1>0 DEF FieldLine
<1>2. \A k \in first..stop - 1 : f[k] = d[k - first + 1] /\ f[k] \in Digits
  <2> SUFFICES ASSUME NEW k \in first..stop - 1
               PROVE  f[k] = d[k - first + 1] /\ f[k] \in Digits
    OBVIOUS
  <2> DEFINE i == k - first + 1
  <2>1. i \in 1..Len(d) /\ k = first + i - 1
    BY <1>0
  <2>2. d[i] \in Digits
    BY <2>1
  <2> HIDE DEF i
  <2>3. f[k] = d[i]
    BY <1>1, <2>1
  <2> QED  BY <2>2, <2>3 DEF i
<1>3. at \in LineStarts(f)
  BY <1>0, <1>1 DEF LineStarts
<1>4. \A j \in LineStarts(f) : at >= j
  <2> SUFFICES ASSUME NEW j \in 1..Len(f), j > at
               PROVE  f[j] # Needle
    BY <1>0 DEF LineStarts
  <2>1. j = at + 1 \/ j \in first..stop - 1 \/ j = stop \/ j = stop + 1
    <3>1. Len(f) = stop + 1 /\ first = at + 2 /\ at \in Nat /\ stop \in Nat /\ j \in Nat
      BY <1>0, <1>1
    <3> HIDE DEF first, stop
    <3> QED  BY <3>1
  <2>2. CASE j \in first..stop - 1
    BY <1>0, <1>2, <2>2 DEF Needle, ProcAssumption, Digits
  <2> QED  BY <1>1, <2>1, <2>2 DEF Needle, Tab, Byte, Lf
<1>5. Parse(f) = FieldAt(f, at)
  <2>1. (CHOOSE i \in LineStarts(f) : \A j \in LineStarts(f) : i >= j) = at
    <3>1. \A i \in LineStarts(f) : i \in Nat
      BY <1>1 DEF LineStarts
    <3>3. \A i \in LineStarts(f) : (\A j \in LineStarts(f) : i >= j) <=> i = at
      <4> SUFFICES ASSUME NEW i \in LineStarts(f), \A j \in LineStarts(f) : i >= j
                   PROVE  i = at
        BY <1>4
      <4>1. i >= at /\ at >= i
        BY <1>3, <1>4
      <4> QED  BY <3>1, <4>1
    <3> QED  BY <1>3, <3>3
  <2> QED  BY <1>3, <2>1 DEF Parse
<1>6. SkipWhile(f, at + 1, {Space, Tab}) = first
  <2>1. f[first] \notin {Space, Tab}
    BY <1>0, <1>2 DEF Space, Tab, ProcAssumption, Digits
  <2>2. \A k \in at + 1..first - 1 : f[k] \in {Space, Tab}
    BY <1>0, <1>1
  <2>3. at + 1 \in 1..Len(f) /\ first \in at + 1..Len(f)
    BY <1>0, <1>1
  <2>4. f \in Seq(Symbols)
    BY <1>1
  <2> HIDE DEF first
  <2> QED  BY <2>1, <2>2, <2>3, <2>4, SkipStopsAt
<1>7. SkipWhile(f, first, Digits) = stop
  <2>1. f[stop] \notin Digits
    BY <1>1 DEF Byte, ProcAssumption, Digits
  <2>2. \A k \in first..stop - 1 : f[k] \in Digits
    BY <1>0, <1>2
  <2>3. first \in 1..Len(f) /\ stop \in first..Len(f)
    BY <1>0, <1>1
  <2>4. f \in Seq(Symbols)
    BY <1>1
  <2> HIDE DEF stop, first
  <2>5. SkipWhile(f, first, Digits) = stop
    BY <2>1, <2>2, <2>3, <2>4, SkipStopsAt
  <2> QED  BY <2>5
<1>8. SubSeq(f, first, stop - 1) = d
  <2>1. SubSeq(f, first, stop - 1) \in Seq(Symbols) /\ Len(SubSeq(f, first, stop - 1)) = Len(d)
    BY <1>0, <1>1
  <2>2. \A i \in 1..Len(d) : SubSeq(f, first, stop - 1)[i] = d[i]
    BY <1>0, <1>1
  <2>3. d \in Seq(Symbols)
    BY <1>0 DEF Symbols
  <2> QED  BY <2>1, <2>2, <2>3
<1>9. stop # first
  BY <1>0
<1> HIDE DEF first, stop
<1>10. FieldAt(f, at) = IF Number(d) = -1 THEN None ELSE Limited(Number(d) * Kibi)
  <2> DEFINE kb == Number(SubSeq(f, first, stop - 1))
  <2>1. kb = Number(d) /\ stop # first
    BY <1>8, <1>9
  <2>2. FieldAt(f, at) = IF stop = first \/ kb = -1 THEN None ELSE Limited(kb * Kibi)
    <3> HIDE DEF kb
    <3> QED  BY <1>6, <1>7, Zenon DEF FieldAt, kb
  <2> HIDE DEF kb
  <2> QED  BY <2>1, <2>2
<1> QED
  BY <1>5, <1>10

-----------------------------------------------------------------------------
(* The steps. *)

\* Every status file is a sequence, and the parser finds its field.
LEMMA FileIsParsed ==
  ASSUME ProcAssumption, FileInv
  PROVE  /\ file \in Seq(Symbols)
         /\ Parse(file) = IF Number(field) = -1 THEN None ELSE Limited(Number(field) * Kibi)
<1>1. PICK name \in Names : file \in StatusFiles(name, field)
  BY DEF FileInv
<1>2. PICK n \in {name, Escaped(name)} :
        file = <<Byte>> \o n \o <<Lf, Needle, Tab>> \o field \o <<Byte, Lf>>
  BY <1>1 DEF StatusFiles
<1>3. n \in Seq(Symbols) /\ field \in Seq(Digits) /\ field # <<>>
  BY EscapedIsName DEF ProcAssumption, FileInv
<1>4. FieldLine(file, Len(n) + 3, field)
  BY <1>2, <1>3, FileByIndex
<1>5. Len(n) + 3 \in Nat \ {0, 1}
  BY <1>3
<1>6. file \in Seq(Symbols)
  BY <1>4 DEF FieldLine
<1> QED
  BY <1>3, <1>4, <1>5, <1>6, ParseFindsField

\* The status file holds before any read.
LEMMA InitInv ==
  ASSUME ProcAssumption
  PROVE  Init => Inv
<1> SUFFICES ASSUME Init  PROVE Inv
  OBVIOUS
<1>1. TypeInv /\ OpenInv /\ QuietInv /\ PendingInv /\ DenialIsReal /\ WholeInv
  BY DEF Init, Closed, TypeInv, OpenInv, QuietInv, PendingInv, DenialIsReal, WholeInv, At,
         Threads, ProcAssumption
<1>2. PICK name \in Names : file \in StatusFiles(name, field)
  BY DEF Init
<1>3. PICK n \in {name, Escaped(name)} :
        file = <<Byte>> \o n \o <<Lf, Needle, Tab>> \o field \o <<Byte, Lf>>
  BY <1>2 DEF StatusFiles
<1>4. file \in Seq(Symbols)
  <2>1. n \in Seq(Symbols) /\ field \in Seq(Digits)
    BY EscapedIsName DEF ProcAssumption, Init
  <2> QED  BY <1>3, <2>1, FileByIndex DEF FieldLine
<1>5. FileInv
  <2>1. reading.buf = <<>> /\ Len(file) \in Nat
    BY <1>4 DEF Init, Closed
  <2> QED  BY <1>4, <2>1 DEF FileInv, Init
<1> QED
  BY <1>1, <1>5 DEF Inv

\* A reading of nothing is one, and the beginning of every file.
LEMMA NothingRead ==
  /\ \A open, failed \in BOOLEAN :
       [buf |-> <<>>, tries |-> 0, open |-> open, failed |-> failed]
         \in [buf : Seq(Symbols), tries : Nat, open : BOOLEAN, failed : BOOLEAN]
  /\ ProcAssumption /\ FileInv =>
       Len(<<>>) <= Len(file) /\ SubSeq(file, 1, Len(<<>>)) = <<>>
<1>1. <<>> \in Seq(Symbols) /\ Len(<<>>) = 0
  BY EmptySeq
<1>2. ASSUME ProcAssumption, FileInv
      PROVE  Len(<<>>) <= Len(file) /\ SubSeq(file, 1, Len(<<>>)) = <<>>
  <2>1. Len(file) \in Nat
    BY <1>2, FileIsParsed
  <2>2. SubSeq(file, 1, 0) = <<>>
    BY SubSeqEmpty
  <2> QED  BY <1>1, <2>1, <2>2
<1> QED
  BY <1>1, <1>2

\* A call of the reader that ends with no answer: the descriptor is closed and the
\* failure is remembered.
LEMMA ReaderGivesUp ==
  ASSUME ProcAssumption, Inv,
         reading' = [Closed EXCEPT !.failed = TRUE],
         Answer(Reader, "locked_bytes", None),
         UNCHANGED <<process, flag>>
  PROVE  Inv'
<1>1. reading' = [buf |-> <<>>, tries |-> 0, open |-> FALSE, failed |-> TRUE]
  BY DEF Closed
<1>2. reading' \in [buf : Seq(Symbols), tries : Nat, open : BOOLEAN, failed : BOOLEAN]
  BY <1>1, NothingRead
<1>3. FileInv'
  <2>1. file' = file /\ field' = field /\ reading'.buf = <<>>
    BY <1>1 DEF process
  <2>2. Len(<<>>) <= Len(file) /\ SubSeq(file, 1, Len(<<>>)) = <<>>
    BY NothingRead DEF Inv
  <2> QED  BY <2>1, <2>2, Zenon DEF Inv, FileInv
<1> USE DEF Inv, Threads, At, Goto, Answer, process, flag, ProcAssumption
<1>5. TypeInv'
  BY <1>2 DEF TypeInv
<1>4. OpenInv' /\ QuietInv' /\ WholeInv'
  BY <1>1 DEF TypeInv, OpenInv, QuietInv, WholeInv
<1>6. PendingInv' /\ DenialIsReal'
  BY DEF TypeInv, PendingInv, DenialIsReal
<1> QED
  BY <1>3, <1>4, <1>5, <1>6

\* locked_bytes: opening, interrupted and failing reads
LEMMA OpenStatusInv ==
  ASSUME ProcAssumption, Inv, OpenStatus
  PROVE  Inv'
<1>1. CASE reading' = [Closed EXCEPT !.failed = TRUE] /\ Answer(Reader, "locked_bytes", None)
  BY <1>1, ReaderGivesUp DEF OpenStatus
<1>2. CASE reading' = [Closed EXCEPT !.open = TRUE] /\ Goto(Reader, "read") /\ UNCHANGED answer
  <2> USE DEF Inv, Threads, At, Goto, process, flag, ProcAssumption, OpenStatus
  <2>1. reading' = [buf |-> <<>>, tries |-> 0, open |-> TRUE, failed |-> FALSE]
    BY <1>2 DEF Closed
  <2>2. TypeInv'
    <3>1. <<>> \in Seq(Symbols)
      OBVIOUS
    <3>2. reading' \in [buf : Seq(Symbols), tries : Nat, open : BOOLEAN, failed : BOOLEAN]
      BY <2>1, <3>1
    <3> QED  BY <1>2, <3>2 DEF TypeInv
  <2>3. FileInv'
    <3>1. file \in Seq(Symbols)
      BY FileIsParsed
    <3> QED  BY <2>1, <3>1 DEF FileInv
  <2>4. OpenInv' /\ QuietInv' /\ WholeInv'
    BY <1>2, <2>1 DEF TypeInv, OpenInv, QuietInv, WholeInv
  <2>5. PendingInv' /\ DenialIsReal'
    BY <1>2 DEF TypeInv, PendingInv, DenialIsReal
  <2> QED
    BY <2>2, <2>3, <2>4, <2>5
<1> QED
  BY <1>1, <1>2 DEF OpenStatus

\* A read that goes on: no thread moves, and the file's beginning is in the buffer.
LEMMA ReadGoesOn ==
  ASSUME ProcAssumption, Inv, At(Reader, "read"),
         NEW n \in Nat, n <= Len(file), NEW tries \in Nat,
         reading' = [reading EXCEPT !.buf = SubSeq(file, 1, n), !.tries = tries],
         UNCHANGED <<process, flag, pc, answer>>
  PROVE  Inv'
<1> USE DEF Inv, Threads, At, process, flag, ProcAssumption
<1>1. file \in Seq(Symbols)
  BY FileIsParsed
<1>2. SubSeq(file, 1, n) \in Seq(Symbols) /\ Len(SubSeq(file, 1, n)) = n
  BY <1>1
<1>3. TypeInv' /\ FileInv'
  BY <1>1, <1>2 DEF TypeInv, FileInv
<1>4. OpenInv' /\ QuietInv' /\ WholeInv'
  BY DEF TypeInv, OpenInv, QuietInv, WholeInv
<1>5. PendingInv' /\ DenialIsReal'
  BY DEF TypeInv, PendingInv, DenialIsReal
<1> QED
  BY <1>3, <1>4, <1>5

\* An interrupted read is tried again.
LEMMA InterruptedInv ==
  ASSUME ProcAssumption, Inv, Interrupted
  PROVE  Inv'
<1> DEFINE n == Len(reading.buf)
<1>1. /\ n \in Nat /\ n <= Len(file) /\ reading.buf = SubSeq(file, 1, n)
      /\ reading.tries + 1 \in Nat
  BY DEF Inv, TypeInv, FileInv
<1>2. reading' = [reading EXCEPT !.buf = SubSeq(file, 1, n), !.tries = reading.tries + 1]
  BY <1>1 DEF Interrupted, Inv, TypeInv
<1> QED
  BY <1>1, <1>2, ReadGoesOn DEF Interrupted

\* Any other failure ends the reading.
LEMMA ReadFailsInv ==
  ASSUME ProcAssumption, Inv, ReadFails
  PROVE  Inv'
BY ReaderGivesUp DEF ReadFails

\* A chunk is appended, or there is no room for it.
LEMMA ReadSomeInv ==
  ASSUME ProcAssumption, Inv, ReadSome
  PROVE  Inv'
<1>1. CASE RefuseStatus
  BY <1>1, ReaderGivesUp DEF ReadSome, RefuseStatus
<1>2. ASSUME NEW n \in 1..IF Left < ChunkLen THEN Left ELSE ChunkLen,
             reading' = [reading EXCEPT !.buf = SubSeq(file, 1, Len(reading.buf) + n),
                                        !.tries = 0],
             UNCHANGED <<pc, answer>>
      PROVE  Inv'
  <2>1. file \in Seq(Symbols) /\ Len(file) \in Nat /\ Len(reading.buf) \in Nat
        /\ Len(reading.buf) <= Len(file)
    BY FileIsParsed DEF Inv, TypeInv, FileInv
  <2>2. Len(reading.buf) + n \in Nat /\ Len(reading.buf) + n <= Len(file)
    BY <2>1 DEF Left, ProcAssumption
  <2> QED
    BY <1>2, <2>2, ReadGoesOn DEF ReadSome
<1> QED
  BY <1>1, <1>2 DEF ReadSome

\* Once nothing is left, what was read is the file.
LEMMA ReadEndsInv ==
  ASSUME ProcAssumption, Inv, ReadEnds
  PROVE  Inv'
<1> USE DEF Inv, Threads, At, Goto, Answer, process, flag, ProcAssumption, ReadEnds
<1>1. file \in Seq(Symbols)
  BY FileIsParsed
<1>2. reading.buf = file
  <2>1. Len(reading.buf) = Len(file)
    BY <1>1 DEF TypeInv, Left
  <2> QED  BY <1>1, <2>1, SubSeqFull DEF FileInv
<1>3. reading' = [buf |-> <<>>, tries |-> 0, open |-> FALSE, failed |-> FALSE]
  BY DEF Closed
<1>4. answer' = [answer EXCEPT ![Reader] = [of |-> "locked_bytes", value |-> Parse(file)]]
  BY <1>2
<1>5. TypeInv'
  BY <1>3 DEF TypeInv
<1>6. FileInv'
  BY <1>1, <1>3 DEF FileInv
<1>7. OpenInv' /\ QuietInv'
  BY <1>3 DEF TypeInv, OpenInv, QuietInv
<1>8. WholeInv'
  <2>1. answer'[Reader] = [of |-> "locked_bytes", value |-> Parse(file)]
    BY <1>4 DEF TypeInv
  <2>2. file' = file /\ reading'.failed = FALSE
    BY <1>3
  <2>3. Parse(file)' = Parse(file)
    BY <2>2 DEF Parse, FieldAt, LineStarts
  <2> QED  BY <2>1, <2>2, <2>3 DEF WholeInv
<1>9. PendingInv' /\ DenialIsReal'
  BY DEF TypeInv, PendingInv, DenialIsReal
<1> QED
  BY <1>5, <1>6, <1>7, <1>8, <1>9

\* A call that leaves the file and the reading alone keeps what is known of them.
LEMMA ReadingUntouched ==
  ASSUME ProcAssumption, Inv, UNCHANGED <<process, reading>>,
         UNCHANGED <<pc[Reader]>>,
         answer'[Reader] # answer[Reader] => answer'[Reader].of # "locked_bytes"
  PROVE  FileInv' /\ OpenInv' /\ QuietInv' /\ WholeInv'
BY DEF Inv, process, FileInv, OpenInv, QuietInv, WholeInv, At

\* is_dumpable
LEMMA IsDumpableInv ==
  ASSUME ProcAssumption, Inv, NEW t \in Threads, IsDumpable(t)
  PROVE  Inv'
<1> USE DEF Inv, Threads, At, Goto, flag, ProcAssumption
<1>1. PICK v : Answer(t, "is_dumpable", v)
  BY DEF IsDumpable
<1>2. /\ pc' = [pc EXCEPT ![t] = "idle"]
      /\ answer' = [answer EXCEPT ![t] = [of |-> "is_dumpable", value |-> v]]
      /\ At(t, "idle") /\ UNCHANGED <<process, flag, reading>>
  BY <1>1 DEF Answer, IsDumpable
<1>3. TypeInv'
  BY <1>2 DEF TypeInv
<1>4. FileInv' /\ OpenInv' /\ QuietInv' /\ WholeInv'
  <2>1. UNCHANGED pc[Reader]
    BY <1>2 DEF TypeInv
  <2>2. answer'[Reader] # answer[Reader] => answer'[Reader].of # "locked_bytes"
    BY <1>2 DEF TypeInv
  <2> QED  BY <1>2, <2>1, <2>2, ReadingUntouched
<1>5. PendingInv' /\ DenialIsReal'
  BY <1>2 DEF TypeInv, PendingInv, DenialIsReal
<1> QED
  BY <1>3, <1>4, <1>5

\* deny_debugging: what the flag was
LEMMA DenyGetInv ==
  ASSUME ProcAssumption, Inv, DenyGet
  PROVE  Inv'
<1> USE DEF Inv, Threads, At, Goto, Answer, ProcAssumption, DenyGet
<1>1. TypeInv'
  BY DEF TypeInv, DenialIsReal, Err
<1>2. FileInv' /\ OpenInv' /\ QuietInv' /\ WholeInv'
  <2>1. UNCHANGED pc[Reader] /\ UNCHANGED answer[Reader]
    BY DEF TypeInv
  <2> QED  BY <2>1, ReadingUntouched
<1>3. PendingInv' /\ DenialIsReal'
  BY DEF TypeInv, PendingInv, DenialIsReal, Err
<1> QED
  BY <1>1, <1>2, <1>3

\* deny_debugging: the new flag
LEMMA DenySetInv ==
  ASSUME ProcAssumption, Inv, DenySet
  PROVE  Inv'
<1> USE DEF Inv, Threads, At, Goto, Answer, ProcAssumption, DenySet
<1>1. TypeInv'
  BY DEF TypeInv, DenialIsReal, Err
<1>2. FileInv' /\ OpenInv' /\ QuietInv' /\ WholeInv'
  <2>1. UNCHANGED pc[Reader] /\ UNCHANGED answer[Reader]
    BY DEF TypeInv
  <2> QED  BY <2>1, ReadingUntouched
<1>3. PendingInv' /\ DenialIsReal'
  BY DEF TypeInv, PendingInv, DenialIsReal, Err
<1> QED
  BY <1>1, <1>2, <1>3

\* deny_debugging: the flag put back
LEMMA RestoreInv ==
  ASSUME ProcAssumption, Inv, Restore
  PROVE  Inv'
<1> USE DEF Inv, Threads, At, Goto, Answer, ProcAssumption, Restore
<1>1. TypeInv'
  BY DEF TypeInv, DenialIsReal, Err
<1>2. FileInv' /\ OpenInv' /\ QuietInv' /\ WholeInv'
  <2>1. UNCHANGED pc[Reader] /\ UNCHANGED answer[Reader]
    BY DEF TypeInv
  <2> QED  BY <2>1, ReadingUntouched
<1>3. PendingInv' /\ DenialIsReal'
  BY DEF TypeInv, PendingInv, DenialIsReal, Err
<1> QED
  BY <1>1, <1>2, <1>3

\* Every step, and every stutter, keeps the invariant.
LEMMA NextInv ==
  ASSUME ProcAssumption, Inv, [Next]_vars
  PROVE  Inv'
<1>1. CASE UNCHANGED vars
  BY <1>1 DEF vars, Inv, TypeInv, FileInv, OpenInv, QuietInv, PendingInv, DenialIsReal,
              WholeInv, At
<1>2. CASE Next
  BY <1>2, OpenStatusInv, InterruptedInv, ReadFailsInv, ReadSomeInv, ReadEndsInv,
     IsDumpableInv, DenyGetInv, DenySetInv, RestoreInv DEF Next, ReadStep
<1> QED
  BY <1>1, <1>2

-----------------------------------------------------------------------------
(* Theorems. *)

\* The inductive invariant, which TLC also checked on the small instance
THEOREM InvAlways == Spec => []Inv
<1>1. Init => Inv
  BY InitInv, ProcAssumption
<1>2. Inv /\ [Next]_vars => Inv'
  BY NextInv, ProcAssumption
<1> QED
  BY <1>1, <1>2, PTL DEF Spec

\* On every path out of locked_bytes, through any number of interrupted, failed or cut
\* reads, its descriptor is closed.
THEOREM ClosedAlways == Spec => []DescriptorIsClosed
<1>1. Inv => DescriptorIsClosed
  BY DEF Inv, OpenInv, DescriptorIsClosed, At
<1> QED
  BY <1>1, InvAlways, PTL

\* deny_debugging that says Ok has denied and says what was there before; one that says
\* Err has changed nothing; and no call of another thread comes between.
THEOREM DenialAlways == Spec => []DenialIsReal
<1>1. Inv => DenialIsReal
  BY DEF Inv
<1> QED
  BY <1>1, InvAlways, PTL

\* However the reads cut the file, and whatever lines the name of the process forges in
\* front of the kernel's, escaped or not: locked_bytes answers the number that the
\* kernel's own digits say, and None after a failure or when a u64 cannot hold it.
THEOREM FieldAlways == Spec => []FieldIsReported
<1>1. Inv => FieldIsReported
  <2> SUFFICES ASSUME Inv PROVE FieldIsReported
    OBVIOUS
  <2>1. FieldIsRead
    BY FileIsParsed, ProcAssumption DEF Inv, WholeInv, FieldIsRead
  <2>2. field \in Seq(Digits)
    BY ProcAssumption DEF Inv, FileInv, ProcAssumption
  <2>3. Charged \in Nat /\ Number(field) = IF Charged > MaxU64 THEN -1 ELSE Charged
    BY <2>2, NumberIsCharged, ProcAssumption
  <2>4. Number(field) = -1 <=> Charged > MaxU64
    BY <2>3
  <2> QED
    BY <2>1, <2>3, <2>4 DEF FieldIsRead, FieldIsReported
<1> QED
  BY <1>1, InvAlways, PTL

=============================================================================
