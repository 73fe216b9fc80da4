---------------------------- MODULE ChaChaProofs ----------------------------
(***************************************************************************)
(* The keystream of a message of any length, from any counter, through any *)
(* kernels, on any machine and by any number of threads: every byte is     *)
(* XORed with the keystream byte of its place, once; no keystream byte is  *)
(* used twice in a message; nothing of the key is left on the stack; and   *)
(* the AVX2 kernel runs where the CPU has it.                              *)
(*                                                                         *)
(* The kernels first: the vectors of SSE2, AVX2 and NEON, mixed, fed       *)
(* forward and transposed, are in every lane and from every counter the    *)
(* blocks of the witness, one for each counter that follows, wrapped to    *)
(* the width of the counter (KernelsAreRight).  Then what makes the loops  *)
(* inductive: a call that is not over stands at the first byte of a block, *)
(* with the counter of that block (Aligned).                               *)
(***************************************************************************)
EXTENDS ChaChaApply, SequenceTheorems, FiniteSetTheorems, TLAPS

-----------------------------------------------------------------------------
(* The invariant *)

Streams == {"Separate", "InPlace", "Keystream", "Witness"}

\* The output of a call when d of its n bytes are done
Written(start, n, input, d) ==
  [i \in 1..n |-> IF i <= d THEN Xor(Text(input), {KeyByte(start, i)}) ELSE Old(input)]

\* A call stands at a block's first byte, with its counter.
Aligned(call) ==
  \E q \in Nat : call.off = BlockLen * q /\ call.ctr = (call.start + q) % Values

IsRecord(call) ==
  call = [pc |-> call.pc, start |-> call.start, ctr |-> call.ctr, n |-> call.n,
          off |-> call.off, input |-> call.input, out |-> call.out, left |-> call.left]

\* The numbers of a call
Sizes(call) ==
  /\ call.start \in 0..Values - 1 /\ call.ctr \in 0..Values - 1
  /\ call.n \in Nat /\ call.n <= MaxMsg /\ call.off \in 0..call.n

Progress(call) ==
  /\ call.out = Written(call.start, call.n, call.input,
                        IF call.pc = "done" THEN call.n ELSE call.off)
  /\ call.pc = "done" \/ (call.pc = "witness" /\ call.off = call.n) \/ Aligned(call)

Wiped(call) ==
  call.left \subseteq (CASE call.pc = "eight" -> {"ks8"} [] call.pc = "four" -> {"ks4"}
                         [] OTHER -> {})

\* Who may be where
Placed(call) ==
  /\ call.pc \in {"load", "store", "eight", "four", "one", "witness", "done"}
  /\ call.pc \in {"load", "store", "eight"} => target = "x86_64"
  /\ call.pc = "eight" => Detect

Stream(call) ==
  /\ IsRecord(call) /\ call.input \in Streams
  /\ Sizes(call) /\ Progress(call) /\ Wiped(call) /\ Placed(call)

Derivation(call) ==
  /\ IsRecord(call) /\ call.input = "Subkey" /\ call.pc \in {"subkey", "derived"}
  /\ call.pc = "derived" => call.out = WitnessHChaCha20(SubkeyNonce)

Machine ==
  /\ cpu \in Cpus /\ target \in Targets /\ cache \in 0..2
  /\ cache = 2 => Detect

Threading ==
  /\ th = [t \in Threads |-> th[t]]
  /\ \A t \in Threads : th[t] = Idle \/ Stream(th[t]) \/ Derivation(th[t])

Inv == Machine /\ Threading

-----------------------------------------------------------------------------
(* The blocks of the witness *)

TenRounds == Rounds(Quarter)

\* Block d, by the witness
Block(d) ==
  [i \in 1..16 |-> << <<i - 1, State(d), TenRounds>>, State(d)[i - 1] >>]

-----------------------------------------------------------------------------
(* Short sequences *)

\* Two of four make one of eight.
LEMMA Join4 ==
  ASSUME NEW a, NEW b, NEW c, NEW d, NEW e, NEW f, NEW g, NEW h
  PROVE  <<a, b, c, d>> \o <<e, f, g, h>> = <<a, b, c, d, e, f, g, h>>
<1> DEFINE S == {a, b, c, d, e, f, g, h}
           s == <<a, b, c, d>>
           t == <<e, f, g, h>>
           u == <<a, b, c, d, e, f, g, h>>
           st == s \o t
<1>1. s \in Seq(S) /\ t \in Seq(S) /\ u \in Seq(S) /\ Len(s) = 4 /\ Len(t) = 4 /\ Len(u) = 8
  OBVIOUS
<1>2. /\ s[1] = u[1] /\ s[2] = u[2] /\ s[3] = u[3] /\ s[4] = u[4]
      /\ t[1] = u[5] /\ t[2] = u[6] /\ t[3] = u[7] /\ t[4] = u[8]
  OBVIOUS
<1> HIDE DEF S, s, t, u
<1>3. /\ st \in Seq(S) /\ Len(st) = 4 + 4
      /\ \A i \in 1..4 + 4 : st[i] = IF i <= 4 THEN s[i] ELSE t[i - 4]
  <2>1. /\ st \in Seq(S) /\ Len(st) = Len(s) + Len(t)
        /\ \A i \in 1..Len(s) + Len(t) : st[i] = IF i <= Len(s) THEN s[i] ELSE t[i - Len(s)]
    BY <1>1, ConcatProperties
  <2> HIDE DEF st
  <2> QED  BY <1>1, <2>1
<1> HIDE DEF st
<1>4. \A i \in 1..8 : st[i] = u[i]
  BY <1>2, <1>3
<1>5. Len(st) = Len(u) /\ \A i \in 1..Len(st) : st[i] = u[i]
  BY <1>1, <1>3, <1>4
<1>6. st = u
  BY <1>1, <1>3, <1>5, SeqEqual
<1> QED
  BY <1>6 DEF st, s, t, u

\* A sequence of sixteen by its members
LEMMA SixteenByIndex ==
  ASSUME NEW F, NEW s, NEW S, s \in Seq(S), Len(s) = 16, F = [i \in 1..16 |-> F[i]],
         \A i \in 1..16 : s[i] = F[i]
  PROVE  s = F
OBVIOUS

\* Two of eight make sixteen.
LEMMA Join8 ==
  ASSUME NEW F, F = [i \in 1..16 |-> F[i]]
  PROVE  <<F[1], F[2], F[3], F[4], F[5], F[6], F[7], F[8]>>
           \o <<F[9], F[10], F[11], F[12], F[13], F[14], F[15], F[16]>> = F
<1> DEFINE S == {F[i] : i \in 1..16}
           s == <<F[1], F[2], F[3], F[4], F[5], F[6], F[7], F[8]>>
           t == <<F[9], F[10], F[11], F[12], F[13], F[14], F[15], F[16]>>
           st == s \o t
<1>1. s \in Seq(S) /\ t \in Seq(S) /\ Len(s) = 8 /\ Len(t) = 8
  OBVIOUS
<1>2. /\ \A i \in 1..8 : s[i] = F[i]
      /\ \A i \in 1..8 : t[i] = F[i + 8]
  OBVIOUS
<1> HIDE DEF S, s, t
<1>3. /\ st \in Seq(S) /\ Len(st) = 16
      /\ \A i \in 1..16 : st[i] = IF i <= 8 THEN s[i] ELSE t[i - 8]
  <2>1. /\ st \in Seq(S) /\ Len(st) = Len(s) + Len(t)
        /\ \A i \in 1..Len(s) + Len(t) : st[i] = IF i <= Len(s) THEN s[i] ELSE t[i - Len(s)]
    BY <1>1, ConcatProperties
  <2> HIDE DEF st
  <2> QED  BY <1>1, <2>1
<1> HIDE DEF st
<1>4. \A i \in 1..16 : st[i] = F[i]
  <2> TAKE i \in 1..16
  <2>1. CASE i <= 8
    BY <1>2, <1>3, <2>1
  <2>2. CASE ~(i <= 8)
    <3>1. i - 8 \in 1..8 /\ (i - 8) + 8 = i
      BY <2>2
    <3> QED  BY <1>2, <1>3, <2>2, <3>1
  <2> QED  BY <2>1, <2>2
<1>5. st = F
  BY <1>3, <1>4, SixteenByIndex
<1> QED
  BY <1>5 DEF st, s, t

\* The halves of a sequence of eight
LEMMA Halves ==
  ASSUME NEW s
  PROVE  /\ SubSeq(s, 1, 4) = <<s[1], s[2], s[3], s[4]>>
         /\ SubSeq(s, 5, 8) = <<s[5], s[6], s[7], s[8]>>
<1> DEFINE S == {s[i] : i \in 1..8}
           a == SubSeq(s, 1, 4)
           b == SubSeq(s, 5, 8)
<1>1. /\ a \in Seq(S) /\ Len(a) = 4
      /\ \A i \in 1..4 : a[i] = s[i]
  <2>1. \A i \in 1..4 : s[i] \in S
    OBVIOUS
  <2> HIDE DEF S
  <2>2. /\ a \in Seq(S) /\ Len(a) = IF 1 <= 4 THEN 4 - 1 + 1 ELSE 0
        /\ \A i \in 1..4 - 1 + 1 : a[i] = s[1 + i - 1]
    BY <2>1, SubSeqProperties
  <2> HIDE DEF a
  <2> QED  BY <2>2
<1>2. /\ b \in Seq(S) /\ Len(b) = 4
      /\ \A i \in 1..4 : b[i] = s[4 + i]
  <2>1. \A i \in 5..8 : s[i] \in S
    OBVIOUS
  <2> HIDE DEF S
  <2>2. /\ b \in Seq(S) /\ Len(b) = IF 5 <= 8 THEN 8 - 5 + 1 ELSE 0
        /\ \A i \in 1..8 - 5 + 1 : b[i] = s[5 + i - 1]
    BY <2>1, SubSeqProperties
  <2> HIDE DEF b
  <2> QED  BY <2>2
<1> HIDE DEF a, b, S
<1>3. a = <<a[1], a[2], a[3], a[4]>> /\ b = <<b[1], b[2], b[3], b[4]>>
  BY <1>1, <1>2
<1> QED
  BY <1>1, <1>2, <1>3 DEF a, b

-----------------------------------------------------------------------------
(* Transposition *)

\* A square of four, transposed
LEMMA Transposed4 ==
  ASSUME NEW m, \A j \in 1..4 : Len(m[j]) = 4
  PROVE  Transpose4x4(m) =
           << <<m[1][1], m[2][1], m[3][1], m[4][1]>>, <<m[1][2], m[2][2], m[3][2], m[4][2]>>,
              <<m[1][3], m[2][3], m[3][3], m[4][3]>>, <<m[1][4], m[2][4], m[3][4], m[4][4]>> >>
<1>1. Len(m[1]) = 4 /\ Len(m[2]) = 4 /\ Len(m[3]) = 4 /\ Len(m[4]) = 4
  OBVIOUS
<1> QED
  BY <1>1 DEF Transpose4x4, UnpackLo32, UnpackHi32, UnpackLo64, UnpackHi64, PerHalf

\* The unpacks on vectors of eight
LEMMA Unpacked8 ==
  ASSUME NEW a, NEW b, Len(a) = 8
  PROVE  /\ UnpackLo32(a, b) = <<a[1], b[1], a[2], b[2], a[5], b[5], a[6], b[6]>>
         /\ UnpackHi32(a, b) = <<a[3], b[3], a[4], b[4], a[7], b[7], a[8], b[8]>>
         /\ UnpackLo64(a, b) = <<a[1], a[2], b[1], b[2], a[5], a[6], b[5], b[6]>>
         /\ UnpackHi64(a, b) = <<a[3], a[4], b[3], b[4], a[7], a[8], b[7], b[8]>>
<1>1. /\ UnpackLo32(a, b) = <<a[1], b[1], a[2], b[2]>> \o <<a[5], b[5], a[6], b[6]>>
      /\ UnpackHi32(a, b) = <<a[3], b[3], a[4], b[4]>> \o <<a[7], b[7], a[8], b[8]>>
      /\ UnpackLo64(a, b) = <<a[1], a[2], b[1], b[2]>> \o <<a[5], a[6], b[5], b[6]>>
      /\ UnpackHi64(a, b) = <<a[3], a[4], b[3], b[4]>> \o <<a[7], a[8], b[7], b[8]>>
  BY Halves DEF UnpackLo32, UnpackHi32, UnpackLo64, UnpackHi64, PerHalf
<1> QED
  BY <1>1, Join4

\* Both halves of four vectors of eight, transposed side by side
LEMMA Transposed4x8 ==
  ASSUME NEW m, \A j \in 1..4 : Len(m[j]) = 8
  PROVE  Transpose4x4(m) =
           << <<m[1][1], m[2][1], m[3][1], m[4][1], m[1][5], m[2][5], m[3][5], m[4][5]>>,
              <<m[1][2], m[2][2], m[3][2], m[4][2], m[1][6], m[2][6], m[3][6], m[4][6]>>,
              <<m[1][3], m[2][3], m[3][3], m[4][3], m[1][7], m[2][7], m[3][7], m[4][7]>>,
              <<m[1][4], m[2][4], m[3][4], m[4][4], m[1][8], m[2][8], m[3][8], m[4][8]>> >>
<1> DEFINE s0 == <<m[1][1], m[2][1], m[1][2], m[2][2], m[1][5], m[2][5], m[1][6], m[2][6]>>
           s1 == <<m[1][3], m[2][3], m[1][4], m[2][4], m[1][7], m[2][7], m[1][8], m[2][8]>>
           s2 == <<m[3][1], m[4][1], m[3][2], m[4][2], m[3][5], m[4][5], m[3][6], m[4][6]>>
           s3 == <<m[3][3], m[4][3], m[3][4], m[4][4], m[3][7], m[4][7], m[3][8], m[4][8]>>
<1>1. Len(m[1]) = 8 /\ Len(m[2]) = 8 /\ Len(m[3]) = 8 /\ Len(m[4]) = 8
  OBVIOUS
<1>2. /\ UnpackLo32(m[1], m[2]) = s0 /\ UnpackHi32(m[1], m[2]) = s1
      /\ UnpackLo32(m[3], m[4]) = s2 /\ UnpackHi32(m[3], m[4]) = s3
  BY <1>1, Unpacked8
<1>3. Len(s0) = 8 /\ Len(s1) = 8 /\ Len(s2) = 8 /\ Len(s3) = 8
  OBVIOUS
<1>4. Transpose4x4(m) = <<UnpackLo64(s0, s2), UnpackHi64(s0, s2),
                          UnpackLo64(s1, s3), UnpackHi64(s1, s3)>>
  <2> HIDE DEF s0, s1, s2, s3
  <2> QED  BY <1>2 DEF Transpose4x4
<1>5. UnpackLo64(s0, s2) =
        <<m[1][1], m[2][1], m[3][1], m[4][1], m[1][5], m[2][5], m[3][5], m[4][5]>>
  BY <1>3, Unpacked8
<1>6. UnpackHi64(s0, s2) =
        <<m[1][2], m[2][2], m[3][2], m[4][2], m[1][6], m[2][6], m[3][6], m[4][6]>>
  BY <1>3, Unpacked8
<1>7. UnpackLo64(s1, s3) =
        <<m[1][3], m[2][3], m[3][3], m[4][3], m[1][7], m[2][7], m[3][7], m[4][7]>>
  BY <1>3, Unpacked8
<1>8. UnpackHi64(s1, s3) =
        <<m[1][4], m[2][4], m[3][4], m[4][4], m[1][8], m[2][8], m[3][8], m[4][8]>>
  BY <1>3, Unpacked8
<1> HIDE DEF s0, s1, s2, s3
<1> QED
  BY <1>4, <1>5, <1>6, <1>7, <1>8

\* A square of eight, transposed
LEMMA Transposed8 ==
  ASSUME NEW m, \A j \in 1..8 : Len(m[j]) = 8, NEW k \in 1..8
  PROVE  Transpose8x8(m)[k] = <<m[1][k], m[2][k], m[3][k], m[4][k],
                                m[5][k], m[6][k], m[7][k], m[8][k]>>
<1> DEFINE lo == SubSeq(m, 1, 4)
           hi == SubSeq(m, 5, 8)
           s == Transpose4x4(lo) \o Transpose4x4(hi)
<1>1. /\ lo[1] = m[1] /\ lo[2] = m[2] /\ lo[3] = m[3] /\ lo[4] = m[4]
      /\ hi[1] = m[5] /\ hi[2] = m[6] /\ hi[3] = m[7] /\ hi[4] = m[8]
  BY Halves
<1>2. (\A j \in 1..4 : Len(lo[j]) = 8) /\ \A j \in 1..4 : Len(hi[j]) = 8
  <2> HIDE DEF lo, hi
  <2> QED  BY <1>1
<1> HIDE DEF lo, hi
<1>3. Transpose4x4(lo) =
        << <<m[1][1], m[2][1], m[3][1], m[4][1], m[1][5], m[2][5], m[3][5], m[4][5]>>,
           <<m[1][2], m[2][2], m[3][2], m[4][2], m[1][6], m[2][6], m[3][6], m[4][6]>>,
           <<m[1][3], m[2][3], m[3][3], m[4][3], m[1][7], m[2][7], m[3][7], m[4][7]>>,
           <<m[1][4], m[2][4], m[3][4], m[4][4], m[1][8], m[2][8], m[3][8], m[4][8]>> >>
  BY <1>1, <1>2, Transposed4x8
<1>4. Transpose4x4(hi) =
        << <<m[5][1], m[6][1], m[7][1], m[8][1], m[5][5], m[6][5], m[7][5], m[8][5]>>,
           <<m[5][2], m[6][2], m[7][2], m[8][2], m[5][6], m[6][6], m[7][6], m[8][6]>>,
           <<m[5][3], m[6][3], m[7][3], m[8][3], m[5][7], m[6][7], m[7][7], m[8][7]>>,
           <<m[5][4], m[6][4], m[7][4], m[8][4], m[5][8], m[6][8], m[7][8], m[8][8]>> >>
  BY <1>1, <1>2, Transposed4x8
<1> DEFINE A(j) == <<m[1][j], m[2][j], m[3][j], m[4][j],
                     m[1][j + 4], m[2][j + 4], m[3][j + 4], m[4][j + 4]>>
           B(j) == <<m[5][j], m[6][j], m[7][j], m[8][j],
                     m[5][j + 4], m[6][j + 4], m[7][j + 4], m[8][j + 4]>>
<1>5. \A j \in 1..4 : s[j] = A(j) /\ s[j + 4] = B(j)
  <2>1. s = <<A(1), A(2), A(3), A(4), B(1), B(2), B(3), B(4)>>
    BY <1>3, <1>4, Join4
  <2> HIDE DEF A, B, s
  <2> QED  BY <2>1
<1>6. \A j \in 1..4 : /\ Permute2x128(s[j], s[j + 4], 2, 0) =
                           <<m[1][j], m[2][j], m[3][j], m[4][j],
                             m[5][j], m[6][j], m[7][j], m[8][j]>>
                      /\ Permute2x128(s[j], s[j + 4], 3, 1) =
                           <<m[1][j + 4], m[2][j + 4], m[3][j + 4], m[4][j + 4],
                             m[5][j + 4], m[6][j + 4], m[7][j + 4], m[8][j + 4]>>
  <2> SUFFICES ASSUME NEW j \in 1..4, NEW a, NEW b, a = A(j), b = B(j)
               PROVE  /\ Permute2x128(a, b, 2, 0) =
                           <<m[1][j], m[2][j], m[3][j], m[4][j],
                             m[5][j], m[6][j], m[7][j], m[8][j]>>
                      /\ Permute2x128(a, b, 3, 1) =
                           <<m[1][j + 4], m[2][j + 4], m[3][j + 4], m[4][j + 4],
                             m[5][j + 4], m[6][j + 4], m[7][j + 4], m[8][j + 4]>>
    BY <1>5
  <2>1. /\ Permute2x128(a, b, 2, 0) = SubSeq(a, 1, 4) \o SubSeq(b, 1, 4)
        /\ Permute2x128(a, b, 3, 1) = SubSeq(a, 5, 8) \o SubSeq(b, 5, 8)
    BY DEF Permute2x128
  <2>2. /\ Permute2x128(a, b, 2, 0) = <<a[1], a[2], a[3], a[4], b[1], b[2], b[3], b[4]>>
        /\ Permute2x128(a, b, 3, 1) = <<a[5], a[6], a[7], a[8], b[5], b[6], b[7], b[8]>>
    BY <2>1, Halves, Join4
  <2>3. /\ a[1] = m[1][j] /\ a[2] = m[2][j] /\ a[3] = m[3][j] /\ a[4] = m[4][j]
        /\ b[1] = m[5][j] /\ b[2] = m[6][j] /\ b[3] = m[7][j] /\ b[4] = m[8][j]
        /\ a[5] = m[1][j + 4] /\ a[6] = m[2][j + 4] /\ a[7] = m[3][j + 4] /\ a[8] = m[4][j + 4]
        /\ b[5] = m[5][j + 4] /\ b[6] = m[6][j + 4] /\ b[7] = m[7][j + 4] /\ b[8] = m[8][j + 4]
    OBVIOUS
  <2> QED
    BY <2>2, <2>3
<1>7. Transpose8x8(m) = [i \in 1..8 |-> IF i <= 4 THEN Permute2x128(s[i], s[i + 4], 2, 0)
                                       ELSE Permute2x128(s[i - 4], s[i], 3, 1)]
  BY DEF Transpose8x8, lo, hi
<1> HIDE DEF s, A, B
<1>8. CASE k <= 4
  <2>1. k \in 1..4
    BY <1>8
  <2> QED  BY <1>6, <1>7, <1>8, <2>1
<1>9. CASE ~(k <= 4)
  <2> DEFINE j == k - 4
  <2>1. j \in 1..4 /\ k = j + 4
    BY <1>9
  <2>2. Transpose8x8(m)[k] = Permute2x128(s[j], s[k], 3, 1)
    BY <1>7, <1>9
  <2> HIDE DEF j
  <2> QED  BY <1>6, <2>1, <2>2
<1> QED
  BY <1>8, <1>9

-----------------------------------------------------------------------------
(* States and their names *)

\* The counter is word 12 of the initial state, and nothing else is of it.
LEMMA StateByWord ==
  ASSUME NEW c \in Int
  PROVE  /\ State(c) = [i \in Words |-> State(c)[i]]
         /\ State(c)[12] = Counter(c)
         /\ \A d \in Int, i \in Words : i # 12 => State(c)[i] = State(d)[i]
<1> DEFINE Last(d) == <<Counter(d)>> \o Nonce
           Word(last, i) == CASE i < 4 -> <<"constant", i>>
                              [] i \in 4..11 -> <<"key", i - 4>>
                              [] OTHER -> last[i - 11]
<1>1. ASSUME NEW x
      PROVE  /\ (<<x>> \o Nonce)[1] = x
             /\ \A k \in 2..4 : (<<x>> \o Nonce)[k] = Nonce[k - 1]
  <2> DEFINE S == {x, Nonce[1], Nonce[2], Nonce[3]}
             s == <<x>>
             st == s \o Nonce
  <2>1. s \in Seq(S) /\ Nonce \in Seq(S) /\ Len(s) = 1 /\ Len(Nonce) = 3 /\ s[1] = x
    BY DEF Nonce
  <2> HIDE DEF S, s
  <2>2. \A i \in 1..Len(s) + Len(Nonce) : st[i] = IF i <= Len(s) THEN s[i] ELSE Nonce[i - Len(s)]
    BY <2>1, ConcatProperties
  <2> HIDE DEF st
  <2>3. \A i \in 1..4 : st[i] = IF i <= 1 THEN s[i] ELSE Nonce[i - 1]
    BY <2>1, <2>2
  <2>4. st[1] = x /\ \A k \in 2..4 : st[k] = Nonce[k - 1]
    BY <2>1, <2>3
  <2> QED  BY <2>4 DEF s, st
<1>2. \A d : Last(d)[1] = Counter(d) /\ \A k \in 2..4 : Last(d)[k] = Nonce[k - 1]
  BY <1>1
<1>3. \A d : State(d) = [i \in Words |-> Word(Last(d), i)]
  BY Zenon DEF State, StateWords
<1>4. \A last : \A i \in Words : i \notin {12, 13, 14, 15} => Word(last, i) = Word(<<>>, i)
  <2> SUFFICES ASSUME NEW last, NEW i \in Words, i \notin {12, 13, 14, 15}
               PROVE  Word(last, i) = Word(<<>>, i)
    OBVIOUS
  <2>1. i < 4 \/ i \in 4..11
    BY DEF Words
  <2> QED  BY <2>1
<1>5. \A last : \A i \in {12, 13, 14, 15} : Word(last, i) = last[i - 11]
  <2> SUFFICES ASSUME NEW last, NEW i \in {12, 13, 14, 15}
               PROVE  Word(last, i) = last[i - 11]
    OBVIOUS
  <2>1. ~(i < 4) /\ i \notin 4..11
    OBVIOUS
  <2> QED  BY <2>1
<1> HIDE DEF Word, Last
<1>6. \A d : \A i \in Words : State(d)[i] = Word(Last(d), i)
  BY <1>3
<1>7. State(c)[12] = Counter(c)
  <2>1. 12 \in Words /\ 12 - 11 = 1
    BY DEF Words
  <2> QED  BY <1>2, <1>5, <1>6, <2>1
<1>8. ASSUME NEW d \in Int, NEW i \in Words, i # 12
      PROVE  State(c)[i] = State(d)[i]
  <2>1. CASE i \notin {12, 13, 14, 15}
    BY <1>4, <1>6, <2>1
  <2>2. CASE i \in {13, 14, 15}
    <3>1. i - 11 \in 2..4
      BY <2>2
    <3> QED  BY <1>2, <1>5, <1>6, <2>2, <3>1
  <2> QED  BY <1>8, <2>1, <2>2
<1>9. State(c) = [i \in Words |-> State(c)[i]]
  BY <1>3, <1>6
<1> QED
  BY <1>7, <1>8, <1>9

\* A counter and what it wraps to are loaded alike.
LEMMA StateWraps ==
  ASSUME ValuesAssumption, NEW c \in Int
  PROVE  State(c % Values) = State(c)
<1>1. c % Values \in 0..Values - 1
  BY DEF ValuesAssumption
<1>2. (c % Values) % Values = c % Values
  <2> DEFINE r == c % Values
  <2> HIDE DEF r
  <2>1. r \in 0..Values - 1 => r % Values = r
    BY DEF ValuesAssumption
  <2> QED  BY <1>1, <2>1 DEF r
<1>3. Counter(c % Values) = Counter(c)
  BY <1>2 DEF Counter
<1> QED
  BY <1>3 DEF State

\* Blocks of different counters differ, so that a block has one name.
LEMMA BlockHasItsName ==
  ASSUME ValuesAssumption, NEW c \in Int
  PROVE  NameOf(Block(c)) = c % Values
<1> DEFINE r == c % Values
<1>1. r \in 0..Values - 1
  BY DEF ValuesAssumption
<1>2. \A d : WitnessBlock(d).blocks[1] = Block(d)
  BY DEF WitnessBlock, Kernel, Mixed, Block, TenRounds, Words
<1>3. Block(r) = Block(c)
  BY StateWraps DEF Block
<1>4. ASSUME NEW d \in 0..Values - 1, Block(d) = Block(r)
      PROVE  d = r
  <2>1. Block(d)[13] = Block(r)[13]
    BY <1>4
  <2>2. State(d)[12] = State(r)[12]
    BY <2>1 DEF Block
  <2>3. Counter(d) = Counter(r)
    BY <1>1, <2>2, StateByWord
  <2>4. d % Values = r % Values
    BY <2>3 DEF Counter
  <2> HIDE DEF r
  <2> QED  BY <1>1, <2>4 DEF ValuesAssumption
<1> HIDE DEF r
<1>5. {d \in 0..Values - 1 : Block(c) = WitnessBlock(d).blocks[1]} = {r}
  BY <1>1, <1>2, <1>3, <1>4
<1>6. NameOf(Block(c)) = r
  BY <1>5 DEF NameOf
<1> QED
  BY <1>6 DEF r

-----------------------------------------------------------------------------
(* Vectors *)

\* Word i of n states, of n states after the rounds, and of n blocks, from counter c on
StateLanes(c, n, i) == [k \in 1..n |-> State(c + k - 1)[i]]
MixedLanes(c, n, i, rounds) == [k \in 1..n |-> <<i, State(c + k - 1), rounds>>]
BlockLanes(c, n, i) == [k \in 1..n |-> Block(c + k - 1)[i + 1]]

\* Lane k of the initial vectors is the state of the counter k - 1 behind the first.
LEMMA VectorsByLane ==
  ASSUME NEW c \in Int, NEW n \in Nat, NEW i \in Words
  PROVE  /\ Vectors(State(c), Counters(c, n))[i] = StateLanes(c, n, i)
         /\ Feed(State(c), Counters(c, n))[i] = StateLanes(c, n, i)
         /\ Len(StateLanes(c, n, i)) = n
<1> DEFINE cs == Counters(c, n)
<1>1. cs = [k \in 1..n |-> Counter(c + k - 1)] /\ Len(cs) = n
  BY DEF Counters
<1>2. \A k \in 1..n : c + k - 1 \in Int
  OBVIOUS
<1>0. Len(StateLanes(c, n, i)) = n
  BY DEF StateLanes
<1> HIDE DEF cs
<1>3. CASE i = 12
  <2>1. Vectors(State(c), cs)[i] = cs /\ Feed(State(c), cs)[i] = cs
    BY <1>3 DEF Vectors, Feed
  <2>2. \A k \in 1..n : State(c + k - 1)[12] = Counter(c + k - 1)
    BY <1>2, StateByWord
  <2>3. cs = StateLanes(c, n, i)
    BY <1>1, <1>3, <2>2 DEF StateLanes
  <2> QED  BY <1>0, <2>1, <2>3, Zenon DEF cs
<1>4. CASE i # 12
  <2>1. /\ Vectors(State(c), cs)[i] = Broadcast(State(c)[i], n)
        /\ Feed(State(c), cs)[i] = Broadcast(State(c)[i], n)
    BY <1>1, <1>4 DEF Vectors, Feed
  <2>2. \A k \in 1..n : State(c + k - 1)[i] = State(c)[i]
    BY <1>2, <1>4, StateByWord
  <2>3. StateLanes(c, n, i) = Broadcast(State(c)[i], n)
    BY <2>2 DEF Broadcast, StateLanes
  <2> QED  BY <1>0, <2>1, <2>3, Zenon DEF cs
<1> QED
  BY <1>3, <1>4

\* So is lane k after the rounds, whichever of the quarter rounds they are made of.
LEMMA MixedByLane ==
  ASSUME NEW c \in Int, NEW n \in Nat, NEW rounds, NEW i \in Words
  PROVE  MixedVectors(Vectors(State(c), Counters(c, n)), rounds)[i] =
           MixedLanes(c, n, i, rounds)
<1> DEFINE x == Vectors(State(c), Counters(c, n))
<1>1. \A j \in Words : x[j] = StateLanes(c, n, j) /\ Len(x[j]) = n
  BY VectorsByLane
<1>2. Len(x[0]) = n
  BY <1>1 DEF Words
<1> HIDE DEF x
<1>3. ASSUME NEW k \in 1..n
      PROVE  [j \in Words |-> x[j][k]] = State(c + k - 1)
  <2>1. c + k - 1 \in Int
    OBVIOUS
  <2>2. State(c + k - 1) = [j \in Words |-> State(c + k - 1)[j]]
    BY <2>1, StateByWord
  <2>3. \A j \in Words : x[j][k] = State(c + k - 1)[j]
    BY <1>1 DEF StateLanes
  <2> QED  BY <2>2, <2>3
<1>4. \A k \in 1..n : Mixed([j \in Words |-> x[j][k]], rounds)[i] =
                          <<i, State(c + k - 1), rounds>>
  BY <1>3 DEF Mixed
<1>5. MixedVectors(x, rounds)[i] = MixedLanes(c, n, i, rounds)
  BY <1>2, <1>4 DEF MixedVectors, MixedLanes
<1> QED
  BY <1>5 DEF x

\* Fed forward, lane k is word i of the block of its counter.
LEMMA FedByLane ==
  ASSUME NEW c \in Int, NEW n \in Nat, NEW i \in Words
  PROVE  /\ Add(MixedLanes(c, n, i, TenRounds), StateLanes(c, n, i)) = BlockLanes(c, n, i)
         /\ Len(BlockLanes(c, n, i)) = n
<1> DEFINE a == MixedLanes(c, n, i, TenRounds)
           b == StateLanes(c, n, i)
<1>1. Len(a) = n
  BY DEF MixedLanes
<1>2. \A k \in 1..n : Block(c + k - 1)[i + 1] = <<a[k], b[k]>>
  <2>1. i + 1 \in 1..16 /\ (i + 1) - 1 = i
    BY DEF Words
  <2>2. \A d : Block(d)[i + 1] = << <<i, State(d), TenRounds>>, State(d)[i] >>
    BY <2>1 DEF Block
  <2> QED  BY <2>2 DEF MixedLanes, StateLanes
<1> HIDE DEF a, b
<1>3. Add(a, b) = [k \in 1..n |-> <<a[k], b[k]>>]
  BY <1>1 DEF Add
<1>4. Add(a, b) = BlockLanes(c, n, i)
  BY <1>2, <1>3 DEF BlockLanes
<1>5. Len(BlockLanes(c, n, i)) = n
  BY DEF BlockLanes
<1> QED
  BY <1>4, <1>5 DEF a, b

\* Every implementation's rounds are made of the same quarter rounds.
LEMMA RoundsAgree ==
  /\ Rounds(Qr) = TenRounds /\ Rounds(Qr128) = TenRounds
  /\ Rounds(Qr256) = TenRounds /\ Rounds(Qrq) = TenRounds
BY DEF TenRounds, Rounds, DoubleRound, Qr, Qr128, Qr256, Qrq, Quarter, Rotl

-----------------------------------------------------------------------------
(* The kernels *)

\* What it is for a kernel of so many blocks to be right from counter c
Right(kernel, c, lanes) ==
  /\ Len(kernel.blocks) = lanes
  /\ \A k \in 1..lanes : kernel.blocks[k] = Block(c + k - 1)
  /\ kernel.leaves = {}

\* The scalar block
LEMMA ScalarIsRight ==
  ASSUME NEW c \in Int
  PROVE  Right(BlockInto(c), c, 1)
<1>1. BlockInto(c).blocks[1] = Block(c)
  BY RoundsAgree DEF BlockInto, Kernel, Mixed, Block, Words
<1>2. Len(BlockInto(c).blocks) = 1
  BY DEF BlockInto, Kernel
<1>3. BlockInto(c).leaves = {}
  BY DEF BlockInto, Kernel
<1>4. c + 1 - 1 = c
  OBVIOUS
<1> QED
  BY <1>1, <1>2, <1>3, <1>4 DEF Right

\* The block of the witness
LEMMA WitnessIsRight ==
  ASSUME NEW c \in Int
  PROVE  Right(WitnessBlock(c), c, 1)
<1>1. WitnessBlock(c).blocks[1] = Block(c)
  BY DEF WitnessBlock, Kernel, Mixed, Block, TenRounds, Words
<1>2. Len(WitnessBlock(c).blocks) = 1
  BY DEF WitnessBlock, Kernel
<1>3. WitnessBlock(c).leaves = {}
  BY DEF WitnessBlock, Kernel
<1>4. c + 1 - 1 = c
  OBVIOUS
<1> QED
  BY <1>1, <1>2, <1>3, <1>4 DEF Right

\* The NEON kernel: its lanes are picked one by one.
LEMMA NeonIsRight ==
  ASSUME NEW c \in Int
  PROVE  Right(NeonBlocks4(c), c, 4)
<1> DEFINE orig == Vectors(State(c), Counters(c, 4))
           x == MixedVectors(orig, Rounds(Qrq))
           w == [i \in Words |-> Add(x[i], orig[i])]
<1>0. 4 \in Nat
  OBVIOUS
<1>1. \A i \in Words : w[i] = BlockLanes(c, 4, i)
  <2> TAKE i \in Words
  <2>1. orig[i] = StateLanes(c, 4, i)
    BY <1>0, VectorsByLane
  <2>2. x[i] = MixedLanes(c, 4, i, TenRounds)
    BY <1>0, MixedByLane, RoundsAgree
  <2> HIDE DEF orig, x
  <2>3. Add(x[i], orig[i]) = BlockLanes(c, 4, i)
    BY <1>0, <2>1, <2>2, FedByLane
  <2> QED  BY <2>3
<1>2. /\ NeonBlocks4(c).blocks = [j \in 1..4 |-> [i \in 1..16 |-> w[i - 1][j]]]
      /\ NeonBlocks4(c).leaves = {}
  <2> HIDE DEF orig, x
  <2> QED  BY DEF NeonBlocks4, Kernel, orig, x
<1> HIDE DEF w
<1>3. ASSUME NEW j \in 1..4
      PROVE  [i \in 1..16 |-> w[i - 1][j]] = Block(c + j - 1)
  <2>1. \A i \in 1..16 : i - 1 \in Words /\ (i - 1) + 1 = i
    BY DEF Words
  <2>2. \A i \in 1..16 : w[i - 1][j] = Block(c + j - 1)[i]
    <3> TAKE i \in 1..16
    <3> DEFINE h == i - 1
    <3>1. h \in Words /\ h + 1 = i
      BY <2>1
    <3> HIDE DEF h
    <3>2. w[h][j] = Block(c + j - 1)[h + 1]
      BY <1>1, <3>1 DEF BlockLanes
    <3> QED  BY <3>1, <3>2 DEF h
  <2>3. Block(c + j - 1) = [i \in 1..16 |-> Block(c + j - 1)[i]]
    BY DEF Block
  <2> QED  BY <2>2, <2>3
<1> QED
  BY <1>2, <1>3 DEF Right

\* Row k of square q of the fed words is the words 4 * q and on of block k.
LEMMA SquareIsRight ==
  ASSUME NEW c \in Int, NEW q \in 0..3, NEW m, NEW k \in 1..4,
         \A j \in 1..4 : m[j] = BlockLanes(c, 4, 4 * q + j - 1)
  PROVE  Transpose4x4(m)[k] =
           <<Block(c + k - 1)[4 * q + 1], Block(c + k - 1)[4 * q + 2],
             Block(c + k - 1)[4 * q + 3], Block(c + k - 1)[4 * q + 4]>>
<1>1. \A j \in 1..4 : Len(m[j]) = 4
  BY DEF BlockLanes
<1>2. Transpose4x4(m)[k] = <<m[1][k], m[2][k], m[3][k], m[4][k]>>
  BY <1>1, Transposed4
<1>3. \A j \in 1..4 : m[j][k] = Block(c + k - 1)[(4 * q + j - 1) + 1]
  BY DEF BlockLanes
<1>4. /\ m[1][k] = Block(c + k - 1)[4 * q + 1] /\ m[2][k] = Block(c + k - 1)[4 * q + 2]
      /\ m[3][k] = Block(c + k - 1)[4 * q + 3] /\ m[4][k] = Block(c + k - 1)[4 * q + 4]
  BY <1>3
<1> QED
  BY <1>2, <1>4

\* Four quarters of a block make the block.
LEMMA QuartersMakeBlock ==
  ASSUME NEW F, F = [i \in 1..16 |-> F[i]]
  PROVE  ((<<F[1], F[2], F[3], F[4]>> \o <<F[5], F[6], F[7], F[8]>>)
            \o <<F[9], F[10], F[11], F[12]>>) \o <<F[13], F[14], F[15], F[16]>> = F
<1> DEFINE S == {F[i] : i \in 1..16}
           a == <<F[1], F[2], F[3], F[4], F[5], F[6], F[7], F[8]>>
           b == <<F[9], F[10], F[11], F[12]>>
           d == <<F[13], F[14], F[15], F[16]>>
<1>1. a \in Seq(S) /\ b \in Seq(S) /\ d \in Seq(S)
  OBVIOUS
<1>2. <<F[1], F[2], F[3], F[4]>> \o <<F[5], F[6], F[7], F[8]>> = a
  BY Join4
<1>3. b \o d = <<F[9], F[10], F[11], F[12], F[13], F[14], F[15], F[16]>>
  BY Join4
<1>4. a \o (b \o d) = F
  BY <1>3, Join8
<1> HIDE DEF S, a, b, d
<1>5. (a \o b) \o d = a \o (b \o d)
  BY <1>1, ConcatAssociative
<1> QED
  BY <1>2, <1>4, <1>5 DEF b, d

\* The SSE2 kernel: four squares, transposed
LEMMA Sse2IsRight ==
  ASSUME NEW c \in Int
  PROVE  Right(Blocks4(c), c, 4)
<1> DEFINE orig == Vectors(State(c), Counters(c, 4))
           x == MixedVectors(orig, Rounds(Qr128))
           m(q) == [j \in 1..4 |-> Add(x[4 * q + j - 1], orig[4 * q + j - 1])]
<1>0. 4 \in Nat
  OBVIOUS
<1>1. \A i \in Words : Add(x[i], orig[i]) = BlockLanes(c, 4, i)
  <2> TAKE i \in Words
  <2>1. orig[i] = StateLanes(c, 4, i)
    BY <1>0, VectorsByLane
  <2>2. x[i] = MixedLanes(c, 4, i, TenRounds)
    BY <1>0, MixedByLane, RoundsAgree
  <2> HIDE DEF orig, x
  <2> QED  BY <1>0, <2>1, <2>2, FedByLane
<1>2. /\ Blocks4(c).blocks =
           [j \in 1..4 |-> Transpose4x4(m(0))[j] \o Transpose4x4(m(1))[j]
                            \o Transpose4x4(m(2))[j] \o Transpose4x4(m(3))[j]]
      /\ Blocks4(c).leaves = {}
  <2> HIDE DEF orig, x
  <2>1. Blocks4(c) = Kernel([j \in 1..4 |-> Transpose4x4(m(0))[j] \o Transpose4x4(m(1))[j]
                            \o Transpose4x4(m(2))[j] \o Transpose4x4(m(3))[j]],
                            {"s", "x", "orig"}, {"x", "orig", "s"})
    BY ZenonT(60) DEF Blocks4, orig, x
  <2> QED  BY <2>1 DEF Kernel
<1> HIDE DEF orig, x
<1>3. \A q \in 0..3 : \A j \in 1..4 : m(q)[j] = BlockLanes(c, 4, 4 * q + j - 1)
  <2> TAKE q \in 0..3, j \in 1..4
  <2> DEFINE i == 4 * q + j - 1
  <2>1. i \in Words
    BY DEF Words
  <2>2. m(q)[j] = Add(x[i], orig[i])
    OBVIOUS
  <2> HIDE DEF i, m
  <2>3. m(q)[j] = BlockLanes(c, 4, i)
    BY <1>1, <2>1, <2>2
  <2> QED  BY <2>3 DEF i
<1> HIDE DEF m
<1>4. ASSUME NEW k \in 1..4
      PROVE  Blocks4(c).blocks[k] = Block(c + k - 1)
  <2> DEFINE F == Block(c + k - 1)
             T(q) == Transpose4x4(m(q))[k]
  <2>1. F = [i \in 1..16 |-> F[i]]
    BY DEF Block
  <2> HIDE DEF F
  <2>2. \A q \in 0..3 :
          T(q) = <<F[4 * q + 1], F[4 * q + 2], F[4 * q + 3], F[4 * q + 4]>>
    BY <1>3, SquareIsRight DEF F
  <2>3. /\ T(0) = <<F[1], F[2], F[3], F[4]>> /\ T(1) = <<F[5], F[6], F[7], F[8]>>
        /\ T(2) = <<F[9], F[10], F[11], F[12]>> /\ T(3) = <<F[13], F[14], F[15], F[16]>>
    <3> HIDE DEF T
    <3> QED  BY <2>2
  <2>4. Blocks4(c).blocks[k] = ((T(0) \o T(1)) \o T(2)) \o T(3)
    BY <1>2
  <2> HIDE DEF T
  <2>5. Blocks4(c).blocks[k] = F
    BY <2>1, <2>3, <2>4, QuartersMakeBlock
  <2> QED  BY <2>5 DEF F
<1>5. Len(Blocks4(c).blocks) = 4
  <2> DEFINE bl == [j \in 1..4 |-> Transpose4x4(m(0))[j] \o Transpose4x4(m(1))[j]
                            \o Transpose4x4(m(2))[j] \o Transpose4x4(m(3))[j]]
  <2>1. Len(bl) = 4
    OBVIOUS
  <2> QED  BY <1>2, <2>1
<1> QED
  BY <1>2, <1>4, <1>5 DEF Right

\* Row k of half h of the fed words is the words 8 * h and on of block k.
LEMMA HalfIsRight ==
  ASSUME NEW c \in Int, NEW h \in 0..1, NEW m, NEW k \in 1..8,
         \A j \in 1..8 : m[j] = BlockLanes(c, 8, 8 * h + j - 1)
  PROVE  Transpose8x8(m)[k] =
           <<Block(c + k - 1)[8 * h + 1], Block(c + k - 1)[8 * h + 2],
             Block(c + k - 1)[8 * h + 3], Block(c + k - 1)[8 * h + 4],
             Block(c + k - 1)[8 * h + 5], Block(c + k - 1)[8 * h + 6],
             Block(c + k - 1)[8 * h + 7], Block(c + k - 1)[8 * h + 8]>>
<1>1. \A j \in 1..8 : Len(m[j]) = 8
  BY DEF BlockLanes
<1>2. Transpose8x8(m)[k] = <<m[1][k], m[2][k], m[3][k], m[4][k],
                             m[5][k], m[6][k], m[7][k], m[8][k]>>
  BY <1>1, Transposed8
<1>3. \A j \in 1..8 : m[j][k] = Block(c + k - 1)[(8 * h + j - 1) + 1]
  BY DEF BlockLanes
<1>4. /\ m[1][k] = Block(c + k - 1)[8 * h + 1] /\ m[2][k] = Block(c + k - 1)[8 * h + 2]
      /\ m[3][k] = Block(c + k - 1)[8 * h + 3] /\ m[4][k] = Block(c + k - 1)[8 * h + 4]
      /\ m[5][k] = Block(c + k - 1)[8 * h + 5] /\ m[6][k] = Block(c + k - 1)[8 * h + 6]
      /\ m[7][k] = Block(c + k - 1)[8 * h + 7] /\ m[8][k] = Block(c + k - 1)[8 * h + 8]
  BY <1>3
<1> QED
  BY <1>2, <1>4

\* The AVX2 kernel: two halves, transposed
LEMMA Avx2IsRight ==
  ASSUME NEW c \in Int
  PROVE  Right(Blocks8(c), c, 8)
<1> DEFINE ctrVec == Counters(c, 8)
           x == MixedVectors(Vectors(State(c), ctrVec), Rounds(Qr256))
           feed == Feed(State(c), ctrVec)
           m(h) == [j \in 1..8 |-> Add(x[8 * h + j - 1], feed[8 * h + j - 1])]
<1>0. 8 \in Nat
  OBVIOUS
<1>1. \A i \in Words : Add(x[i], feed[i]) = BlockLanes(c, 8, i)
  <2> TAKE i \in Words
  <2>1. feed[i] = StateLanes(c, 8, i)
    BY <1>0, VectorsByLane
  <2>2. x[i] = MixedLanes(c, 8, i, TenRounds)
    BY <1>0, MixedByLane, RoundsAgree
  <2> HIDE DEF feed, x
  <2> QED  BY <1>0, <2>1, <2>2, FedByLane
<1>2. /\ Blocks8(c).blocks =
           [k \in 1..8 |-> Transpose8x8(m(0))[k] \o Transpose8x8(m(1))[k]]
      /\ Blocks8(c).leaves = {}
  <2> HIDE DEF feed, x, ctrVec
  <2>1. Blocks8(c) = Kernel([k \in 1..8 |-> Transpose8x8(m(0))[k] \o Transpose8x8(m(1))[k]],
                            {"s", "x"}, {"x", "s"})
    BY ZenonT(60) DEF Blocks8, feed, x, ctrVec
  <2> QED  BY <2>1 DEF Kernel
<1> HIDE DEF feed, x
<1>3. \A h \in 0..1 : \A j \in 1..8 : m(h)[j] = BlockLanes(c, 8, 8 * h + j - 1)
  <2> TAKE h \in 0..1, j \in 1..8
  <2> DEFINE i == 8 * h + j - 1
  <2>1. i \in Words
    BY DEF Words
  <2>2. m(h)[j] = Add(x[i], feed[i])
    OBVIOUS
  <2> HIDE DEF i, m
  <2>3. m(h)[j] = BlockLanes(c, 8, i)
    BY <1>1, <2>1, <2>2
  <2> QED  BY <2>3 DEF i
<1> HIDE DEF m
<1>4. ASSUME NEW k \in 1..8
      PROVE  Blocks8(c).blocks[k] = Block(c + k - 1)
  <2> DEFINE F == Block(c + k - 1)
             T(h) == Transpose8x8(m(h))[k]
  <2>1. F = [i \in 1..16 |-> F[i]]
    BY DEF Block
  <2> HIDE DEF F
  <2>2. \A h \in 0..1 :
          T(h) = <<F[8 * h + 1], F[8 * h + 2], F[8 * h + 3], F[8 * h + 4],
                   F[8 * h + 5], F[8 * h + 6], F[8 * h + 7], F[8 * h + 8]>>
    BY <1>3, HalfIsRight DEF F
  <2>3. /\ T(0) = <<F[1], F[2], F[3], F[4], F[5], F[6], F[7], F[8]>>
        /\ T(1) = <<F[9], F[10], F[11], F[12], F[13], F[14], F[15], F[16]>>
    <3> HIDE DEF T
    <3> QED  BY <2>2
  <2>4. Blocks8(c).blocks[k] = T(0) \o T(1)
    BY <1>2
  <2> HIDE DEF T
  <2>5. Blocks8(c).blocks[k] = F
    BY <2>1, <2>3, <2>4, Join8
  <2> QED  BY <2>5 DEF F
<1>5. Len(Blocks8(c).blocks) = 8
  <2> DEFINE bl == [k \in 1..8 |-> Transpose8x8(m(0))[k] \o Transpose8x8(m(1))[k]]
  <2>1. Len(bl) = 8
    OBVIOUS
  <2> QED  BY <1>2, <2>1
<1> QED
  BY <1>2, <1>4, <1>5 DEF Right

-----------------------------------------------------------------------------
(* What chacha20_apply knows of the kernels *)

\* The blocks each of them writes at a time
LanesOf == [scalar |-> 1, sse2 |-> 4, avx2 |-> 8, neon |-> 4, witness |-> 1]

\* Every kernel writes, from any counter on, one block for each of the counters that
\* follow, wrapped, and leaves no local with words of the key.
THEOREM KernelsAreRight ==
  ASSUME NEW kernel \in {"scalar", "sse2", "avx2", "neon", "witness"},
         NEW c \in 0..Values - 1
  PROVE  /\ Len(Kernels[kernel][c].blocks) = LanesOf[kernel]
         /\ \A b \in 1..LanesOf[kernel] : Kernels[kernel][c].blocks[b] = (c + b - 1) % Values
         /\ Kernels[kernel][c].leaves = {}
<1>0. c \in Int
  BY ValuesAssumption
<1> DEFINE Write(k) == [blocks |-> [b \in 1..Len(k.blocks) |-> NameOf(k.blocks[b])],
                        leaves |-> k.leaves]
<1>1. ASSUME NEW k, NEW lanes \in Nat, Right(k, c, lanes)
      PROVE  /\ Len(Write(k).blocks) = lanes
             /\ \A b \in 1..lanes : Write(k).blocks[b] = (c + b - 1) % Values
             /\ Write(k).leaves = {}
  <2>1. \A b \in 1..lanes : NameOf(k.blocks[b]) = (c + b - 1) % Values
    <3> TAKE b \in 1..lanes
    <3>1. c + b - 1 \in Int
      BY <1>0
    <3>2. k.blocks[b] = Block(c + b - 1)
      BY <1>1 DEF Right
    <3> QED  BY <3>1, <3>2, BlockHasItsName, ValuesAssumption
  <2>2. Write(k).blocks = [b \in 1..lanes |-> NameOf(k.blocks[b])] /\ Write(k).leaves = {}
    BY <1>1 DEF Right
  <2> HIDE DEF Write
  <2>3. Len([b \in 1..lanes |-> NameOf(k.blocks[b])]) = lanes
    OBVIOUS
  <2> QED  BY <2>1, <2>2, <2>3
<1>2. /\ Kernels.scalar[c] = Write(BlockInto(c)) /\ Kernels.sse2[c] = Write(Blocks4(c))
      /\ Kernels.avx2[c] = Write(Blocks8(c)) /\ Kernels.neon[c] = Write(NeonBlocks4(c))
      /\ Kernels.witness[c] = Write(WitnessBlock(c))
  BY DEF Kernels, Named
<1> HIDE DEF Write
<1>3. /\ Right(BlockInto(c), c, 1) /\ Right(Blocks4(c), c, 4) /\ Right(Blocks8(c), c, 8)
      /\ Right(NeonBlocks4(c), c, 4) /\ Right(WitnessBlock(c), c, 1)
  BY <1>0, ScalarIsRight, Sse2IsRight, Avx2IsRight, NeonIsRight, WitnessIsRight
<1>4. PICK k : Kernels[kernel][c] = Write(k) /\ Right(k, c, LanesOf[kernel])
  BY <1>2, <1>3 DEF LanesOf
<1>5. LanesOf[kernel] \in Nat
  BY DEF LanesOf
<1> QED
  BY <1>1, <1>4, <1>5

\* Words 0 to 3 and 12 to 15 after the rounds, without the addition, are the same from
\* either implementation of HChaCha20.
THEOREM SubkeyIsOne ==
  ASSUME NEW nonce
  PROVE  HChaCha20Into(nonce) = WitnessHChaCha20(nonce)
<1> DEFINE v == Mixed(StateWords(nonce), TenRounds)
           all == [i \in 1..16 |-> v[i - 1]]
<1>1. WitnessHChaCha20(nonce) = SubSeq(all, 1, 4) \o SubSeq(all, 13, 16)
  BY DEF WitnessHChaCha20, TenRounds
<1>2. HChaCha20Into(nonce) = [i \in 1..8 |-> v[<<0, 1, 2, 3, 12, 13, 14, 15>>[i]]]
  BY RoundsAgree DEF HChaCha20Into
<1> HIDE DEF v
<1>3. SubSeq(all, 1, 4) = <<v[0], v[1], v[2], v[3]>>
  <2>1. all[1] = v[0] /\ all[2] = v[1] /\ all[3] = v[2] /\ all[4] = v[3]
    OBVIOUS
  <2> HIDE DEF all
  <2> QED  BY <2>1, Halves
<1>4. SubSeq(all, 13, 16) = <<v[12], v[13], v[14], v[15]>>
  <2> DEFINE S == {all[i] : i \in 13..16}
             a == SubSeq(all, 13, 16)
  <2>1. all[13] = v[12] /\ all[14] = v[13] /\ all[15] = v[14] /\ all[16] = v[15]
    OBVIOUS
  <2> HIDE DEF all
  <2>2. \A i \in 13..16 : all[i] \in S
    OBVIOUS
  <2> HIDE DEF S
  <2>3. /\ a \in Seq(S) /\ Len(a) = IF 13 <= 16 THEN 16 - 13 + 1 ELSE 0
        /\ \A i \in 1..16 - 13 + 1 : a[i] = all[13 + i - 1]
    BY <2>2, SubSeqProperties
  <2> HIDE DEF a
  <2>4. /\ a = <<a[1], a[2], a[3], a[4]>>
        /\ a[1] = all[13] /\ a[2] = all[14] /\ a[3] = all[15] /\ a[4] = all[16]
    BY <2>3
  <2> QED  BY <2>1, <2>4 DEF a
<1> HIDE DEF all
<1>5. WitnessHChaCha20(nonce) = <<v[0], v[1], v[2], v[3], v[12], v[13], v[14], v[15]>>
  <2>1. <<v[0], v[1], v[2], v[3]>> \o <<v[12], v[13], v[14], v[15]>> =
          <<v[0], v[1], v[2], v[3], v[12], v[13], v[14], v[15]>>
    BY Join4
  <2> QED  BY <1>1, <1>3, <1>4, <2>1, Zenon
<1>6. [i \in 1..8 |-> v[<<0, 1, 2, 3, 12, 13, 14, 15>>[i]]] =
        <<v[0], v[1], v[2], v[3], v[12], v[13], v[14], v[15]>>
  OBVIOUS
<1> QED
  BY <1>2, <1>5, <1>6

-----------------------------------------------------------------------------
(* Blocks and their bytes *)

\* Whole blocks before a byte change its block, and not its place.
LEMMA BlockOfByte ==
  ASSUME NEW w \in Nat \ {0}, NEW q \in Nat, NEW x \in Nat
  PROVE  /\ (w * q + x) \div w = q + (x \div w)
         /\ (w * q + x) % w = x % w
<1> DEFINE d == x \div w
           r == x % w
<1>1. d \in Nat /\ r \in 0..w - 1 /\ x = w * d + r
  BY SMTT(30)
<1>2. w * q + x = w * (q + d) + r
  <2> HIDE DEF d, r
  <2>1. w * (q + d) = w * q + w * d
    BY <1>1, SMTT(30)
  <2>2. w * q \in Nat /\ w * d \in Nat /\ w * (q + d) \in Nat
    BY <1>1, SMTT(30)
  <2> QED
    BY <1>1, <2>1, <2>2
<1>3. q + d \in Nat
  BY <1>1
<1>4. (w * (q + d) + r) \div w = q + d /\ (w * (q + d) + r) % w = r
  <2> HIDE DEF d, r
  <2> DEFINE e == q + d
  <2>1. e \in Nat /\ r \in 0..w - 1
    BY <1>1
  <2> HIDE DEF e
  <2>2. (w * e + r) \div w = e /\ (w * e + r) % w = r
    BY <2>1, SMTT(30)
  <2> QED
    BY <2>2 DEF e
<1> QED
  BY <1>2, <1>4

\* A counter that wraps at every addition wraps as one that wraps at the end.
LEMMA AddModulo ==
  ASSUME NEW v \in Nat \ {0}, NEW a \in Nat, NEW b \in Nat
  PROVE  ((a % v) + b) % v = (a + b) % v
<1> DEFINE d == a \div v
           r == a % v
<1>1. d \in Nat /\ r \in Nat /\ a = v * d + r
  BY SMTT(30)
<1> HIDE DEF d, r
<1>2. a + b = v * d + (r + b)
  <2>1. v * d \in Nat
    BY <1>1, SMTT(30)
  <2> QED
    BY <1>1, <2>1
<1>3. (v * d + (r + b)) % v = (r + b) % v
  <2> DEFINE x == r + b
  <2>1. x \in Nat
    BY <1>1
  <2> HIDE DEF x
  <2>2. (v * d + x) % v = x % v
    BY <1>1, <2>1, BlockOfByte
  <2> QED
    BY <2>2 DEF x
<1> QED
  BY <1>2, <1>3 DEF r

\* A number is a multiple and a rest.
LEMMA Quotient ==
  ASSUME NEW w \in Nat \ {0}, NEW x \in Nat
  PROVE  /\ x \div w \in Nat /\ x % w \in 0..w - 1
         /\ x = w * (x \div w) + (x % w)
BY SMTT(30)

\* Byte x of k blocks is in one of them.
LEMMA QuotientBelow ==
  ASSUME NEW w \in Nat \ {0}, NEW x \in Nat, NEW k \in Nat, x < k * w
  PROVE  x \div w < k
BY SMTT(30)

\* A counter does not come back before it has taken every value.
LEMMA ModuloApart ==
  ASSUME NEW v \in Nat \ {0}, NEW s \in 0..v - 1, NEW p \in 0..v - 1, NEW q \in 0..v - 1,
         (s + p) % v = (s + q) % v
  PROVE  p = q
<1>1. \A x \in 0..2 * v - 1 : x % v = IF x < v THEN x ELSE x - v
  BY SMTT(30)
<1>2. s + p \in 0..2 * v - 1 /\ s + q \in 0..2 * v - 1
  OBVIOUS
<1> QED
  BY <1>1, <1>2

-----------------------------------------------------------------------------
(* What the kernels write is the keystream of its place *)

\* Byte k of what a kernel writes for a block of the message, is a byte of its keystream.
LEMMA KernelByteIsKeyByte ==
  ASSUME NEW kernel \in {"scalar", "sse2", "avx2", "neon", "witness"},
         NEW start \in 0..Values - 1, NEW q \in Nat,
         NEW k \in Nat \ {0}, k <= LanesOf[kernel] * BlockLen
  PROVE  KernelByte(kernel, (start + q) % Values, k) = KeyByte(start, BlockLen * q + k)
<1> DEFINE c == (start + q) % Values
           d == (k - 1) \div BlockLen
           r == (k - 1) % BlockLen
           lanes == LanesOf[kernel]
<1>0. /\ BlockLen \in Nat \ {0} /\ Values \in Nat \ {0}
      /\ lanes \in Nat /\ k - 1 \in Nat /\ k - 1 < lanes * BlockLen
  <2>1. BlockLen \in Nat \ {0} /\ Values \in Nat \ {0} /\ lanes \in Nat /\ k - 1 \in Nat
    BY ApplyAssumption, ValuesAssumption DEF LanesOf
  <2>2. lanes * BlockLen \in Nat
    BY <2>1, SMTT(30)
  <2> HIDE DEF lanes
  <2>3. k <= lanes * BlockLen
    BY DEF lanes
  <2> QED
    BY <2>1, <2>2, <2>3
<1>1. d \in Nat /\ d < lanes
  <2> HIDE DEF lanes
  <2>1. d \in Nat
    BY <1>0, Quotient
  <2>2. d < lanes
    <3> DEFINE x == k - 1
    <3>1. x \in Nat /\ x < lanes * BlockLen
      BY <1>0
    <3> HIDE DEF x
    <3>2. x \div BlockLen < lanes
      BY <1>0, <3>1, QuotientBelow
    <3> QED
      BY <3>2 DEF x
  <2> QED
    BY <2>1, <2>2
<1>2. c \in 0..Values - 1
  <2>1. start + q \in Nat
    BY <1>0
  <2> QED
    BY <1>0, <2>1, Quotient
<1>3. Kernels[kernel][c].blocks[1 + d] = (c + d) % Values
  <2>1. 1 + d \in 1..lanes
    <3> HIDE DEF d, lanes
    <3> QED
      BY <1>0, <1>1
  <2>2. Kernels[kernel][c].blocks[1 + d] = (c + (1 + d) - 1) % Values
    <3> HIDE DEF c, d
    <3> QED
      BY <1>2, <2>1, KernelsAreRight
  <2>3. c + (1 + d) - 1 = c + d
    <3> HIDE DEF c, d
    <3> QED
      BY <1>0, <1>1, <1>2
  <2> QED
    BY <2>2, <2>3
<1>4. (c + d) % Values = (start + (q + d)) % Values
  <2> HIDE DEF d
  <2>1. start + q \in Nat /\ start + q + d = start + (q + d)
    BY <1>0, <1>1
  <2>2. (((start + q) % Values) + d) % Values = (start + q + d) % Values
    BY <1>0, <1>1, <2>1, AddModulo
  <2> QED
    BY <2>1, <2>2
<1>5. /\ ((BlockLen * q + k) - 1) \div BlockLen = q + d
      /\ ((BlockLen * q + k) - 1) % BlockLen = r
  <2> DEFINE x == k - 1
  <2>1. x \in Nat
    BY <1>0
  <2>2. (BlockLen * q + k) - 1 = BlockLen * q + x
    <3>1. BlockLen * q \in Nat
      BY <1>0, SMTT(30)
    <3> QED
      BY <1>0, <3>1
  <2> HIDE DEF x
  <2>3. (BlockLen * q + x) \div BlockLen = q + (x \div BlockLen)
        /\ (BlockLen * q + x) % BlockLen = x % BlockLen
    BY <1>0, <2>1, BlockOfByte
  <2> QED
    BY <2>2, <2>3 DEF x
<1>6. KernelByte(kernel, c, k) = <<(start + (q + d)) % Values, r>>
  BY <1>3, <1>4 DEF KernelByte
<1>7. KeyByte(start, BlockLen * q + k) = <<(start + (q + d)) % Values, r>>
  <2> HIDE DEF d, r
  <2> QED
    BY <1>5, Zenon DEF KeyByte
<1> QED
  BY <1>6, <1>7

\* XORing m more bytes, no more than the kernel writes, makes m more of them done.
LEMMA XorOrCopyAdvances ==
  ASSUME NEW call, call.input \in Streams, Sizes(call), Aligned(call),
         call.out = Written(call.start, call.n, call.input, call.off),
         NEW kernel \in {"scalar", "sse2", "avx2", "neon", "witness"},
         NEW m \in Nat, m <= LanesOf[kernel] * BlockLen, call.off + m <= call.n
  PROVE  XorOrCopy(call, kernel, m) = Written(call.start, call.n, call.input, call.off + m)
<1> DEFINE start == call.start
           n == call.n
           off == call.off
           New(i) == IF i \notin off + 1..off + m THEN call.out[i]
                     ELSE LET k == {KernelByte(kernel, call.ctr, i - off)}
                          IN  CASE call.input = "InPlace" -> Xor(call.out[i], k)
                                [] call.input = "Keystream" -> k
                                [] OTHER -> Xor({text}, k)
           Byte(i, d) == IF i <= d THEN Xor(Text(call.input), {KeyByte(start, i)})
                         ELSE Old(call.input)
<1>1. PICK q \in Nat : off = BlockLen * q /\ call.ctr = (start + q) % Values
  BY DEF Aligned
<1>2. off \in Nat /\ n \in Nat /\ start \in 0..Values - 1
  BY DEF Sizes
<1>3. ASSUME NEW i \in 1..n
      PROVE  New(i) = Byte(i, off + m)
  <2>0. i \in Nat /\ call.out[i] = Byte(i, off)
    BY <1>2 DEF Written
  <2>1. CASE i \in off + 1..off + m
    <3>1. i - off \in Nat \ {0} /\ i - off <= m /\ off + (i - off) = i /\ ~(i <= off)
          /\ i <= off + m
      BY <1>2, <2>0, <2>1
    <3>2. i - off <= LanesOf[kernel] * BlockLen
      <4>1. LanesOf[kernel] \in Nat /\ BlockLen \in Nat
        BY ApplyAssumption DEF LanesOf
      <4>2. LanesOf[kernel] * BlockLen \in Nat
        <5> DEFINE l == LanesOf[kernel]
        <5> HIDE DEF l
        <5> QED
          BY <4>1, SMTT(30) DEF l
      <4> QED
        BY <3>1, <4>2
    <3>3. KernelByte(kernel, (start + q) % Values, i - off)
            = KeyByte(start, BlockLen * q + (i - off))
      <4> DEFINE j == i - off
      <4>1. j \in Nat \ {0} /\ j <= LanesOf[kernel] * BlockLen
        BY <3>1, <3>2
      <4> HIDE DEF j, start
      <4>2. start \in 0..Values - 1
        BY <1>2
      <4>3. KernelByte(kernel, (start + q) % Values, j) = KeyByte(start, BlockLen * q + j)
        BY <4>1, <4>2, KernelByteIsKeyByte
      <4> QED
        BY <4>3 DEF j
    <3>4. KernelByte(kernel, call.ctr, i - off) = KeyByte(start, i)
      BY <1>1, <3>1, <3>3
    <3>5. call.out[i] = Old(call.input)
      BY <2>0, <3>1
    <3>6. New(i) = CASE call.input = "InPlace" -> Xor(call.out[i], {KeyByte(start, i)})
                     [] call.input = "Keystream" -> {KeyByte(start, i)}
                     [] OTHER -> Xor({text}, {KeyByte(start, i)})
      BY <2>1, <3>4
    <3>7. Byte(i, off + m) = Xor(Text(call.input), {KeyByte(start, i)})
      BY <3>1
    <3> HIDE DEF New, Byte
    <3>8. CASE call.input = "InPlace"
      BY <3>5, <3>6, <3>7, <3>8 DEF Old, Text
    <3>9. CASE call.input = "Keystream"
      BY <3>6, <3>7, <3>9 DEF Text, Xor
    <3>10. CASE call.input \notin {"InPlace", "Keystream"}
      BY <3>6, <3>7, <3>10 DEF Text
    <3> QED
      BY <3>8, <3>9, <3>10
  <2>2. CASE i \notin off + 1..off + m
    <3>1. New(i) = call.out[i]
      BY <2>2
    <3>2. i <= off + m <=> i <= off
      BY <1>2, <2>0, <2>2
    <3> QED
      BY <2>0, <3>1, <3>2
  <2> QED
    BY <2>1, <2>2
<1>4. XorOrCopy(call, kernel, m) = [i \in 1..n |-> New(i)]
  BY DEF XorOrCopy
<1>5. Written(start, n, call.input, off + m) = [i \in 1..n |-> Byte(i, off + m)]
  BY DEF Written
<1> HIDE DEF New, Byte
<1> QED
  BY <1>3, <1>4, <1>5

-----------------------------------------------------------------------------
(* No keystream byte twice *)

\* A message of n bytes, no longer than MAX_MSG_SIZE, uses n bytes of the keystream.
LEMMA KeyBytesApart ==
  ASSUME NEW start \in 0..Values - 1, NEW n \in Nat, n <= MaxMsg
  PROVE  Cardinality({KeyByte(start, i) : i \in 1..n}) = n
<1>0. /\ BlockLen \in Nat \ {0} /\ Values \in Nat \ {0} /\ MaxMsg \in Nat
      /\ MaxMsg % BlockLen = 0 /\ MaxMsg \div BlockLen <= Values
  BY ApplyAssumption, ValuesAssumption
<1>1. n <= Values * BlockLen
  <2> DEFINE d == MaxMsg \div BlockLen
  <2>1. d \in Nat /\ MaxMsg = BlockLen * d
    <3>1. d \in Nat /\ MaxMsg = BlockLen * d + (MaxMsg % BlockLen)
      BY <1>0, Quotient
    <3>2. BlockLen * d \in Nat
      <4> HIDE DEF d
      <4> QED
        BY <1>0, <3>1, SMTT(30)
    <3> HIDE DEF d
    <3> QED
      BY <1>0, <3>1, <3>2
  <2>2. d <= Values
    BY <1>0
  <2> HIDE DEF d
  <2>3. BlockLen * d <= Values * BlockLen
    BY <1>0, <2>1, <2>2, SMTT(30)
  <2>4. BlockLen * d \in Nat /\ Values * BlockLen \in Nat
    BY <1>0, <2>1, SMTT(30)
  <2> QED
    BY <1>0, <2>1, <2>3, <2>4
<1>2. \A i \in 1..n : /\ (i - 1) \div BlockLen \in 0..Values - 1
                      /\ (i - 1) % BlockLen \in Nat
                      /\ i - 1 = BlockLen * ((i - 1) \div BlockLen) + ((i - 1) % BlockLen)
  <2> SUFFICES ASSUME NEW i \in 1..n
               PROVE  /\ (i - 1) \div BlockLen \in 0..Values - 1
                      /\ (i - 1) % BlockLen \in Nat
                      /\ i - 1 = BlockLen * ((i - 1) \div BlockLen) + ((i - 1) % BlockLen)
    OBVIOUS
  <2> DEFINE x == i - 1
  <2>1. x \in Nat /\ x < Values * BlockLen
    <3>1. Values * BlockLen \in Nat
      BY <1>0, SMTT(30)
    <3> QED
      BY <1>1, <3>1
  <2> HIDE DEF x
  <2>2. x \div BlockLen < Values
    BY <1>0, <2>1, QuotientBelow
  <2>3. /\ x \div BlockLen \in Nat /\ x % BlockLen \in 0..BlockLen - 1
        /\ x = BlockLen * (x \div BlockLen) + (x % BlockLen)
    BY <1>0, <2>1, Quotient
  <2>4. x \div BlockLen \in 0..Values - 1 /\ x % BlockLen \in Nat
    BY <1>0, <2>2, <2>3
  <2> QED
    BY <2>3, <2>4 DEF x
<1>3. ASSUME NEW i \in 1..n, NEW j \in 1..n, KeyByte(start, i) = KeyByte(start, j)
      PROVE  i = j
  <2> DEFINE p == (i - 1) \div BlockLen
             q == (j - 1) \div BlockLen
             r == (i - 1) % BlockLen
             s == (j - 1) % BlockLen
  <2>1. /\ p \in 0..Values - 1 /\ q \in 0..Values - 1
        /\ i - 1 = BlockLen * p + r /\ j - 1 = BlockLen * q + s
    BY <1>2
  <2>2. (start + p) % Values = (start + q) % Values /\ r = s
    BY <1>3 DEF KeyByte
  <2> HIDE DEF p, q, r, s
  <2>3. p = q
    BY <1>0, <2>1, <2>2, ModuloApart
  <2>4. i - 1 = j - 1
    BY <2>1, <2>2, <2>3
  <2> QED
    BY <2>4
<1> DEFINE S == {KeyByte(start, i) : i \in 1..n}
           f == [i \in 1..n |-> KeyByte(start, i)]
<1>4. f \in Bijection(1..n, S)
  <2>1. f \in Injection(1..n, S)
    BY <1>3 DEF Injection, IsInjective
  <2>2. f \in Surjection(1..n, S)
    BY DEF Surjection
  <2> QED
    BY <2>1, <2>2 DEF Bijection
<1>5. IsFiniteSet(1..n) /\ Cardinality(1..n) = n
  BY FS_Interval
<1>6. Cardinality(S) = Cardinality(1..n)
  <2>1. ExistsBijection(1..n, S)
    BY <1>4 DEF ExistsBijection
  <2> HIDE DEF S
  <2> QED
    BY <1>5, <2>1, FS_Bijection
<1> QED
  BY <1>5, <1>6

-----------------------------------------------------------------------------
(* The invariant, action by action *)

\* All threads are idle.
LEMMA InitInv ==
  ASSUME Init
  PROVE  Inv
BY DEF Init, Inv, Machine, Threading

\* What a step of one thread has to show
LEMMA StepInv ==
  ASSUME Inv, NEW t \in Threads, NEW call, Step(t, call),
         call = Idle \/ Stream(call) \/ Derivation(call),
         cache' \in 0..2, cache' = 2 => Detect
  PROVE  Inv'
<1>1. cpu' = cpu /\ target' = target /\ th' = [th EXCEPT ![t] = call]
  BY DEF Step
<1>2. Machine'
  BY <1>1 DEF Inv, Machine, Detect
<1>3. th = [u \in Threads |-> th[u]]
  BY DEF Inv, Threading
<1>4. th' = [u \in Threads |-> th'[u]]
  BY <1>1, <1>3
<1>5. ASSUME NEW u \in Threads
      PROVE  th'[u] = Idle \/ Stream(th[u])' \/ Derivation(th[u])'
  <2>1. \/ th'[u] = call
        \/ th'[u] = th[u]
    BY <1>1, <1>3
  <2>2. \A c : /\ Stream(c) /\ th'[u] = c => Stream(th[u])'
               /\ Derivation(c) /\ th'[u] = c => Derivation(th[u])'
    BY <1>1 DEF Stream, Derivation, Placed, Detect, IsRecord, Sizes, Progress, Wiped,
       Aligned
  <2>3. th[u] = Idle \/ Stream(th[u]) \/ Derivation(th[u])
    BY DEF Inv, Threading
  <2> QED
    BY <2>1, <2>2, <2>3
<1> QED
  BY <1>2, <1>4, <1>5 DEF Inv, Threading

\* A call that is at work
LEMMA WhoIsWhere ==
  ASSUME Inv, NEW t \in Threads
  PROVE  /\ th[t].pc \in {"load", "store", "eight", "four", "one", "witness"} => Stream(th[t])
         /\ th[t].pc = "subkey" => Derivation(th[t])
BY DEF Inv, Threading, Stream, Derivation, Placed, Idle

\* A call begins.
LEMMA CallInv ==
  ASSUME Inv, NEW t \in Threads, NEW args \in Calls[t], Call(t, args)
  PROVE  Inv'
<1> DEFINE call == NewCall(args)
<1>1. args \in CallArgs /\ args.n <= MaxMsg
  BY ApplyAssumption DEF Call
<1>2. /\ args.start \in 0..Values - 1 /\ args.n \in Nat
      /\ args.input \in Streams \cup {"Subkey"}
  BY <1>1 DEF CallArgs, Streams
<1>3. /\ IsRecord(call) /\ call.input = args.input /\ call.pc = First(args.input)
      /\ call.start = args.start /\ call.ctr = args.start /\ call.n = args.n /\ call.off = 0
      /\ call.left = {} /\ call.out = [i \in 1..args.n |-> Old(args.input)]
  BY DEF NewCall, IsRecord
<1> HIDE DEF call
<1>4. target \in {"x86_64", "neon", "other"}
  BY ApplyAssumption DEF Inv, Machine
<1>5. /\ args.input = "Subkey" => call.pc = "subkey"
      /\ args.input = "Witness" => call.pc = "witness"
      /\ args.input \in {"Separate", "InPlace", "Keystream"} =>
           /\ call.pc \in {"load", "four", "one"}
           /\ call.pc = "load" => target = "x86_64"
  BY <1>3, <1>4 DEF First
<1>6. CASE args.input = "Subkey"
  <2>1. Derivation(call)
    BY <1>3, <1>5, <1>6 DEF Derivation
  <2> QED
    BY <2>1, StepInv DEF Call, Inv, Machine, call
<1>7. CASE args.input \in Streams
  <2>1. Sizes(call)
    BY <1>1, <1>2, <1>3 DEF Sizes
  <2>2. Aligned(call)
    <3>1. BlockLen \in Nat \ {0} /\ Values \in Nat \ {0}
      BY ApplyAssumption, ValuesAssumption
    <3>2. BlockLen * 0 = 0 /\ args.start + 0 = args.start /\ args.start % Values = args.start
      BY <1>2, <3>1, SMTT(30)
    <3> QED
      BY <1>3, <3>2 DEF Aligned
  <2>3. Written(call.start, call.n, call.input, 0) = call.out
    BY <1>2, <1>3 DEF Written
  <2>4. call.pc # "done"
    BY <1>5, <1>7 DEF Streams
  <2>5. Progress(call)
    BY <1>3, <2>2, <2>3, <2>4 DEF Progress
  <2>6. Wiped(call)
    BY <1>3 DEF Wiped
  <2>7. Placed(call)
    BY <1>5, <1>7 DEF Placed, Streams
  <2>8. Stream(call)
    BY <1>3, <1>7, <2>1, <2>5, <2>6, <2>7 DEF Stream
  <2> QED
    BY <2>8, StepInv DEF Call, Inv, Machine, call
<1> QED
  BY <1>2, <1>6, <1>7

\* has_avx2, its load and its store
LEMMA CacheInv ==
  ASSUME Inv, NEW t \in Threads, LoadCache(t) \/ StoreCache(t)
  PROVE  Inv'
<1> DEFINE New(pc) == [th[t] EXCEPT !.pc = pc]
<1>1. Stream(th[t]) /\ th[t].pc \in {"load", "store"}
  BY WhoIsWhere DEF LoadCache, StoreCache, At
<1>2. ASSUME NEW pc \in {"store", "eight", "four"}, pc = "eight" => Detect
      PROVE  Stream(New(pc))
  <2>1. /\ IsRecord(New(pc)) /\ New(pc).pc = pc
        /\ New(pc).start = th[t].start /\ New(pc).ctr = th[t].ctr /\ New(pc).n = th[t].n
        /\ New(pc).off = th[t].off /\ New(pc).input = th[t].input
        /\ New(pc).out = th[t].out /\ New(pc).left = th[t].left
    BY <1>1 DEF Stream, IsRecord
  <2> HIDE DEF New
  <2>2. Sizes(New(pc))
    BY <1>1, <2>1 DEF Stream, Sizes
  <2>3. Progress(New(pc))
    BY <1>1, <1>2, <2>1 DEF Stream, Progress, Aligned
  <2>4. Wiped(New(pc))
    BY <1>1, <1>2, <2>1 DEF Stream, Wiped
  <2>5. Placed(New(pc))
    BY <1>1, <1>2, <2>1 DEF Stream, Placed
  <2> QED
    BY <1>1, <2>1, <2>2, <2>3, <2>4, <2>5 DEF Stream
<1>3. CASE LoadCache(t)
  <2>1. cache \in 0..2 /\ (cache = 2 => Detect) /\ cache' = cache
    BY <1>3 DEF Inv, Machine, LoadCache
  <2>2. \E pc \in {"store", "eight", "four"} :
          (pc = "eight" => Detect) /\ Step(t, New(pc))
    BY <1>3, <2>1 DEF LoadCache, Goto
  <2> HIDE DEF New
  <2> QED
    BY <1>2, <2>1, <2>2, StepInv
<1>4. CASE StoreCache(t)
  <2>1. cache' \in 0..2 /\ (cache' = 2 => Detect)
    BY <1>4 DEF StoreCache
  <2>2. \E pc \in {"store", "eight", "four"} :
          (pc = "eight" => Detect) /\ Step(t, New(pc))
    BY <1>4 DEF StoreCache, Goto
  <2> HIDE DEF New
  <2> QED
    BY <1>2, <2>1, <2>2, StepInv
<1> QED
  BY <1>3, <1>4

\* A block starts where the blocks before it end.
LEMMA AlignedAfter ==
  ASSUME NEW call, Sizes(call), Aligned(call), NEW blocks \in Nat, NEW new,
         new.start = call.start, new.off = call.off + blocks * BlockLen,
         new.ctr = (call.ctr + blocks) % Values
  PROVE  Aligned(new) /\ new.ctr \in 0..Values - 1
<1>0. /\ BlockLen \in Nat \ {0} /\ Values \in Nat \ {0}
      /\ call.start \in Nat /\ call.ctr \in Nat
  BY ApplyAssumption, ValuesAssumption DEF Sizes
<1>1. PICK q \in Nat : call.off = BlockLen * q /\ call.ctr = (call.start + q) % Values
  BY DEF Aligned
<1>2. q + blocks \in Nat /\ BlockLen * (q + blocks) = BlockLen * q + blocks * BlockLen
  BY <1>0, SMTT(30)
<1>3. (call.ctr + blocks) % Values = (call.start + (q + blocks)) % Values
  <2> DEFINE a == call.start + q
  <2>1. a \in Nat /\ a + blocks = call.start + (q + blocks)
    BY <1>0
  <2> HIDE DEF a
  <2>2. ((a % Values) + blocks) % Values = (a + blocks) % Values
    BY <1>0, <2>1, AddModulo
  <2> QED
    BY <1>1, <2>1, <2>2 DEF a
<1>4. Aligned(new)
  <2>1. new.off = BlockLen * (q + blocks)
        /\ new.ctr = (new.start + (q + blocks)) % Values
    BY <1>1, <1>2, <1>3, Zenon
  <2> QED
    BY <1>2, <2>1, Zenon DEF Aligned
<1>5. new.ctr \in 0..Values - 1
  <2>1. call.ctr + blocks \in Nat
    BY <1>0
  <2>2. (call.ctr + blocks) % Values \in 0..Values - 1
    BY <1>0, <2>1, Quotient
  <2> QED
    BY <2>2, Zenon
<1> QED
  BY <1>4, <1>5

\* A record is known by its fields.
LEMMA RecordByFields ==
  ASSUME NEW r, r = [x \in DOMAIN r |-> r[x]],
         DOMAIN r = {"pc", "start", "ctr", "n", "off", "input", "out", "left"}
  PROVE  IsRecord(r)
<1> DEFINE s == [pc |-> r.pc, start |-> r.start, ctr |-> r.ctr, n |-> r.n,
                 off |-> r.off, input |-> r.input, out |-> r.out, left |-> r.left]
<1>1. DOMAIN s = DOMAIN r
  OBVIOUS
<1>2. s = [x \in DOMAIN s |-> s[x]]
  OBVIOUS
<1>3. \A x \in DOMAIN r : s[x] = r[x]
  OBVIOUS
<1> HIDE DEF s
<1>4. s = r
  BY <1>1, <1>2, <1>3
<1> QED
  BY <1>4, Zenon DEF IsRecord, s

\* A turn of one of the three loops: as many blocks as the kernel writes
LEMMA BatchAdvances ==
  ASSUME NEW call, Stream(call), Aligned(call), call.pc # "done",
         NEW kernel \in {"scalar", "sse2", "avx2", "neon"}, Room(call, LanesOf[kernel])
  PROVE  LET new == Batch(call, kernel, LanesOf[kernel])
         IN  /\ IsRecord(new) /\ new.pc = call.pc /\ new.input = call.input
             /\ Sizes(new) /\ Progress(new) /\ Aligned(new)
             /\ new.left = call.left
<1> DEFINE lanes == LanesOf[kernel]
           m == lanes * BlockLen
           new == Batch(call, kernel, lanes)
<1>0. /\ call.n \in Nat /\ call.off \in 0..call.n /\ call.ctr \in 0..Values - 1
      /\ BlockLen \in Nat \ {0} /\ lanes \in Nat /\ IsRecord(call)
  BY ApplyAssumption DEF Stream, Sizes, LanesOf
<1>1. m \in Nat
  <2> HIDE DEF lanes
  <2> QED
    BY <1>0, SMTT(30)
<1>2. Kernels[kernel][call.ctr].leaves = {}
  BY <1>0, KernelsAreRight
<1>3. /\ new.pc = call.pc /\ new.start = call.start /\ new.ctr = (call.ctr + lanes) % Values
      /\ new.n = call.n /\ new.off = call.off + m /\ new.input = call.input
      /\ new.out = XorOrCopy(call, kernel, m)
      /\ new.left = call.left \cup Kernels[kernel][call.ctr].leaves
      /\ IsRecord(new)
  <2> HIDE DEF lanes
  <2>1. /\ new.pc = call.pc /\ new.start = call.start
        /\ new.ctr = (call.ctr + lanes) % Values
        /\ new.n = call.n /\ new.off = call.off + m /\ new.input = call.input
        /\ new.out = XorOrCopy(call, kernel, m)
        /\ new.left = call.left \cup Kernels[kernel][call.ctr].leaves
    BY <1>0 DEF Batch, IsRecord
  <2>2. /\ DOMAIN new = {"pc", "start", "ctr", "n", "off", "input", "out", "left"}
        /\ new = [x \in DOMAIN new |-> new[x]]
    BY <1>0 DEF Batch, IsRecord
  <2> HIDE DEF new
  <2> QED
    BY <2>1, <2>2, RecordByFields
<1>4. call.out = Written(call.start, call.n, call.input, call.off)
  BY DEF Stream, Progress
<1>5. call.off + m <= call.n
  BY DEF Room
<1>6. XorOrCopy(call, kernel, m) = Written(call.start, call.n, call.input, call.off + m)
  <2>1. m <= lanes * BlockLen
    BY <1>1
  <2> HIDE DEF m
  <2>2. /\ kernel \in {"scalar", "sse2", "avx2", "neon", "witness"}
        /\ call.input \in Streams /\ Sizes(call)
    BY DEF Stream
  <2> QED
    BY <1>1, <1>4, <1>5, <2>1, <2>2, XorOrCopyAdvances
<1> HIDE DEF new
<1>7. /\ new.pc = call.pc /\ new.start = call.start /\ new.ctr = (call.ctr + lanes) % Values
      /\ new.n = call.n /\ new.off = call.off + lanes * BlockLen /\ new.input = call.input
      /\ new.out = Written(call.start, call.n, call.input, call.off + m)
      /\ new.left = call.left /\ IsRecord(new)
  <2> HIDE DEF lanes
  <2> QED
    BY <1>2, <1>3, <1>6
<1>8. Aligned(new) /\ new.ctr \in 0..Values - 1
  <2> HIDE DEF lanes, m
  <2>1. Sizes(call)
    BY DEF Stream
  <2> QED
    BY <1>0, <1>7, <2>1, AlignedAfter
<1>9. Sizes(new)
  <2> HIDE DEF lanes
  <2>1. Sizes(call)
    BY DEF Stream
  <2>2. new.off = call.off + m
    BY <1>7
  <2> HIDE DEF m
  <2> QED
    BY <1>0, <1>1, <1>5, <1>7, <1>8, <2>1, <2>2 DEF Sizes
<1>10. Progress(new)
  <2>1. new.out = Written(new.start, new.n, new.input, new.off)
    BY <1>7, Zenon
  <2>2. new.pc # "done"
    BY <1>7
  <2> QED
    BY <1>8, <2>1, <2>2 DEF Progress
<1> QED
  BY <1>7, <1>8, <1>9, <1>10 DEF new

\* A call may move on with some of its wiped keystream no longer held.
LEMMA MovedOn ==
  ASSUME NEW call, Stream(call), NEW pc, NEW left,
         NEW new, new = [call EXCEPT !.pc = pc, !.left = left],
         pc \in {"eight", "four", "one"}, Aligned(call), call.pc # "done",
         pc = "eight" => call.pc = "eight",
         left \subseteq (CASE pc = "eight" -> {"ks8"} [] pc = "four" -> {"ks4"}
                           [] OTHER -> {})
  PROVE  Stream(new)
<1>1. /\ new.pc = pc /\ new.start = call.start /\ new.ctr = call.ctr /\ new.n = call.n
      /\ new.off = call.off /\ new.input = call.input /\ new.out = call.out
      /\ new.left = left
  BY DEF Stream, IsRecord
<1>2. IsRecord(new)
  <2>1. /\ DOMAIN new = {"pc", "start", "ctr", "n", "off", "input", "out", "left"}
        /\ new = [x \in DOMAIN new |-> new[x]]
    BY DEF Stream, IsRecord
  <2> QED
    BY <2>1, RecordByFields
<1>3. Sizes(new)
  BY <1>1 DEF Stream, Sizes
<1>4. Aligned(new)
  BY <1>1 DEF Aligned
<1>5. Progress(new)
  BY <1>1, <1>4 DEF Stream, Progress
<1>6. Wiped(new) /\ Placed(new)
  BY <1>1 DEF Stream, Wiped, Placed
<1> QED
  BY <1>1, <1>2, <1>3, <1>5, <1>6 DEF Stream

\* What a call at one of the three loops has
LEMMA AtLoop ==
  ASSUME Inv, NEW t \in Threads, th[t].pc \in {"eight", "four", "one"}
  PROVE  /\ Stream(th[t]) /\ Aligned(th[t]) /\ th[t].pc # "done"
         /\ th[t].left \subseteq (CASE th[t].pc = "eight" -> {"ks8"}
                                    [] th[t].pc = "four" -> {"ks4"} [] OTHER -> {})
<1>1. Stream(th[t])
  BY WhoIsWhere
<1> QED
  BY <1>1 DEF Stream, Progress, Wiped

\* The three loops, their turns and their ends
LEMMA EightInv ==
  ASSUME Inv, NEW t \in Threads, Eight(t)
  PROVE  Inv'
<1> DEFINE batch == Batch(th[t], "avx2", 8)
           new == [batch EXCEPT !.left = @ \cup {"ks8"}]
<1>1. Stream(th[t]) /\ Aligned(th[t]) /\ th[t].pc = "eight" /\ th[t].left \subseteq {"ks8"}
  BY AtLoop DEF Eight, At
<1>2. /\ IsRecord(batch) /\ batch.pc = "eight" /\ batch.input = th[t].input
      /\ Sizes(batch) /\ Progress(batch) /\ Aligned(batch) /\ batch.left = th[t].left
  <2>1. LanesOf["avx2"] = 8 /\ Room(th[t], LanesOf["avx2"])
    BY DEF LanesOf, Eight
  <2> QED
    BY <1>1, <2>1, BatchAdvances
<1> HIDE DEF batch
<1>3. Stream(batch)
  <2>1. Placed(batch) /\ Wiped(batch)
    BY <1>1, <1>2 DEF Stream, Placed, Wiped
  <2> QED
    BY <1>1, <1>2, <2>1 DEF Stream
<1>4. Stream(new)
  <2>1. new = [batch EXCEPT !.pc = "eight", !.left = batch.left \cup {"ks8"}]
    BY <1>2 DEF IsRecord
  <2> HIDE DEF new
  <2>2. batch.left \cup {"ks8"} \subseteq {"ks8"}
    BY <1>1, <1>2
  <2> QED
    BY <1>2, <1>3, <2>1, <2>2, MovedOn
<1>5. Step(t, new) /\ cache' = cache
  BY DEF Eight, batch
<1> HIDE DEF new
<1> QED
  BY <1>4, <1>5, StepInv DEF Inv, Machine

\* The keystream of the wide loop is wiped behind it.
LEMMA EightDoneInv ==
  ASSUME Inv, NEW t \in Threads, EightDone(t)
  PROVE  Inv'
<1> DEFINE left == th[t].left \ {"ks8"}
           new == [th[t] EXCEPT !.pc = "four", !.left = left]
<1>1. Stream(th[t]) /\ Aligned(th[t]) /\ th[t].pc = "eight" /\ th[t].left \subseteq {"ks8"}
  BY AtLoop DEF EightDone, At
<1>2. Stream(new)
  <2>1. left \subseteq {}
    BY <1>1
  <2> HIDE DEF new, left
  <2>2. new = [th[t] EXCEPT !.pc = "four", !.left = left]
    BY DEF new
  <2> QED
    BY <1>1, <2>1, <2>2, MovedOn
<1>3. Step(t, new) /\ cache' = cache
  BY <1>1 DEF EightDone, Stream, IsRecord
<1> HIDE DEF new
<1> QED
  BY <1>2, <1>3, StepInv DEF Inv, Machine

\* The loop of four blocks, by SSE2 or NEON
LEMMA FourInv ==
  ASSUME Inv, NEW t \in Threads, Four(t)
  PROVE  Inv'
<1> DEFINE kernel == IF target = "neon" THEN "neon" ELSE "sse2"
           batch == Batch(th[t], kernel, 4)
           new == [batch EXCEPT !.left = @ \cup {"ks4"}]
<1>1. Stream(th[t]) /\ Aligned(th[t]) /\ th[t].pc = "four" /\ th[t].left \subseteq {"ks4"}
  BY AtLoop DEF Four, At
<1>2. /\ IsRecord(batch) /\ batch.pc = "four" /\ batch.input = th[t].input
      /\ Sizes(batch) /\ Progress(batch) /\ Aligned(batch) /\ batch.left = th[t].left
  <2>1. LanesOf[kernel] = 4 /\ Room(th[t], LanesOf[kernel]) /\ kernel \in {"sse2", "neon"}
    BY DEF LanesOf, Four
  <2> HIDE DEF kernel
  <2> QED
    BY <1>1, <2>1, BatchAdvances
<1>3. Step(t, new) /\ cache' = cache
  BY DEF Four
<1> HIDE DEF batch
<1>4. Stream(batch)
  <2>1. Placed(batch) /\ Wiped(batch)
    BY <1>1, <1>2 DEF Stream, Placed, Wiped
  <2> QED
    BY <1>1, <1>2, <2>1 DEF Stream
<1>5. Stream(new)
  <2>1. new = [batch EXCEPT !.pc = "four", !.left = batch.left \cup {"ks4"}]
    BY <1>2 DEF IsRecord
  <2> HIDE DEF new
  <2>2. batch.left \cup {"ks4"} \subseteq {"ks4"}
    BY <1>1, <1>2
  <2> QED
    BY <1>2, <1>4, <2>1, <2>2, MovedOn
<1> HIDE DEF new
<1> QED
  BY <1>3, <1>5, StepInv DEF Inv, Machine

\* Its keystream is wiped behind it.
LEMMA FourDoneInv ==
  ASSUME Inv, NEW t \in Threads, FourDone(t)
  PROVE  Inv'
<1> DEFINE left == th[t].left \ {"ks4"}
           new == [th[t] EXCEPT !.pc = "one", !.left = left]
<1>1. Stream(th[t]) /\ Aligned(th[t]) /\ th[t].pc = "four" /\ th[t].left \subseteq {"ks4"}
  BY AtLoop DEF FourDone, At
<1>2. Stream(new)
  <2>1. left \subseteq {}
    BY <1>1
  <2> HIDE DEF new, left
  <2>2. new = [th[t] EXCEPT !.pc = "one", !.left = left]
    BY DEF new
  <2> QED
    BY <1>1, <2>1, <2>2, MovedOn
<1>3. Step(t, new) /\ cache' = cache
  BY <1>1 DEF FourDone, Stream, IsRecord
<1> HIDE DEF new
<1> QED
  BY <1>2, <1>3, StepInv DEF Inv, Machine

\* The scalar loop
LEMMA OneInv ==
  ASSUME Inv, NEW t \in Threads, One(t)
  PROVE  Inv'
<1> DEFINE batch == Batch(th[t], "scalar", 1)
<1>1. Stream(th[t]) /\ Aligned(th[t]) /\ th[t].pc = "one" /\ th[t].left \subseteq {}
  BY AtLoop DEF One, At
<1>2. /\ IsRecord(batch) /\ batch.pc = "one" /\ batch.input = th[t].input
      /\ Sizes(batch) /\ Progress(batch) /\ Aligned(batch) /\ batch.left = th[t].left
  <2>1. LanesOf["scalar"] = 1 /\ Room(th[t], LanesOf["scalar"])
    BY DEF LanesOf, One
  <2> QED
    BY <1>1, <2>1, BatchAdvances
<1>3. Step(t, batch) /\ cache' = cache
  BY DEF One
<1> HIDE DEF batch
<1>4. Stream(batch)
  <2>1. Placed(batch) /\ Wiped(batch)
    BY <1>1, <1>2 DEF Stream, Placed, Wiped
  <2> QED
    BY <1>1, <1>2, <2>1 DEF Stream
<1> QED
  BY <1>3, <1>4, StepInv DEF Inv, Machine

\* The last bytes of a message, less than a block
LEMMA PartialInv ==
  ASSUME Inv, NEW t \in Threads, Partial(t)
  PROVE  Inv'
<1> DEFINE call == th[t]
           m == call.n - call.off
           left == call.left \cup (IF call.off = call.n THEN {}
                                   ELSE Kernels.scalar[call.ctr].leaves)
           new == [call EXCEPT !.out = XorOrCopy(call, "scalar", m), !.left = left,
                               !.pc = "done"]
<1>1. /\ Stream(call) /\ Aligned(call) /\ call.pc = "one" /\ call.left \subseteq {}
  BY AtLoop DEF Partial, At
<1>2. /\ call.n \in Nat /\ call.off \in 0..call.n /\ call.ctr \in 0..Values - 1
      /\ call.input \in Streams /\ Sizes(call)
      /\ call.out = Written(call.start, call.n, call.input, call.off)
  BY <1>1 DEF Stream, Sizes, Progress
<1>3. m \in Nat /\ m <= LanesOf["scalar"] * BlockLen /\ call.off + m <= call.n
      /\ call.off + m = call.n
  <2>1. BlockLen \in Nat /\ LanesOf["scalar"] = 1
    BY ApplyAssumption DEF LanesOf
  <2>2. ~(call.off + 1 * BlockLen <= call.n)
    BY DEF Partial, Room
  <2>3. 1 * BlockLen = BlockLen
    BY <2>1
  <2> QED
    BY <1>2, <2>1, <2>2, <2>3
<1>4. XorOrCopy(call, "scalar", m) = Written(call.start, call.n, call.input, call.n)
  <2>1. XorOrCopy(call, "scalar", m) = Written(call.start, call.n, call.input, call.off + m)
    <3> HIDE DEF m, call
    <3> QED
      BY <1>1, <1>2, <1>3, XorOrCopyAdvances
  <2> HIDE DEF m, call
  <2> QED
    BY <1>3, <2>1
<1>5. left = {}
  <2>1. Kernels["scalar"][call.ctr].leaves = {}
    BY <1>2, KernelsAreRight
  <2> QED
    BY <1>1, <2>1
<1>6. Step(t, new) /\ cache' = cache
  BY DEF Partial
<1>7. /\ new.pc = "done" /\ new.start = call.start /\ new.ctr = call.ctr /\ new.n = call.n
      /\ new.off = call.off /\ new.input = call.input /\ new.left = left
      /\ new.out = XorOrCopy(call, "scalar", m)
  <2> HIDE DEF left, m, call
  <2> QED
    BY <1>1 DEF Stream, IsRecord
<1>8. IsRecord(new)
  <2> HIDE DEF left, m, call
  <2>1. /\ DOMAIN new = {"pc", "start", "ctr", "n", "off", "input", "out", "left"}
        /\ new = [x \in DOMAIN new |-> new[x]]
    BY <1>1 DEF Stream, IsRecord
  <2> HIDE DEF new
  <2> QED
    BY <2>1, RecordByFields
<1>9. Stream(new)
  <2> HIDE DEF new, left, m, call
  <2>1. Sizes(new)
    BY <1>2, <1>7 DEF Sizes
  <2>2. Progress(new)
    <3>1. new.out = Written(new.start, new.n, new.input, new.n)
      BY <1>4, <1>7
    <3> QED
      BY <1>7, <3>1 DEF Progress
  <2>3. Wiped(new) /\ Placed(new)
    BY <1>5, <1>7 DEF Wiped, Placed
  <2> QED
    BY <1>2, <1>7, <1>8, <2>1, <2>2, <2>3 DEF Stream
<1> HIDE DEF new
<1> QED
  BY <1>6, <1>9, StepInv DEF Inv, Machine

\* keystream_xor: a whole block, or the last bytes
LEMMA WitnessTurnInv ==
  ASSUME Inv, NEW t \in Threads, WitnessTurn(t)
  PROVE  Inv'
<1> DEFINE call == th[t]
           m == IF call.n - call.off < BlockLen THEN call.n - call.off ELSE BlockLen
           left == call.left \cup Kernels.witness[call.ctr].leaves
           new == [call EXCEPT !.out = XorOrCopy(call, "witness", m),
                               !.ctr = (@ + 1) % Values, !.off = @ + m, !.left = left]
<1>0. BlockLen \in Nat \ {0} /\ LanesOf["witness"] = 1 /\ 1 * BlockLen = BlockLen
      /\ Values \in Nat \ {0}
  BY ApplyAssumption, ValuesAssumption DEF LanesOf
<1>1. /\ Stream(call) /\ call.pc = "witness" /\ call.off < call.n
  BY WhoIsWhere DEF WitnessTurn, At
<1>2. /\ call.n \in Nat /\ call.off \in 0..call.n /\ call.ctr \in 0..Values - 1
      /\ call.input \in Streams /\ Sizes(call) /\ call.left \subseteq {}
      /\ call.out = Written(call.start, call.n, call.input, call.off)
  BY <1>1 DEF Stream, Sizes, Progress, Wiped
<1>3. Aligned(call)
  BY <1>1, <1>2 DEF Stream, Progress
<1>4. m \in Nat /\ m <= LanesOf["witness"] * BlockLen /\ call.off + m <= call.n
      /\ (m = BlockLen \/ call.off + m = call.n)
  BY <1>0, <1>2
<1>5. XorOrCopy(call, "witness", m) = Written(call.start, call.n, call.input, call.off + m)
  <2> HIDE DEF m, call
  <2> QED
    BY <1>1, <1>2, <1>3, <1>4, XorOrCopyAdvances
<1>6. left = {}
  <2>1. Kernels["witness"][call.ctr].leaves = {}
    BY <1>2, KernelsAreRight
  <2> QED
    BY <1>2, <2>1
<1>7. Step(t, new) /\ cache' = cache
  BY DEF WitnessTurn
<1>8. /\ new.pc = "witness" /\ new.start = call.start /\ new.ctr = (call.ctr + 1) % Values
      /\ new.n = call.n /\ new.off = call.off + m /\ new.input = call.input
      /\ new.left = left /\ new.out = XorOrCopy(call, "witness", m)
  <2> HIDE DEF left, m, call
  <2> QED
    BY <1>1 DEF Stream, IsRecord
<1>9. IsRecord(new)
  <2> HIDE DEF left, m, call
  <2>1. /\ DOMAIN new = {"pc", "start", "ctr", "n", "off", "input", "out", "left"}
        /\ new = [x \in DOMAIN new |-> new[x]]
    BY <1>1 DEF Stream, IsRecord
  <2> HIDE DEF new
  <2> QED
    BY <2>1, RecordByFields
<1>10. Stream(new)
  <2> HIDE DEF new, left, m, call
  <2>1. new.ctr \in 0..Values - 1
    <3>1. call.ctr + 1 \in Nat
      BY <1>2
    <3>2. (call.ctr + 1) % Values \in 0..Values - 1
      BY <1>0, <3>1, Quotient
    <3> QED
      BY <1>8, <3>2
  <2>2. Sizes(new)
    BY <1>2, <1>4, <1>8, <2>1 DEF Sizes
  <2>3. (new.pc = "witness" /\ new.off = new.n) \/ Aligned(new)
    <3>1. CASE m = BlockLen
      <4>1. new.off = call.off + 1 * BlockLen
        BY <1>0, <1>8, <3>1
      <4> QED
        BY <1>2, <1>3, <1>8, <4>1, AlignedAfter
    <3>2. CASE call.off + m = call.n
      BY <1>8, <3>2
    <3> QED
      BY <1>4, <3>1, <3>2
  <2>4. Progress(new)
    <3>1. new.out = Written(new.start, new.n, new.input, new.off)
      BY <1>5, <1>8
    <3> QED
      BY <1>8, <2>3, <3>1 DEF Progress
  <2>5. Wiped(new) /\ Placed(new)
    BY <1>6, <1>8 DEF Wiped, Placed
  <2> QED
    BY <1>2, <1>8, <1>9, <2>2, <2>4, <2>5 DEF Stream
<1> HIDE DEF new
<1> QED
  BY <1>7, <1>10, StepInv DEF Inv, Machine

\* keystream_xor has nothing left to do.
LEMMA WitnessDoneInv ==
  ASSUME Inv, NEW t \in Threads, WitnessDone(t)
  PROVE  Inv'
<1> DEFINE call == th[t]
           new == [call EXCEPT !.pc = "done"]
<1>1. Stream(call) /\ call.pc = "witness" /\ call.off = call.n
  BY WhoIsWhere DEF WitnessDone, At
<1>2. Step(t, new) /\ cache' = cache
  BY DEF WitnessDone, Goto
<1> HIDE DEF call
<1>3. /\ IsRecord(new) /\ new.pc = "done"
      /\ new.start = call.start /\ new.ctr = call.ctr /\ new.n = call.n
      /\ new.off = call.off /\ new.input = call.input
      /\ new.out = call.out /\ new.left = call.left
  BY <1>1 DEF Stream, IsRecord
<1> HIDE DEF new
<1>4. Sizes(new)
  BY <1>1, <1>3 DEF Stream, Sizes
<1>5. Progress(new)
  <2>1. call.out = Written(call.start, call.n, call.input, call.n)
    BY <1>1 DEF Stream, Progress
  <2> QED
    BY <1>3, <2>1 DEF Progress
<1>6. Wiped(new) /\ Placed(new)
  BY <1>1, <1>3 DEF Stream, Wiped, Placed
<1>7. Stream(new)
  BY <1>1, <1>3, <1>4, <1>5, <1>6 DEF Stream
<1> QED
  BY <1>2, <1>7, StepInv DEF Inv, Machine

\* Either implementation of HChaCha20, which are one
LEMMA SubkeyInv ==
  ASSUME Inv, NEW t \in Threads, Subkey(t)
  PROVE  Inv'
<1> DEFINE call == th[t]
<1>1. Derivation(call)
  BY WhoIsWhere DEF Subkey, At
<1>2. PICK out \in {HChaCha20Into(SubkeyNonce), WitnessHChaCha20(SubkeyNonce)} :
        Step(t, [call EXCEPT !.out = out, !.pc = "derived"])
  BY DEF Subkey
<1>3. out = WitnessHChaCha20(SubkeyNonce)
  BY <1>2, SubkeyIsOne
<1> DEFINE new == [call EXCEPT !.out = out, !.pc = "derived"]
<1>4. new.pc = "derived" /\ new.out = out /\ new.input = call.input
  BY <1>1 DEF Derivation, IsRecord
<1>5. /\ DOMAIN new = {"pc", "start", "ctr", "n", "off", "input", "out", "left"}
      /\ new = [x \in DOMAIN new |-> new[x]]
  BY <1>1 DEF Derivation, IsRecord
<1>6. Step(t, new) /\ cache' = cache
  BY <1>2 DEF Subkey
<1> HIDE DEF call, new
<1>7. IsRecord(new)
  BY <1>5, RecordByFields
<1>8. Derivation(new)
  BY <1>1, <1>3, <1>4, <1>7 DEF Derivation
<1> QED
  BY <1>6, <1>8, StepInv DEF Inv, Machine

\* A call returns.
LEMMA ReturnInv ==
  ASSUME Inv, NEW t \in Threads, Return(t)
  PROVE  Inv'
BY StepInv DEF Return, Inv, Machine

\* Every step of a thread, and every stutter, keeps the invariant.
LEMMA NextInv ==
  ASSUME Inv, [Next]_vars
  PROVE  Inv'
<1>1. CASE Next
  BY <1>1, CallInv, CacheInv, EightInv, EightDoneInv, FourInv, FourDoneInv, OneInv,
     PartialInv,
     WitnessTurnInv, WitnessDoneInv, SubkeyInv, ReturnInv DEF Next, Work
<1>2. CASE UNCHANGED vars
  BY <1>2 DEF vars, Inv, Machine, Threading, Stream, Derivation, Placed, Detect, IsRecord,
              Sizes, Progress, Wiped, Aligned
<1> QED
  BY <1>1, <1>2
-----------------------------------------------------------------------------
(* The theorems *)

\* In every reachable state, every call stands where its counter says, with the bytes
\* before its place done and nothing else changed.
THEOREM InvAlways == Spec => []Inv
<1>1. Init => Inv
  BY InitInv
<1>2. Inv /\ [Next]_vars => Inv'
  BY NextInv
<1> QED
  BY <1>1, <1>2, PTL DEF Spec

\* Every byte of a message, of any length the entry points let through, is XORed with the
\* keystream byte of its own place, once, whichever batches it went through, and no two
\* bytes of it with the same one.
THEOREM KeystreamAlways == Spec => []KeystreamInPlace
<1>1. Inv => KeystreamInPlace
  <2> SUFFICES ASSUME Inv, NEW t \in Threads, Working(t)
               PROVE  LET call == th[t]
                          done == IF At(t, "done") THEN call.n ELSE call.off
                      IN  /\ \A i \in 1..call.n :
                               call.out[i] = IF i <= done
                                             THEN Xor(Text(call.input), {KeyByte(call.start, i)})
                                             ELSE Old(call.input)
                          /\ Cardinality({KeyByte(call.start, i) : i \in 1..call.n}) = call.n
    BY DEF KeystreamInPlace
  <2> DEFINE call == th[t]
             done == IF At(t, "done") THEN call.n ELSE call.off
  <2>1. Stream(call)
    BY DEF Inv, Threading, Working, At, Idle, Derivation
  <2>2. call.out = Written(call.start, call.n, call.input, done)
    BY <2>1 DEF Stream, Progress, At
  <2> HIDE DEF done
  <2>3. \A i \in 1..call.n :
          call.out[i] = IF i <= done THEN Xor(Text(call.input), {KeyByte(call.start, i)})
                        ELSE Old(call.input)
    BY <2>2 DEF Written
  <2>4. Cardinality({KeyByte(call.start, i) : i \in 1..call.n}) = call.n
    <3>1. call.start \in 0..Values - 1 /\ call.n \in Nat /\ call.n <= MaxMsg
      BY <2>1 DEF Stream, Sizes
    <3> HIDE DEF call
    <3> QED
      BY <3>1, KeyBytesApart
  <2> QED
    BY <2>3, <2>4 DEF done
<1> QED
  BY <1>1, InvAlways, PTL

\* The wide keystreams are wiped before the call goes on to the next loop, and no kernel
\* leaves a local that holds key words.
THEOREM WipedAlways == Spec => []KeystreamWiped
<1>1. Inv => KeystreamWiped
  BY DEF Inv, Threading, KeystreamWiped, Working, At, Idle, Derivation, Stream, Wiped
<1> QED
  BY <1>1, InvAlways, PTL

\* Whichever implementation a thread asks for its subkey, it gets the same.
THEOREM SubkeysAlways == Spec => []SubkeysAgree
<1>1. Inv => SubkeysAgree
  BY DEF Inv, Threading, SubkeysAgree, At, Idle, Derivation, Stream, Placed
<1> QED
  BY <1>1, InvAlways, PTL

\* However the threads race to the cache, the AVX2 kernel runs only on a machine that has
\* AVX2, whose operating system saves its registers.
THEOREM SupportedAlways == Spec => []KernelIsSupported
<1>1. Inv => KernelIsSupported
  BY DEF Inv, Threading, KernelIsSupported, At, Idle, Derivation, Stream, Placed, Detect
<1> QED
  BY <1>1, InvAlways, PTL
=============================================================================
