--------------------------- MODULE ChaChaKernels ---------------------------
(***************************************************************************)
(* The ChaCha20 block and HChaCha20 in each of their implementations: the  *)
(* scalar code of src/src/lib.rs, its kernels of four blocks (SSE2, NEON)  *)
(* and of eight (AVX2), and the second implementation in witness.rs.       *)
(*                                                                         *)
(* Words are symbolic.  A word of the initial state is what it is loaded   *)
(* from; a word after the rounds is its place, the initial state it was    *)
(* mixed from, and the rounds; an output word is one of those added to a   *)
(* word of the initial state.  A quarter round is a sequence of steps      *)
(* <<a, b, d, r>>: a += b, then d = (d ^ a) <<< r.                         *)
(***************************************************************************)
EXTENDS Lanes

CONSTANT Values \* those of the block counter: 2^32 of a u32

ASSUME ValuesAssumption == Values \in Nat \ {0}

Words == 0..15

-----------------------------------------------------------------------------
(* The scalar code *)

\* chacha20_state_words; chacha20_block_into and hchacha20_into load the same
StateWords(last) ==
  [i \in Words |-> CASE i < 4 -> <<"constant", i>>
                     [] i \in 4..11 -> <<"key", i - 4>>
                     [] OTHER -> last[i - 11]]

Nonce == << <<"nonce", 0>>, <<"nonce", 1>>, <<"nonce", 2>> >>
Counter(c) == <<"counter", c % Values>>

State(c) == StateWords(<<Counter(c)>> \o Nonce)

Qr(a, b, c, d) == << <<a, b, d, 16>>, <<c, d, b, 12>>, <<a, b, d, 8>>, <<c, d, b, 7>> >>

\* A column round and a diagonal round
DoubleRound(Q(_, _, _, _)) ==
  << {Q(0, 4, 8, 12), Q(1, 5, 9, 13), Q(2, 6, 10, 14), Q(3, 7, 11, 15)},
     {Q(0, 5, 10, 15), Q(1, 6, 11, 12), Q(2, 7, 8, 13), Q(3, 4, 9, 14)} >>

Rounds(Q(_, _, _, _)) == [times |-> 10, round |-> DoubleRound(Q)]

Mixed(s, rounds) == [i \in Words |-> <<i, s, rounds>>]

\* What a kernel writes, and which of the locals that hold key words it leaves.
Kernel(blocks, holds, wipes) == [blocks |-> blocks, leaves |-> holds \ wipes]

BlockInto(c) ==
  LET s == Mixed(State(c), Rounds(Qr))
      orig == State(c)
  IN  Kernel(<<[i \in 1..16 |-> <<s[i - 1], orig[i - 1]>>]>>, {"s", "orig"}, {"s", "orig"})

\* Mutant: the words where the key was.
HChaCha20IntoMiddle(nonce) ==
  [i \in 1..8 |-> Mixed(StateWords(nonce), Rounds(Qr))[i + 3]]

\* Without the addition, words 0 to 3 and 12 to 15
HChaCha20Into(nonce) ==
  LET s == Mixed(StateWords(nonce), Rounds(Qr))
      indices == <<0, 1, 2, 3, 12, 13, 14, 15>>
  IN  [i \in 1..8 |-> s[indices[i]]]

-----------------------------------------------------------------------------
(* Vectors: x[i] holds word i of every block, a lane for each. *)

\* A rotation to the left by two shifts that meet; 0 is none.
Rotl(left, right) == IF left + right = 32 THEN left ELSE 0

Broadcast(w, lanes) == [k \in 1..lanes |-> w]

\* The state in every lane, and the counters that follow c in word 12
Vectors(s, counters) ==
  [i \in Words |-> IF i = 12 THEN counters ELSE Broadcast(s[i], Len(counters))]

Counters(c, lanes) == [k \in 1..lanes |-> Counter(c + k - 1)]

\* The rounds on every lane at once
MixedVectors(x, rounds) ==
  [i \in Words |-> [k \in 1..Len(x[0]) |-> Mixed([j \in Words |-> x[j][k]], rounds)[i]]]

Add(a, b) == [k \in 1..Len(a) |-> <<a[k], b[k]>>]

Qr128(a, b, c, d) ==
  << <<a, b, d, Rotl(16, 16)>>, <<c, d, b, Rotl(12, 20)>>,
     <<a, b, d, Rotl(8, 24)>>, <<c, d, b, Rotl(7, 25)>> >>

Transpose4x4(m) ==
  LET s0 == UnpackLo32(m[1], m[2])  s1 == UnpackHi32(m[1], m[2])
      s2 == UnpackLo32(m[3], m[4])  s3 == UnpackHi32(m[3], m[4])
  IN  <<UnpackLo64(s0, s2), UnpackHi64(s0, s2), UnpackLo64(s1, s3), UnpackHi64(s1, s3)>>

\* x86_simd::blocks4: block j is the vectors j of the four transposed squares.
Blocks4(c) ==
  LET orig == Vectors(State(c), Counters(c, 4))
      x == MixedVectors(orig, Rounds(Qr128))
      square(i) == Transpose4x4([j \in 1..4 |-> Add(x[4 * i + j - 1], orig[4 * i + j - 1])])
  IN  Kernel([j \in 1..4 |-> square(0)[j] \o square(1)[j] \o square(2)[j] \o square(3)[j]],
             {"s", "x", "orig"}, {"x", "orig", "s"})

Qr256(a, b, c, d) ==
  << <<a, b, d, Rotl(16, 16)>>, <<c, d, b, Rotl(12, 20)>>,
     <<a, b, d, Rotl(8, 24)>>, <<c, d, b, Rotl(7, 25)>> >>

\* The same unpacks on vectors of eight, then halves of the vectors are joined.
Transpose8x8(m) ==
  LET s == Transpose4x4(SubSeq(m, 1, 4)) \o Transpose4x4(SubSeq(m, 5, 8))
  IN  [i \in 1..8 |-> IF i <= 4 THEN Permute2x128(s[i], s[i + 4], 2, 0)
                      ELSE Permute2x128(s[i - 4], s[i], 3, 1)]

\* Mutant: the last addition takes every word of the initial state from the scalars.
FeedScalars(s, counters) == [i \in Words |-> Broadcast(s[i], Len(counters))]

\* What blocks8 adds at the end: it has kept no copy of x, only ctr_vec.
Feed(s, counters) ==
  [i \in Words |-> IF i = 12 THEN counters ELSE Broadcast(s[i], Len(counters))]

\* x86_simd::blocks8: block k is the vectors k of the two transposed halves.
Blocks8(c) ==
  LET ctrVec == Counters(c, 8)
      x == MixedVectors(Vectors(State(c), ctrVec), Rounds(Qr256))
      half(h) == Transpose8x8([j \in 1..8 |->
                   Add(x[8 * h + j - 1], Feed(State(c), ctrVec)[8 * h + j - 1])])
  IN  Kernel([k \in 1..8 |-> half(0)[k] \o half(1)[k]], {"s", "x"}, {"x", "s"})

Qrq(a, b, c, d) ==
  << <<a, b, d, Rotl(16, 16)>>, <<c, d, b, Rotl(12, 20)>>,
     <<a, b, d, Rotl(8, 24)>>, <<c, d, b, Rotl(7, 25)>> >>

\* aarch64_simd::blocks4: the lanes are picked one by one.
NeonBlocks4(c) ==
  LET orig == Vectors(State(c), Counters(c, 4))
      x == MixedVectors(orig, Rounds(Qrq))
      w == [i \in Words |-> Add(x[i], orig[i])]
  IN  Kernel([j \in 1..4 |-> [i \in 1..16 |-> w[i - 1][j]]],
             {"s", "x", "orig", "w"}, {"x", "orig", "w", "s"})

-----------------------------------------------------------------------------
(* witness.rs *)

\* quarter, as RFC 8439 states it
Quarter(a, b, c, d) == << <<a, b, d, 16>>, <<c, d, b, 12>>, <<a, b, d, 8>>, <<c, d, b, 7>> >>

\* block
WitnessBlock(c) ==
  LET s == State(c)
      v == Mixed(s, Rounds(Quarter))
  IN  Kernel(<<[i \in 1..16 |-> <<v[i - 1], s[i - 1]>>]>>, {"s", "v"}, {"v", "s"})

\* hchacha20
WitnessHChaCha20(nonce) ==
  LET v == Mixed(StateWords(nonce), Rounds(Quarter))
  IN  SubSeq([i \in 1..16 |-> v[i - 1]], 1, 4) \o SubSeq([i \in 1..16 |-> v[i - 1]], 13, 16)

-----------------------------------------------------------------------------
\* A block of 64 bytes by the counter of the block it is, and -1 for what is none.
NameOf(block) ==
  LET c == {d \in 0..Values - 1 : block = WitnessBlock(d).blocks[1]}
  IN  IF c = {} THEN -1 ELSE CHOOSE d \in c : TRUE

Named(Run(_)) ==
  [c \in 0..Values - 1 |->
     LET k == Run(c)
     IN  [blocks |-> [b \in 1..Len(k.blocks) |-> NameOf(k.blocks[b])], leaves |-> k.leaves]]

\* What every kernel writes when it starts at counter c.
Kernels ==
  [scalar |-> Named(BlockInto), sse2 |-> Named(Blocks4), avx2 |-> Named(Blocks8),
   neon |-> Named(NeonBlocks4), witness |-> Named(WitnessBlock)]
=============================================================================
