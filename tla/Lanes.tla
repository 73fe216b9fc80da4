------------------------------- MODULE Lanes -------------------------------
(***************************************************************************)
(* The vector instructions the kernels use (core::arch), on vectors that   *)
(* are sequences of words, first lane first.  Lane numbers in the          *)
(* immediates count from 0, and are given from the last lane to the first, *)
(* as in _MM_SHUFFLE.                                                      *)
(***************************************************************************)
EXTENDS Integers, Sequences

\* _mm_shuffle_epi32, _mm_shuffle_ps
Shuffle(a, z, y, x, w) == <<a[w + 1], a[x + 1], a[y + 1], a[z + 1]>>
Shuffle2(a, b, z, y, x, w) == <<a[w + 1], a[x + 1], b[y + 1], b[z + 1]>>

\* i32x4_shuffle: lanes 4 to 7 are those of b
I32x4Shuffle(a, b, i, j, k, l) ==
  LET both == a \o b IN <<both[i + 1], both[j + 1], both[k + 1], both[l + 1]>>

\* i64x2_shuffle, on pairs of words
I64x2Shuffle(a, b, i, j) ==
  LET both == a \o b IN SubSeq(both, 2 * i + 1, 2 * i + 2) \o SubSeq(both, 2 * j + 1, 2 * j + 2)

\* The unpack instructions, on every 128 bits of the vectors by themselves.
PerHalf(Op(_, _), a, b) ==
  IF Len(a) = 4 THEN Op(a, b)
  ELSE Op(SubSeq(a, 1, 4), SubSeq(b, 1, 4)) \o Op(SubSeq(a, 5, 8), SubSeq(b, 5, 8))

UnpackLo32(a, b) == PerHalf(LAMBDA p, q : <<p[1], q[1], p[2], q[2]>>, a, b)
UnpackHi32(a, b) == PerHalf(LAMBDA p, q : <<p[3], q[3], p[4], q[4]>>, a, b)
UnpackLo64(a, b) == PerHalf(LAMBDA p, q : <<p[1], p[2], q[1], q[2]>>, a, b)
UnpackHi64(a, b) == PerHalf(LAMBDA p, q : <<p[3], p[4], q[3], q[4]>>, a, b)

\* _mm256_permute2x128_si256: half 0 and 1 are those of a, 2 and 3 those of b
Permute2x128(a, b, hi, lo) ==
  LET half(h) == IF h < 2 THEN SubSeq(a, 4 * h + 1, 4 * h + 4)
                 ELSE SubSeq(b, 4 * h - 7, 4 * h - 4)
  IN  half(lo) \o half(hi)

\* Bit k of an immediate of eight
Bit(imm, k) == (imm \div <<1, 2, 4, 8, 16, 32, 64, 128>>[k + 1]) % 2 = 1

\* _mm_blend_epi16, on words of two 16-bit lanes: a word is taken whole or mixed.
Blend16(a, b, imm) ==
  [i \in 1..4 |->
     IF Bit(imm, 2 * i - 2) /\ Bit(imm, 2 * i - 1) THEN b[i]
     ELSE IF Bit(imm, 2 * i - 2) \/ Bit(imm, 2 * i - 1) THEN -1 ELSE a[i]]
=============================================================================
