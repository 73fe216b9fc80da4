----------------------------- MODULE Wasm32Simd -----------------------------
(***************************************************************************)
(* wasm32_simd.rs: the kernel on the 128-bit vectors of WebAssembly, which *)
(* makes the instructions of SSE from shuffles with lanes counted from the *)
(* first.                                                                  *)
(***************************************************************************)
EXTENDS Blake3Lanes, Lanes

\* Whole bytes by a shuffle of the bytes, the rest by two shifts
Rot16 == ByBytes(<<2, 3, 0, 1>>)
Rot12 == ByShifts(12, 32 - 12)
Rot8 == ByBytes(<<1, 2, 3, 0>>)
Rot7 == ByShifts(7, 32 - 7)

ShuffleMacro(a, b, z, y, x, w) == I32x4Shuffle(a, b, w, x, y + 4, z + 4)
ShuffleEpi32(a, i3, i2, i1, i0) == I32x4Shuffle(a, a, i0, i1, i2, i3)

UnpackLoEpi64(a, b) == I64x2Shuffle(a, b, 0, 2)
UnpackHiEpi64(a, b) == I64x2Shuffle(a, b, 1, 3)
UnpackLoEpi32(a, b) == I32x4Shuffle(a, b, 0, 4, 1, 5)
UnpackHiEpi32(a, b) == I32x4Shuffle(a, b, 2, 6, 3, 7)

G1(rows, m) == HalfSteps(rows, m, Rot16, Rot12)
G2(rows, m) == HalfSteps(rows, m, Rot8, Rot7)

\* Rows 0, 2 and 3 turn: row 1 stays where it is.
Diagonalize(rows) ==
  <<ShuffleEpi32(rows[1], 2, 1, 0, 3), rows[2],
    ShuffleEpi32(rows[3], 0, 3, 2, 1), ShuffleEpi32(rows[4], 1, 0, 3, 2)>>

Undiagonalize(rows) ==
  <<ShuffleEpi32(rows[1], 0, 3, 2, 1), rows[2],
    ShuffleEpi32(rows[3], 2, 1, 0, 3), ShuffleEpi32(rows[4], 1, 0, 3, 2)>>

\* The lanes whose bit is set in the immediate come from b, through a mask: v128_bitselect.
BlendEpi16(a, b, imm8) ==
  LET mask == {k \in 0..7 : Bit(imm8, k)}
  IN  [i \in 1..4 |-> IF {2 * i - 2, 2 * i - 1} \subseteq mask THEN b[i]
                      ELSE IF {2 * i - 2, 2 * i - 1} \cap mask = {} THEN a[i] ELSE -1]

\* Round 1: from the order of the input to the groups mixed in parallel
FirstWords(m) ==
  <<ShuffleMacro(m[1], m[2], 2, 0, 2, 0),
    ShuffleMacro(m[1], m[2], 3, 1, 3, 1),
    ShuffleEpi32(ShuffleMacro(m[3], m[4], 2, 0, 2, 0), 2, 1, 0, 3),
    ShuffleEpi32(ShuffleMacro(m[3], m[4], 3, 1, 3, 1), 2, 1, 0, 3)>>

\* Rounds 2 to 7: a fixed permutation of the groups of the round before
NextWords(m) ==
  <<ShuffleEpi32(ShuffleMacro(m[1], m[2], 3, 1, 1, 2), 0, 3, 2, 1),
    BlendEpi16(ShuffleEpi32(m[1], 0, 0, 3, 3), ShuffleMacro(m[3], m[4], 3, 3, 2, 2), 204),
    ShuffleEpi32(BlendEpi16(UnpackLoEpi64(m[4], m[2]), m[3], 192), 1, 3, 2, 0),
    ShuffleEpi32(UnpackLoEpi32(m[3], UnpackHiEpi32(m[2], m[4])), 0, 1, 3, 2)>>

CompressPre == RowCompression(G1, G2, Diagonalize, Undiagonalize, FirstWords, NextWords)

CompressInPlace == CompressPre
CompressXof == CompressPre

-----------------------------------------------------------------------------
(* Four inputs *)

Round(r) == LaneRound(r, Rot16, Rot12, Rot8, Rot7)

\* 32-bit lanes are interleaved, then 64-bit lanes.
TransposeVecs(v) ==
  LET ab01 == UnpackLoEpi32(v[1], v[2])
      ab23 == UnpackHiEpi32(v[1], v[2])
      cd01 == UnpackLoEpi32(v[3], v[4])
      cd23 == UnpackHiEpi32(v[3], v[4])
  IN  <<UnpackLoEpi64(ab01, cd01), UnpackHiEpi64(ab01, cd01),
        UnpackLoEpi64(ab23, cd23), UnpackHiEpi64(ab23, cd23)>>

TransposeMsgVecs(inputs, b) ==
  InOrder(4, Listing(4, LAMBDA q : TransposeVecs(Loaded(inputs, b, q))))

Counters(counter, increment) == LoadCounters(4, counter, increment)

Hash4(inputs, blocks, counter, increment) ==
  LET h == HashBlocks(inputs, blocks, Counters(counter, increment),
                      LaneCompression([r \in 1..7 |-> Round(r)]),
                      [b \in 1..blocks |-> TransposeMsgVecs(inputs, b)])
  IN  StoreFour(TransposeVecs(SubSeq(h, 1, 4)), TransposeVecs(SubSeq(h, 5, 8)))

\* Groups of four while enough inputs are left, then one by one with hash1
HashMany(inputs, blocks, counter, increment) ==
  LET groups == Len(inputs) \div 4
      at(n) == Advanced(counter, increment, n)
  IN  FlattenSeq(Listing(groups, LAMBDA g :
                   Hash4(GroupOf(inputs, 4, g), blocks, at(4 * (g - 1)), increment)))
        \o HashEach(After(inputs, 4 * groups), blocks, at(4 * groups), increment,
                    CompressInPlace)
=============================================================================
