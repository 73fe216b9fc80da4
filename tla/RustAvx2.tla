------------------------------ MODULE RustAvx2 ------------------------------
(***************************************************************************)
(* rust_avx2.rs: eight inputs at once; what is left goes to crate::sse41,  *)
(* the module that the build compiled under that name.                     *)
(***************************************************************************)
EXTENDS Blake3Lanes, Lanes

Rot16 == ByShifts(16, 32 - 16)
Rot12 == ByShifts(12, 32 - 12)
Rot8 == ByShifts(8, 32 - 8)
Rot7 == ByShifts(7, 32 - 7)

Round(r) == LaneRound(r, Rot16, Rot12, Rot8, Rot7)

\* _mm256_permute2x128_si256 by 0x20 and by 0x31
Interleave128(a, b) == <<Permute2x128(a, b, 2, 0), Permute2x128(a, b, 3, 1)>>

\* 32-bit lanes, 64-bit lanes, and the halves of the vectors
TransposeVecs(v) ==
  LET lo(i) == UnpackLo32(v[i], v[i + 1])    \* lanes 0, 1, 4, 5 of a pair
      hi(i) == UnpackHi32(v[i], v[i + 1])    \* lanes 2, 3, 6, 7
      four(i) == <<UnpackLo64(lo(i), lo(i + 2)), UnpackHi64(lo(i), lo(i + 2)),
                   UnpackLo64(hi(i), hi(i + 2)), UnpackHi64(hi(i), hi(i + 2))>>
      both == [k \in 1..4 |-> Interleave128(four(1)[k], four(5)[k])]
  IN  [k \in 1..8 |-> IF k <= 4 THEN both[k][1] ELSE both[k - 4][2]]

TransposeMsgVecs(inputs, b) ==
  InOrder(8, Listing(2, LAMBDA q : TransposeVecs(Loaded(inputs, b, q))))

Counters(counter, increment) == LoadCounters(8, counter, increment)

Hash8(inputs, blocks, counter, increment) ==
  LET out == TransposeVecs(HashBlocks(inputs, blocks, Counters(counter, increment),
                                      LaneCompression([r \in 1..7 |-> Round(r)]),
                                      [b \in 1..blocks |-> TransposeMsgVecs(inputs, b)]))
  IN  Listing(8, LAMBDA i : Gather(out[i]))

HashMany(Sse41HashMany(_, _, _, _), inputs, blocks, counter, increment) ==
  LET groups == Len(inputs) \div 8
      at(n) == Advanced(counter, increment, n)
  IN  FlattenSeq(Listing(groups, LAMBDA g :
                   Hash8(GroupOf(inputs, 8, g), blocks, at(8 * (g - 1)), increment)))
        \o Sse41HashMany(After(inputs, 8 * groups), blocks, at(8 * groups), increment)
=============================================================================
