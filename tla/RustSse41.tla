----------------------------- MODULE RustSse41 ------------------------------
(***************************************************************************)
(* rust_sse41.rs: the kernel on SSE4.1.                                   *)
(***************************************************************************)
EXTENDS Blake3Lanes, Lanes

Rot16 == ByShifts(16, 32 - 16)
Rot12 == ByShifts(12, 32 - 12)
Rot8 == ByShifts(8, 32 - 8)
Rot7 == ByShifts(7, 32 - 7)

G1(rows, m) == HalfSteps(rows, m, Rot16, Rot12)
G2(rows, m) == HalfSteps(rows, m, Rot8, Rot7)

\* Rows 0, 2 and 3 turn: row 1 stays where it is.
Diagonalize(rows) ==
  <<Shuffle(rows[1], 2, 1, 0, 3), rows[2],
    Shuffle(rows[3], 0, 3, 2, 1), Shuffle(rows[4], 1, 0, 3, 2)>>

Undiagonalize(rows) ==
  <<Shuffle(rows[1], 0, 3, 2, 1), rows[2],
    Shuffle(rows[3], 2, 1, 0, 3), Shuffle(rows[4], 1, 0, 3, 2)>>

\* Round 1: from the order of the input to the groups mixed in parallel
FirstWords(m) ==
  <<Shuffle2(m[1], m[2], 2, 0, 2, 0),
    Shuffle2(m[1], m[2], 3, 1, 3, 1),
    Shuffle(Shuffle2(m[3], m[4], 2, 0, 2, 0), 2, 1, 0, 3),
    Shuffle(Shuffle2(m[3], m[4], 3, 1, 3, 1), 2, 1, 0, 3)>>

\* Rounds 2 to 7: a fixed permutation of the groups of the round before
NextWords(m) ==
  <<Shuffle(Shuffle2(m[1], m[2], 3, 1, 1, 2), 0, 3, 2, 1),
    Blend16(Shuffle(m[1], 0, 0, 3, 3), Shuffle2(m[3], m[4], 3, 3, 2, 2), 204),
    Shuffle(Blend16(UnpackLo64(m[4], m[2]), m[3], 192), 1, 3, 2, 0),
    Shuffle(UnpackLo32(m[3], UnpackHi32(m[2], m[4])), 0, 1, 3, 2)>>

CompressPre == RowCompression(G1, G2, Diagonalize, Undiagonalize, FirstWords, NextWords)

CompressInPlace == CompressPre
CompressXof == CompressPre

-----------------------------------------------------------------------------
(* Four inputs *)

Round(r) == LaneRound(r, Rot16, Rot12, Rot8, Rot7)

\* 32-bit lanes are interleaved, then 64-bit lanes.
TransposeVecs(v) ==
  LET ab01 == UnpackLo32(v[1], v[2])
      ab23 == UnpackHi32(v[1], v[2])
      cd01 == UnpackLo32(v[3], v[4])
      cd23 == UnpackHi32(v[3], v[4])
  IN  <<UnpackLo64(ab01, cd01), UnpackHi64(ab01, cd01),
        UnpackLo64(ab23, cd23), UnpackHi64(ab23, cd23)>>

TransposeMsgVecs(inputs, b) ==
  InOrder(4, Listing(4, LAMBDA q : TransposeVecs(Loaded(inputs, b, q))))

Counters(counter, increment) == LoadCounters(4, counter, increment)

Hash4(inputs, blocks, counter, increment) ==
  LET h == HashBlocks(inputs, blocks, Counters(counter, increment),
                      LaneCompression([r \in 1..7 |-> Round(r)]),
                      [b \in 1..blocks |-> TransposeMsgVecs(inputs, b)])
  IN  StoreFour(TransposeVecs(SubSeq(h, 1, 4)), TransposeVecs(SubSeq(h, 5, 8)))

\* Groups of four while enough inputs are left, then one by one with hash1
HashMany(inputs, blocks, counter, increment) ==
  LET groups == Len(inputs) \div 4
      at(n) == Advanced(counter, increment, n)
  IN  FlattenSeq(Listing(groups, LAMBDA g :
                   Hash4(GroupOf(inputs, 4, g), blocks, at(4 * (g - 1)), increment)))
        \o HashEach(After(inputs, 4 * groups), blocks, at(4 * groups), increment,
                    CompressInPlace)
=============================================================================
