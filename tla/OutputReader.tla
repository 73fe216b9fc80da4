---------------------------- MODULE OutputReader ----------------------------
(***************************************************************************)
(* OutputReader of the BLAKE3 fork (src/blake3/src/lib.rs): a block        *)
(* counter and a place in the block, both of fixed width.                  *)
(***************************************************************************)
EXTENDS Integers, Sequences

CONSTANTS
  BlockLen,    \* BLOCK_LEN
  Last,        \* u64::MAX
  ReadLens,    \* bound: lengths of the buffers given to fill
  Offsets      \* bound: relative seeks

Modulus == Last + 1

ASSUME ReaderAssumption ==
  /\ BlockLen \in Nat \ {0} /\ Last \in Nat
  /\ ReadLens \subseteq Nat /\ Offsets \subseteq Int

VARIABLES
  counter,     \* inner.counter
  within,      \* position_within_block
  got          \* what the last call returned

vars == <<counter, within, got>>

\* The promise, with the cursor at the byte the reader will deliver next.
Stream == INSTANCE XofStream WITH pos <- counter * BlockLen + within

-----------------------------------------------------------------------------
\* Byte i of a root block: its place in the stream.
BlockBytes(c) == [i \in 1..BlockLen |-> c * BlockLen + i - 1]

\* The reader and what it still has to fill, as fill passes them along.
Filling(c, w, left, bytes) ==
  [counter |-> c, within |-> w, left |-> left, bytes |-> bytes]

\* fill_one_block
FillOneBlock(f) ==
  LET rest == SubSeq(BlockBytes(f.counter), f.within + 1, BlockLen)
      take == IF f.left < Len(rest) THEN f.left ELSE Len(rest)
      spent == f.within + take = BlockLen
  IN  Filling(IF spent THEN (f.counter + 1) % Modulus ELSE f.counter,
              IF spent THEN 0 ELSE f.within + take,
              f.left - take, f.bytes \o SubSeq(rest, 1, take))

\* xof_many, over as many whole blocks as fit
FillFullBlocks(f) ==
  LET full == f.left \div BlockLen
      byte(i) == ((f.counter + (i - 1) \div BlockLen) % Modulus) * BlockLen
                   + ((i - 1) % BlockLen)
  IN  Filling((f.counter + full) % Modulus, f.within, f.left % BlockLen,
              f.bytes \o [i \in 1..full * BlockLen |-> byte(i)])

Fill(n) ==
  LET start == Filling(counter, within, n, <<>>)
      aligned == IF n > 0 /\ within # 0 THEN FillOneBlock(start) ELSE start
      whole == FillFullBlocks(aligned)
      end == IF whole.left > 0 THEN FillOneBlock(whole) ELSE whole
  IN  /\ counter' = end.counter /\ within' = end.within
      /\ got' = Stream!Filled(end.bytes)

\* saturating_mul and saturating_add
Saturated(p) == IF p > Last THEN Last ELSE p

\* Mutant: the product wraps (upstream D-06).
PositionOfWrapping(c, w) == (c * BlockLen + w) % Modulus

PositionOf(c, w) == Saturated(Saturated(c * BlockLen) + w)

position == PositionOf(counter, within)

AskPosition == got' = Stream!Position(position) /\ UNCHANGED <<counter, within>>

SetPosition(p) == counter' = p \div BlockLen /\ within' = p % BlockLen

\* Seek::seek to a target that i128 can hold
SeekTo(target) ==
  IF target < 0 THEN got' = Stream!Error /\ UNCHANGED <<counter, within>>
  ELSE /\ SetPosition(Saturated(target))
       /\ got' = Stream!Position(PositionOf(counter', within'))

SeekFromEnd == got' = Stream!Error /\ UNCHANGED <<counter, within>>

-----------------------------------------------------------------------------
Init == counter = 0 /\ within = 0 /\ got = Stream!None

Next ==
  \/ \E n \in ReadLens : Fill(n)
  \/ AskPosition
  \/ \E p \in 0..Last : SeekTo(p)
  \/ \E d \in Offsets : SeekTo(position + d)
  \/ SeekFromEnd

Spec == Init /\ [][Next]_vars

-----------------------------------------------------------------------------
\* Between calls the reader is inside a block: fill_one_block always has a byte to
\* give, and position_within_block never reaches the block's length.
TypeOK == counter \in 0..Last /\ within \in 0..BlockLen - 1

\* Whatever the lengths of the buffers and the seeks between them, the reader is a
\* cursor over one stream up to the maximum output size, reports where it is, and
\* comes back from beyond with a seek.
IsAStream == Stream!StreamSpec
=============================================================================
