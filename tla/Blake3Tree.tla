----------------------------- MODULE Blake3Tree -----------------------------
(***************************************************************************)
(* The BLAKE3 tree: chunks of blocks, and binary parents over chunks, with *)
(* the left side of every parent the largest power of two of chunks.       *)
(*                                                                         *)
(* A byte is its position in the input; a compression is the term of what  *)
(* went into it.  A node that is an argument of a parent was compressed    *)
(* without the ROOT flag; the node a hasher ends with is not compressed    *)
(* yet, and is the only one to get the flag.                               *)
(***************************************************************************)
EXTENDS Integers, Sequences, SequencesExt

CONSTANTS
  BlockLen,    \* BLOCK_LEN, 64 in the code
  ChunkLen     \* CHUNK_LEN, 1024 in the code

\* count_ones, trailing_zeros, shifting one to the left
Ones[n \in Nat] == IF n = 0 THEN 0 ELSE (n % 2) + Ones[n \div 2]
TrailingZeros[n \in Nat \ {0}] == IF n % 2 = 1 THEN 0 ELSE 1 + TrailingZeros[n \div 2]
Exp2[n \in Nat] == IF n = 0 THEN 1 ELSE 2 * Exp2[n - 1]

\* is_power_of_two, next_power_of_two (of at least one)
IsPow2(n) == Ones[n] = 1
NextPow2(n) == Min({p \in n..2 * n : IsPow2(p)})

ASSUME TreeAssumption ==
  /\ BlockLen \in Nat /\ IsPow2(BlockLen)
  /\ ChunkLen \in Nat /\ IsPow2(ChunkLen)
  /\ BlockLen <= ChunkLen

\* The bytes at positions lo up to, and without, hi.
Bytes(lo, hi) == [i \in 1..(hi - lo) |-> lo + i - 1]

\* A block of a chunk, with its CHUNK_START and CHUNK_END flags.
Block(bytes, start, end) == [bytes |-> bytes, start |-> start, end |-> end]

Chunk(counter, blocks) == <<"chunk", counter, blocks>>

\* parent_node_output: parents use counter 0.
Parent(left, right) == <<"parent", left, right>>

\* The values of a stack merged onto an output, the top of the stack first
Onto(stacked, output) ==
  LET onto[i \in 0..Len(stacked)] ==
        IF i = 0 THEN output ELSE Parent(stacked[Len(stacked) - i + 1], onto[i - 1])
  IN  onto[Len(stacked)]

DivCeil(a, b) == (a + b - 1) \div b

-----------------------------------------------------------------------------
(* The definition every implementation is held to. *)

ChunkOf(lo, hi) ==
  LET last == IF hi = lo THEN 1 ELSE DivCeil(hi - lo, BlockLen)
      end(i) == IF i = last THEN hi ELSE lo + i * BlockLen
  IN  Chunk(lo \div ChunkLen,
            [i \in 1..last |-> Block(Bytes(lo + (i - 1) * BlockLen, end(i)),
                                     i = 1, i = last)])

\* The most chunks, a power of two, that leave something for the right side.
LeftBytes(n) == ChunkLen * Max({p \in 1..n : IsPow2(p) /\ p * ChunkLen < n})

Tree[r \in Nat \X Nat] ==
  LET lo == r[1]
      hi == r[2]
      mid == lo + LeftBytes(hi - lo)
  IN  IF hi - lo <= ChunkLen THEN ChunkOf(lo, hi)
      ELSE Parent(Tree[<<lo, mid>>], Tree[<<mid, hi>>])

\* The ranges of bytes the nodes of a tree stand for.
Nodes[r \in Nat \X Nat] ==
  LET mid == r[1] + LeftBytes(r[2] - r[1])
  IN  {r} \cup IF r[2] - r[1] <= ChunkLen THEN {}
               ELSE Nodes[<<r[1], mid>>] \cup Nodes[<<mid, r[2]>>]
=============================================================================
