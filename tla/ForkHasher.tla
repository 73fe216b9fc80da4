----------------------------- MODULE ForkHasher -----------------------------
(***************************************************************************)
(* Hasher of the BLAKE3 fork (src/blake3/src/lib.rs): update called any    *)
(* number of times with inputs of any length, on a platform of any SIMD    *)
(* degree, from the start of the input or from a later chunk, and the      *)
(* output it could be finalized to at any time.  One step per subtree that *)
(* update hashes.  TagHash is its caller, and so is anyone else.           *)
(***************************************************************************)
EXTENDS Blake3Tree

CONSTANTS
  MaxDepth,    \* MAX_DEPTH: the stack has room for one value more
  Degrees,     \* SIMD degrees Platform::detect may find
  Offsets,     \* bound: chunks a hasher may start at
  MaxInput     \* bound: bytes given to a hasher

ASSUME ForkAssumption ==
  /\ MaxDepth \in Nat /\ MaxInput \in Nat
  /\ MaxInput <= Exp2[MaxDepth] * ChunkLen
  /\ Offsets \subseteq Nat
  /\ \A d \in Degrees : d \in Nat /\ IsPow2(d)

VARIABLES
  degree,      \* platform.simd_degree()
  initial,     \* initial_chunk_counter
  chunk,       \* chunk_state
  stack,       \* cv_stack
  input,       \* what is left of the input of the update under way
  at,          \* where in update the hasher is
  fed          \* history: bytes given so far

forkVars == <<degree, initial, chunk, stack, input, at, fed>>

Min2(a, b) == IF a < b THEN a ELSE b
Take(s, n) == SubSeq(s, 1, n)
Drop(s, n) == SubSeq(s, n + 1, Len(s))

-----------------------------------------------------------------------------
(* ChunkState *)

NewChunk(counter) == [counter |-> counter, done |-> <<>>, buf |-> <<>>]

Count(c) == BlockLen * Len(c.done) + Len(c.buf)

FillBuf(c, bytes) == [c EXCEPT !.buf = @ \o bytes]

\* A block that is not the chunk's last.
Compress(c, bytes) ==
  [c EXCEPT !.done = Append(@, Block(bytes, c.done = <<>>, FALSE)), !.buf = <<>>]

\* The buffer is filled, and compressed only when more input follows; then blocks
\* straight from the input, all but the last; the last, full or not, is kept.
ChunkUpdate(c, bytes) ==
  LET take == IF c.buf # <<>> THEN Min2(BlockLen - Len(c.buf), Len(bytes)) ELSE 0
      filled == FillBuf(c, Take(bytes, take))
      rest == Drop(bytes, take)
      first == IF filled.buf # <<>> /\ rest # <<>>
               THEN Compress(filled, filled.buf) ELSE filled
      whole == IF rest = <<>> THEN 0 ELSE (Len(rest) - 1) \div BlockLen
      direct[i \in 0..whole] ==
        IF i = 0 THEN first
        ELSE Compress(direct[i - 1], SubSeq(rest, (i - 1) * BlockLen + 1, i * BlockLen))
  IN  FillBuf(direct[whole], Drop(rest, whole * BlockLen))

ChunkOutput(c) ==
  Chunk(c.counter, Append(c.done, Block(c.buf, c.done = <<>>, TRUE)))

-----------------------------------------------------------------------------
(* Hashing a subtree at once *)

\* compress_chunks_parallel: whole chunks with hash_many, a partial one by itself
HashChunks(bytes, counter) ==
  [i \in 1..DivCeil(Len(bytes), ChunkLen) |->
     ChunkOutput(ChunkUpdate(NewChunk(counter + i - 1),
       SubSeq(bytes, (i - 1) * ChunkLen + 1, Min2(i * ChunkLen, Len(bytes)))))]

\* compress_parents_parallel: pairs; an odd one out stays as it is
HashParents(cvs) ==
  [i \in 1..DivCeil(Len(cvs), 2) |->
     IF 2 * i <= Len(cvs) THEN Parent(cvs[2 * i - 1], cvs[2 * i]) ELSE cvs[2 * i - 1]]

\* left_subtree_len
LeftSubtreeLen(n) == NextPow2(DivCeil(n, 2))

\* compress_subtree_wide.  The bytes r[1] up to r[2] of the subtree; with degree 1,
\* two chunks are returned unmerged, so that this never is the root.
Wide(bytes, counter) ==
  LET wide[r \in Nat \X Nat] ==
        LET n == r[2] - r[1]
            mid == r[1] + LeftSubtreeLen(n)
            left == wide[<<r[1], mid>>]
            both == left \o wide[<<mid, r[2]>>]
        IN  IF n <= degree * ChunkLen
            THEN HashChunks(SubSeq(bytes, r[1] + 1, r[2]), counter + r[1] \div ChunkLen)
            ELSE IF Len(left) = 1 THEN both ELSE HashParents(both)
  IN  wide[<<0, Len(bytes)>>]

\* compress_subtree_to_parent_node: layers of parents until two values are left.
CVPair(bytes, counter) ==
  LET wide == Wide(bytes, counter)
      layer[i \in 0..Len(wide)] ==
        IF i = 0 THEN wide
        ELSE LET below == layer[i - 1]
             IN  IF Len(below) > 2 THEN HashParents(below) ELSE below
  IN  layer[Len(wide)]

-----------------------------------------------------------------------------
(* The stack of chaining values *)

\* merge_cv_stack: pop two and push their parent, until there are as many entries
\* as there are one-bits in the number of chunks.
MergeStack(s, counter) ==
  LET post == Ones[counter - initial]
  IN  IF Len(s) <= post THEN s
      ELSE Append(Take(s, post - 1),
                  Onto(SubSeq(s, post, Len(s) - 1), s[Len(s)]))

\* Mutant: leave all merging to the end.
PushUnmerged(s, cv, counter) == Append(s, cv)

\* push_cv: merge what is there, not the new one, which may yet be the root's.
PushCV(s, cv, counter) == Append(MergeStack(s, counter), cv)

-----------------------------------------------------------------------------
ForkInit ==
  /\ degree \in Degrees
  /\ initial = 0 /\ chunk = NewChunk(0) /\ stack = <<>>
  /\ input = <<>> /\ at = "idle" /\ fed = 0

HasherCount == (chunk.counter - initial) * ChunkLen + Count(chunk)

\* max_subtree_len of a start past the first chunk
MaxSubtreeLen == Exp2[TrailingZeros[initial]] * ChunkLen

\* Mutant: an assertion that lets in one chunk too many.
UpdateUnchecked(bytes) ==
  /\ at = "idle"
  /\ initial > 0 => HasherCount + Len(bytes) <= MaxSubtreeLen + ChunkLen
  /\ input' = bytes /\ fed' = fed + Len(bytes)
  /\ at' = "partial"
  /\ UNCHANGED <<degree, initial, chunk, stack>>

\* update; a subtree that starts at an offset has a largest length
Update(bytes) ==
  /\ at = "idle"
  /\ initial > 0 => HasherCount + Len(bytes) <= MaxSubtreeLen
  /\ input' = bytes /\ fed' = fed + Len(bytes)
  /\ at' = "partial"
  /\ UNCHANGED <<degree, initial, chunk, stack>>

\* A partial chunk is finished first; if the input ends with it, update returns.
FinishChunk ==
  /\ at = "partial" /\ Count(chunk) > 0
  /\ LET take == Min2(ChunkLen - Count(chunk), Len(input))
         full == ChunkUpdate(chunk, Take(input, take))
     IN  /\ input' = Drop(input, take)
         /\ IF input' = <<>>
            THEN chunk' = full /\ at' = "idle" /\ UNCHANGED stack
            ELSE /\ stack' = PushCV(stack, ChunkOutput(full), chunk.counter)
                 /\ chunk' = NewChunk(chunk.counter + 1)
                 /\ at' = "subtrees"
  /\ UNCHANGED <<degree, initial, fed>>

NoPartialChunk ==
  /\ at = "partial" /\ Count(chunk) = 0
  /\ at' = "subtrees"
  /\ UNCHANGED <<degree, initial, chunk, stack, input, fed>>

\* Mutant: the subtree need not divide what is hashed so far.
SubtreeLenUnshrunk == NextPow2(Len(input) \div 2 + 1)

\* largest_power_of_two_leq, halved until it divides the count so far
SubtreeLen ==
  LET largest == NextPow2(Len(input) \div 2 + 1)
  IN  Max({p \in 1..largest : IsPow2(p) /\ (chunk.counter * ChunkLen) % p = 0})

\* One turn of the loop over whole subtrees.
HashSubtree ==
  /\ at = "subtrees" /\ Len(input) > ChunkLen
  /\ LET bytes == Take(input, SubtreeLen)
         chunks == SubtreeLen \div ChunkLen
         pair == CVPair(bytes, chunk.counter)
     IN  /\ stack' = IF chunks = 1
                     THEN PushCV(stack,
                                 ChunkOutput(ChunkUpdate(NewChunk(chunk.counter), bytes)),
                                 chunk.counter)
                     ELSE PushCV(PushCV(stack, pair[1], chunk.counter),
                                 pair[2], chunk.counter + chunks \div 2)
         /\ chunk' = [chunk EXCEPT !.counter = @ + chunks]
         /\ input' = Drop(input, SubtreeLen)
  /\ UNCHANGED <<degree, initial, at, fed>>

\* A chunk or less remains; if anything does, the stack is merged once more.
KeepRest ==
  /\ at = "subtrees" /\ Len(input) <= ChunkLen
  /\ chunk' = ChunkUpdate(chunk, input)
  /\ stack' = IF input = <<>> THEN stack ELSE MergeStack(stack, chunk.counter)
  /\ input' = <<>> /\ at' = "idle"
  /\ UNCHANGED <<degree, initial, fed>>

\* reset
Reset ==
  /\ at = "idle"
  /\ initial' = 0 /\ chunk' = NewChunk(0) /\ stack' = <<>> /\ fed' = 0
  /\ UNCHANGED <<degree, input, at>>

\* set_input_offset, asserted to come before any input
SetInputOffset(counter) ==
  /\ at = "idle" /\ HasherCount = 0
  /\ initial' = counter /\ chunk' = [chunk EXCEPT !.counter = counter]
  /\ UNCHANGED <<degree, stack, input, at, fed>>

\* final_output
FinalOutput ==
  LET n == Len(stack)
  IN  IF stack = <<>> THEN ChunkOutput(chunk)
      ELSE IF Count(chunk) > 0 THEN Onto(stack, ChunkOutput(chunk))
      ELSE Onto(Take(stack, n - 2), Parent(stack[n - 1], stack[n]))

Feeding == FinishChunk \/ NoPartialChunk \/ HashSubtree \/ KeepRest

NextBytes(n) == Bytes(initial * ChunkLen + fed, initial * ChunkLen + fed + n)

ForkNext ==
  \/ \E n \in 0..(MaxInput - fed) : Update(NextBytes(n))
  \/ Feeding
  \/ Reset
  \/ \E counter \in Offsets : SetInputOffset(counter)

-----------------------------------------------------------------------------
\* The hasher's state: a chunk never holds more than a chunk, nor its buffer more
\* than a block, and update leaves no input behind.  "The stack size is MAX_DEPTH + 1
\* because we do lazy merging": no push finds it full, in the middle of an update
\* either.
ForkTypeOK ==
  /\ degree \in Degrees /\ initial \in Nat
  /\ chunk.counter \in Nat /\ Len(chunk.buf) <= BlockLen /\ Count(chunk) <= ChunkLen
  /\ Len(stack) <= MaxDepth + 1
  /\ at \in {"idle", "partial", "subtrees"}
  /\ fed \in 0..MaxInput
  /\ at = "idle" => input = <<>>

\* Whatever the splits of the input over update calls and the SIMD degree, what
\* the hasher finalizes is the root of the tree over all bytes given, counted from
\* the offset, and that node has not been compressed without its ROOT flag before
\* ("lazy merging", comment of push_cv).  count() with what is left over of the update
\* under way is what was given: no byte is taken twice or dropped between the chunk,
\* the stack and the input.
FinalIsTree ==
  /\ HasherCount + Len(input) = fed
  /\ at = "idle" =>
       FinalOutput = Tree[<<initial * ChunkLen, initial * ChunkLen + fed>>]

\* What finalize_non_root returns for a hasher that started at an offset is a node
\* of the tree over the whole input up to there, which merge_subtrees_root can be
\* given: update refuses what would make it straddle two subtrees (hazmat,
\* max_subtree_len).
OffsetIsNode ==
  at = "idle" /\ initial > 0 /\ fed > 0 =>
    FinalOutput \in {Tree[r] : r \in Nodes[<<0, initial * ChunkLen + fed>>]}
=============================================================================
