--------------------------- MODULE WitnessHasher ---------------------------
(***************************************************************************)
(* The witness's own BLAKE3 hasher (src/src/witness.rs): chunks are added  *)
(* one at a time and merged at once, on a stack that is a fixed array, and *)
(* everything is wiped at the end.  One step per turn of update's loop.    *)
(* TagHash is its caller.                                                  *)
(***************************************************************************)
EXTENDS Blake3Tree

CONSTANTS
  Reserve,     \* CV_STACK_RESERVE
  MaxWitness   \* bound: bytes given to a hasher

ASSUME WitnessAssumption ==
  /\ Reserve \in Nat /\ MaxWitness \in Nat
  /\ MaxWitness <= Exp2[Reserve] * ChunkLen

VARIABLES
  keyWords,    \* key_words: "key" or "zero"
  wchunk,      \* chunk
  cvs,         \* cv_stack.cvs; a wiped entry is <<>>
  cvLen,       \* cv_stack.len
  winput,      \* what is left of the input of the update under way
  wfed         \* history: bytes given so far

witnessVars == <<keyWords, wchunk, cvs, cvLen, winput, wfed>>

Zero == <<>>

-----------------------------------------------------------------------------
(* ChunkState: the chaining value is the list of blocks compressed into it. *)

WNewChunk(counter) == [counter |-> counter, cv |-> Zero, block |-> <<>>]

WChunkCount(c) == Len(c.cv) * BlockLen + Len(c.block)

WCompress(c) ==
  [c EXCEPT !.cv = Append(@, Block(c.block, c.cv = Zero, FALSE)), !.block = <<>>]

\* ChunkState::update: a full block is compressed when there is a byte after it.
WChunkUpdate(c, bytes) ==
  LET turn(s) ==
        LET open == IF Len(s.chunk.block) = BlockLen THEN WCompress(s.chunk) ELSE s.chunk
            room == BlockLen - Len(open.block)
            take == IF Len(s.rest) < room THEN Len(s.rest) ELSE room
        IN  [chunk |-> [open EXCEPT !.block = @ \o SubSeq(s.rest, 1, take)],
             rest |-> SubSeq(s.rest, take + 1, Len(s.rest))]
      loop[i \in Nat] ==
        IF i = 0 THEN [chunk |-> c, rest |-> bytes]
        ELSE IF loop[i - 1].rest = <<>> THEN loop[i - 1] ELSE turn(loop[i - 1])
  IN  loop[Len(bytes)].chunk

WChunkOutput(c) ==
  Chunk(c.counter, Append(c.cv, Block(c.block, c.cv = Zero, TRUE)))

-----------------------------------------------------------------------------
(* The stack *)

\* Mutant: the popped entry is read and dropped, its slot keeps the value.
AddChunkSlotKept(cv, total) ==
  LET merges == TrailingZeros[total]
      left == cvLen - merges
      merged == Onto(SubSeq(cvs, left + 1, cvLen), cv)
  IN  /\ cvLen' = left + 1
      /\ cvs' = [cvs EXCEPT ![left + 1] = merged]

\* add_chunk_cv: one merge for every trailing zero of the number of chunks, each
\* zeroing the slot it pops, and the push.
AddChunk(cv, total) ==
  LET merges == TrailingZeros[total]
      left == cvLen - merges
      merged == Onto(SubSeq(cvs, left + 1, cvLen), cv)
  IN  /\ cvLen' = left + 1
      /\ cvs' = [i \in 1..Reserve |->
                   IF i <= left THEN cvs[i] ELSE IF i = left + 1 THEN merged ELSE Zero]

-----------------------------------------------------------------------------
\* Hasher::new_keyed
WitnessInit ==
  /\ keyWords = "key" /\ wchunk = WNewChunk(0)
  /\ cvs = [i \in 1..Reserve |-> Zero] /\ cvLen = 0
  /\ winput = <<>> /\ wfed = 0

WitnessFeed(bytes) ==
  /\ keyWords = "key" /\ winput = <<>>
  /\ winput' = bytes /\ wfed' = wfed + Len(bytes)
  /\ UNCHANGED <<keyWords, wchunk, cvs, cvLen>>

\* A turn of update's loop: a full chunk is closed, since a byte follows it, and the
\* chunk takes what it has room for.
WitnessTurn ==
  /\ winput # <<>>
  /\ LET full == WChunkCount(wchunk) = ChunkLen
         open == IF full THEN WNewChunk(wchunk.counter + 1) ELSE wchunk
         room == ChunkLen - WChunkCount(open)
         take == IF Len(winput) < room THEN Len(winput) ELSE room
     IN  /\ IF full THEN AddChunk(WChunkOutput(wchunk), wchunk.counter + 1)
            ELSE UNCHANGED <<cvs, cvLen>>
         /\ wchunk' = WChunkUpdate(open, SubSeq(winput, 1, take))
         /\ winput' = SubSeq(winput, take + 1, Len(winput))
  /\ UNCHANGED <<keyWords, wfed>>

\* wipe_state, after finalize_xof
WipeState ==
  /\ keyWords = "key" /\ winput = <<>>
  /\ cvs' = [i \in 1..Reserve |-> IF i <= cvLen THEN Zero ELSE cvs[i]]
  /\ cvLen' = 0
  /\ keyWords' = "zero"
  /\ wchunk' = [wchunk EXCEPT !.cv = Zero, !.block = <<>>]
  /\ UNCHANGED <<winput, wfed>>

\* finalize_xof, up to the root's compression
WitnessOutput == Onto(SubSeq(cvs, 1, cvLen), WChunkOutput(wchunk))

-----------------------------------------------------------------------------
\* One chaining value for every one-bit of the chunks added, so that the fixed
\* stack cannot be exhausted (push's assertion is unreachable), and nothing in the
\* slots past them: wipe_state walks the live part only, and leaves nothing behind
\* because every popped slot was zeroed when it was popped.
SlotsAreLive ==
  /\ keyWords = "key" => cvLen = Ones[wchunk.counter]
  /\ \A i \in cvLen + 1..Reserve : cvs[i] = Zero
  /\ keyWords = "zero" => cvLen = 0 /\ wchunk.cv = Zero /\ wchunk.block = <<>>
=============================================================================
