---------------------------- MODULE Blake3Lanes ----------------------------
(***************************************************************************)
(* What the vectorised kernels of BLAKE3 share: symbolic words, the hash   *)
(* of whole blocks as the reference computes it, and the hash of one input *)
(* in every lane of a set of vectors.                                      *)
(*                                                                         *)
(* A word is a value and its index in it.  A chaining value is the key, or *)
(* the record of what was compressed into it; a message is a block of an   *)
(* input.  Words that are not, in order, the words of one value stay a     *)
(* sequence, which no reference hash contains.                             *)
(***************************************************************************)
EXTENDS Blake3Mixing, SequencesExt

CONSTANTS
  LowSpan,    \* values of a half of the counter, in place of 2^32
  HighSpan

ASSUME CounterAssumption == LowSpan \in Nat \ {0} /\ HighSpan \in Nat \ {0}

CounterSpan == LowSpan * HighSpan

\* counter_low, counter_high
Low(c) == c % LowSpan
High(c) == c \div LowSpan

\* The counter n inputs further
Advanced(counter, increment, n) ==
  IF increment THEN (counter + n) % CounterSpan ELSE counter

\* The sequence of F(1) to F(n)
Listing(n, F(_)) == SubSeq([i \in 1..n |-> F(i)], 1, n)

WordsOf(x, n) == Listing(n, LAMBDA i : [of |-> x, word |-> i])

Gather(ws) ==
  IF ws = WordsOf(ws[1].of, Len(ws)) THEN ws[1].of ELSE [words |-> ws]

Key == [root |-> "key"]
MessageOf(input, b) == [input |-> input, block |-> b]

\* One call of the compression function, "exact" when it mixes as the reference does
Compressed(cv, msg, lo, hi, flags, exact) ==
  [cv |-> cv, msg |-> msg, lo |-> lo, hi |-> hi, flags |-> flags, exact |-> exact]

\* block_flags of block b
BlockFlags(b, blocks) ==
  {"flags"} \cup (IF b = 1 THEN {"start"} ELSE {}) \cup (IF b = blocks THEN {"end"} ELSE {})

\* hash1: the blocks of one input one after the other
HashOne(input, blocks, counter, compression) ==
  LET exact == compression = Reference
      cv[b \in 0..blocks] ==
        IF b = 0 THEN Key
        ELSE Compressed(cv[b - 1], MessageOf(input, b), Low(counter), High(counter),
                        BlockFlags(b, blocks), exact)
  IN  cv[blocks]

\* What a slot of hash_many must hold: the chunk or parent of its own input
ReferenceHash(input, blocks, counter) == HashOne(input, blocks, counter, Reference)

-----------------------------------------------------------------------------
\* Mutant: the carry out of the low halves is lost.
LoadCountersNoCarry(degree, counter, increment) ==
  LET at(l) == Advanced(counter, increment, l - 1)
  IN  [low |-> Listing(degree, LAMBDA l : Low(at(l))),
       high |-> Listing(degree, LAMBDA l : High(counter))]

\* load_counters: the two halves of the counter of every lane, carry included
LoadCounters(degree, counter, increment) ==
  LET at(l) == Advanced(counter, increment, l - 1)
  IN  [low |-> Listing(degree, LAMBDA l : Low(at(l))),
       high |-> Listing(degree, LAMBDA l : High(at(l)))]

\* transpose_msg_vecs loads block b in squares, of as many words of every input as there
\* are inputs, and lines the transposed squares up.
Loaded(inputs, b, q) ==
  LET degree == Len(inputs)
  IN  Listing(degree, LAMBDA j :
        Listing(degree, LAMBDA i :
          [of |-> MessageOf(inputs[j], b), word |-> (q - 1) * degree + i]))

InOrder(degree, squares) ==
  Listing(16, LAMBDA p : squares[1 + ((p - 1) \div degree)][1 + ((p - 1) % degree)])

\* The loop of hash4 and hash8 over the blocks, with the message vectors of each: the
\* eight vectors of chaining values
HashBlocks(inputs, blocks, counters, compression, messages) ==
  LET degree == Len(inputs)
      exact == compression = Reference
      lane(vecs, l) == Gather(Listing(Len(vecs), LAMBDA i : vecs[i][l]))
      byWord(lanes) == Listing(8, LAMBDA w :
                         Listing(degree, LAMBDA l : [of |-> lanes[l], word |-> w]))
      h[b \in 0..blocks] ==
        IF b = 0 THEN byWord(Listing(degree, LAMBDA l : Key))
        ELSE byWord(Listing(degree, LAMBDA l :
               Compressed(lane(h[b - 1], l), lane(messages[b], l), counters.low[l],
                          counters.high[l], BlockFlags(b, blocks), exact)))
  IN  h[blocks]

\* hash4 stores the vectors of two squares in turn, a half of a slot each.
StoreFour(first, second) == Listing(4, LAMBDA i : Gather(first[i] \o second[i]))

\* The loop of hash_many takes its inputs in groups.
GroupOf(inputs, degree, g) == SubSeq(inputs, degree * (g - 1) + 1, degree * g)
After(inputs, n) == SubSeq(inputs, n + 1, Len(inputs))

\* The inputs one by one
HashEach(inputs, blocks, counter, increment, compression) ==
  Listing(Len(inputs), LAMBDA i :
    HashOne(inputs[i], blocks, Advanced(counter, increment, i - 1), compression))
=============================================================================
