--------------------------- MODULE MCChaChaApply ---------------------------
(* Blocks of two bytes and a counter of sixteen values: a message of MAX_MSG_SIZE is 16
   blocks, two of the widest batches.  One thread makes every call up to past that
   length and derives a subkey, the other races it to the cache, on machines that lack
   at most one of the things AVX2 needs. *)
EXTENDS ChaChaApply, TLC

CONSTANTS t1, t2

Able == [leaf7 |-> TRUE, osxsave |-> TRUE, avx |-> TRUE, ymm |-> TRUE, bit5 |-> TRUE]
MCCpus == {Able} \cup {[Able EXCEPT ![f] = FALSE] : f \in DOMAIN Able}

MCCalls ==
  t1 :> [start : {0, 1, 15}, n : 0..34, input : {"Separate", "InPlace", "Keystream", "Witness"}]
         \cup [start : {0}, n : {8}, input : {"Subkey"}]
  @@ t2 :> [start : {0}, n : {16}, input : {"InPlace"}]
=============================================================================
