----------------------------- MODULE MCHashers -----------------------------
(* Chunks of two blocks.  Apart from the tag: inputs of up to eight chunks, so that
   the stack fills up to its limit, with batches of one, two and four chunks, from the
   start or from a later chunk.  The tag: a head of a block and a half, a window of two
   to three chunks, and inputs of up to seven chunks, whose lengths step over every
   boundary of block, chunk and window. *)
EXTENDS TagHash

SomeAad == {0, 1, 3, 6}
AllMsg == 0..19
=============================================================================
