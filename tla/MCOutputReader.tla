--------------------------- MODULE MCOutputReader ---------------------------
(* A stream of 31 bytes in blocks of four, and counters that can go far past it. *)
EXTENDS OutputReader

Relative == {-40, -5, -1, 0, 1, 6, 40}
=============================================================================
