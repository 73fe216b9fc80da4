---------------------------- MODULE MCLockedKey ----------------------------
(* Two threads, two pages and two keys.  Threads and keys are             *)
(* interchangeable; pages are not, the library orders them.               *)
EXTENDS LockedKey, TLC

CONSTANTS t1, t2, k1, k2

MCThreads == {t1, t2}
MCPages == {0, 1}
MCKey == {k1}
MCKeys == {k1, k2}
Symmetry == Permutations(MCThreads) \cup Permutations(MCKeys)
=============================================================================
