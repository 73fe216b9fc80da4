---------------------------- MODULE MCRangeUsers ----------------------------
(* Two callers: one with a range of two pages, one with a page of its own. *)
EXTENDS RangeUsers, TLC

CONSTANTS t1, t2

MCThreads == {t1, t2}
MCPages == 1..3
MCOwned == t1 :> {1, 2} @@ t2 :> {3}
=============================================================================
