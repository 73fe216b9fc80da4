------------------------------- MODULE MCLoops -------------------------------
(* The two loops of src/src/lib.rs that work on bytes and words: zeroize_raw and the
   comparison of two tags.  A behaviour runs one of them; the other has nothing left to
   do, as after its last call.  Words of four bytes and buffers at every alignment up to
   three words long; tags of two words of three bytes and one byte more, as 65 is one
   more than a multiple of eight, with every set of differing bytes. *)
EXTENDS Wipe, TagCompare

\* An empty plaintext has been wiped.
WipeOver ==
  /\ buf = [ptr |-> 1, len |-> 0, cap |-> 0] /\ user = "drop"
  /\ mem = [a \in Bytes |-> "other"]
  /\ todo = <<>> /\ i = 0 /\ loop = "done" /\ store = NoStore

\* Equal tags have been compared.
CompareOver ==
  /\ differ = {} /\ fault = [loop |-> "none", at |-> 0]
  /\ pc = "done" /\ folded = TagLen /\ acc = {} /\ plain = TRUE /\ also = TRUE

LoopInit == (WipeInit /\ CompareOver) \/ (CompareInit /\ WipeOver)

LoopNext ==
  \/ WipeNext /\ UNCHANGED compareVars
  \/ CompareNext /\ UNCHANGED wipeVars

LoopSpec == LoopInit /\ [][LoopNext]_<<wipeVars, compareVars>>
=============================================================================
