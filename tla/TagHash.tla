------------------------------ MODULE TagHash ------------------------------
(***************************************************************************)
(* The callers of the two hashers.  The inner hash of the tag is computed  *)
(* twice: by derive_tag with the BLAKE3 fork (src/src/lib.rs), through one *)
(* contiguous copy of head, associated data and message or through three   *)
(* updates, and by the witness with its own hasher, always through three.  *)
(* The fork's Hasher is a public type as well, which another caller feeds, *)
(* resets and starts at an offset as he likes.                             *)
(***************************************************************************)
EXTENDS ForkHasher, WitnessHasher

CONSTANTS
  HeadLen,     \* the 48 bytes of domain, nonce and lengths
  ConcatMin,   \* TAG_CONCAT_MIN
  ConcatLimit, \* TAG_CONCAT_LIMIT
  AadLens,     \* bound: lengths of the associated data
  MsgLens      \* bound: lengths of the message

ASSUME TagAssumption ==
  /\ HeadLen \in Nat /\ ConcatMin \in Nat /\ ConcatLimit \in Nat
  /\ AadLens \subseteq Nat /\ MsgLens \subseteq Nat
  /\ \A a \in AadLens, m \in MsgLens :
       HeadLen + a + m <= MaxInput /\ HeadLen + a + m <= MaxWitness

VARIABLES
  lens,        \* the lengths of the call: aad and msg
  pc,          \* where in the two computations, or "apart" from them
  parts,       \* what is still to be fed to the hasher at work
  cat,         \* derive_tag's contiguous buffer: bytes reserved and bytes in it
  inner,       \* the main path's result
  again        \* the witness's result

tagVars == <<forkVars, witnessVars, lens, pc, parts, cat, inner, again>>

NoCat == [reserved |-> 0, bytes |-> <<>>]

\* Every byte of the tag's input is its place in head || aad || msg.
Prefix == Bytes(0, HeadLen)
Aad == Bytes(HeadLen, HeadLen + lens.aad)
Msg == Bytes(HeadLen + lens.aad, HeadLen + lens.aad + lens.msg)
Total == HeadLen + lens.aad + lens.msg

-----------------------------------------------------------------------------
TagInit ==
  /\ ForkInit /\ WitnessInit
  /\ lens \in [aad : AadLens, msg : MsgLens]
  /\ pc = "window" /\ parts = <<>> /\ cat = NoCat
  /\ inner = Zero /\ again = Zero

\* The size that is reserved for the window.  A total that usize cannot hold is past
\* the limit as well, so checked_add's None needs no case of its own.
InWindow == Total \in ConcatMin..ConcatLimit

\* Mutant: the order of the fields is not the encoding's.
ThreeUpdatesSwapped == <<Prefix, Msg, Aad>>

\* derive_tag's three parts
ThreeUpdates == <<Prefix, Aad, Msg>>

\* witness::tag's
WitnessParts == <<Prefix, Aad, Msg>>

OutOfWindow ==
  /\ pc = "window" /\ ~InWindow
  /\ parts' = ThreeUpdates /\ pc' = "fork"
  /\ UNCHANGED <<forkVars, witnessVars, lens, cat, inner, again>>

\* try_reserve_exact
Reserved ==
  /\ pc = "window" /\ InWindow
  /\ cat' = [NoCat EXCEPT !.reserved = Total] /\ pc' = "copy"
  /\ UNCHANGED <<forkVars, witnessVars, lens, parts, inner, again>>

ReserveRefused ==
  /\ pc = "window" /\ InWindow
  /\ parts' = ThreeUpdates /\ pc' = "fork"
  /\ UNCHANGED <<forkVars, witnessVars, lens, cat, inner, again>>

\* The three extend_from_slice
Copy ==
  /\ pc = "copy"
  /\ cat' = [cat EXCEPT !.bytes = Prefix \o Aad \o Msg]
  /\ parts' = <<cat'.bytes>> /\ pc' = "fork"
  /\ UNCHANGED <<forkVars, witnessVars, lens, inner, again>>

\* blake3_keyed_multi: one update for every part, ...
FeedFork ==
  /\ pc = "fork" /\ parts # <<>>
  /\ Update(Head(parts)) /\ parts' = Tail(parts)
  /\ UNCHANGED <<witnessVars, lens, pc, cat, inner, again>>

ForkWorks ==
  /\ pc = "fork" /\ Feeding
  /\ UNCHANGED <<witnessVars, lens, pc, parts, cat, inner, again>>

\* ... the output, and the wipe of the copy.
ForkDone ==
  /\ pc = "fork" /\ parts = <<>> /\ at = "idle"
  /\ inner' = FinalOutput
  /\ cat' = NoCat
  /\ parts' = WitnessParts /\ pc' = "witness"
  /\ UNCHANGED <<forkVars, witnessVars, lens, again>>

\* witness::tag, keyed_xof
FeedWitness ==
  /\ pc = "witness" /\ parts # <<>>
  /\ WitnessFeed(Head(parts)) /\ parts' = Tail(parts)
  /\ UNCHANGED <<forkVars, lens, pc, cat, inner, again>>

WitnessWorks ==
  /\ pc = "witness" /\ WitnessTurn
  /\ UNCHANGED <<forkVars, lens, pc, parts, cat, inner, again>>

WitnessDone ==
  /\ pc = "witness" /\ parts = <<>>
  /\ again' = WitnessOutput
  /\ WipeState
  /\ pc' = "done"
  /\ UNCHANGED <<forkVars, lens, parts, cat, inner>>

TagNext ==
  \/ OutOfWindow \/ Reserved \/ ReserveRefused \/ Copy
  \/ FeedFork \/ ForkWorks \/ ForkDone
  \/ FeedWitness \/ WitnessWorks \/ WitnessDone

\* The fork's Hasher in the hands of another caller
Apart ==
  /\ pc = "apart" /\ ForkNext
  /\ UNCHANGED <<witnessVars, lens, pc, parts, cat, inner, again>>

HasherInit ==
  \/ TagInit
  \/ /\ ForkInit /\ WitnessInit
     /\ lens = [aad |-> 0, msg |-> 0]
     /\ pc = "apart" /\ parts = <<>> /\ cat = NoCat
     /\ inner = Zero /\ again = Zero

HasherSpec == HasherInit /\ [][TagNext \/ Apart]_tagVars

-----------------------------------------------------------------------------
\* The two hash implementations, called the way the main path and the witness call
\* them, agree on every input, whether it is in the window or not and whether the
\* allocator refuses the copy or not, and end at the tree over head || aad || msg
\* (test_both_tag_call_shapes_hash_the_same_bytes samples this).
TagsAgree ==
  pc = "done" => inner = Tree[<<0, Total>>] /\ again = inner

\* The state of the caller and of the hasher it calls.  "The buffer cannot grow":
\* what is written into the copy fits what was reserved, which is never more than the
\* limit.
TagTypeOK ==
  /\ ForkTypeOK
  /\ lens \in [aad : AadLens \cup {0}, msg : MsgLens \cup {0}]
  /\ pc \in {"apart", "window", "copy", "fork", "witness", "done"}
  /\ Len(cat.bytes) <= cat.reserved /\ cat.reserved <= ConcatLimit
=============================================================================
