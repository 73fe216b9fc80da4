----------------------------- MODULE AeadProofs -----------------------------
(***************************************************************************)
(* For any keys, nonces, associated data, messages, lengths and builds,    *)
(* any number of messages sent and mixed up on their way, and any one of   *)
(* the faults the build tolerates in every call: what a decryption hands   *)
(* out was sent, a refusal leaves nothing behind, no secret stays on the   *)
(* stack, what arrives whole is accepted, and no keystream is used twice.  *)
(***************************************************************************)
EXTENDS Aead, TLAPS

Enc == call.fn \in Encrypting
Dec == call.fn \in Decrypting

\* The received tag is what the recovered text has, or what a faulty derivation
\* makes of it: then encrypt made it, with a fault of its own.
Match == call.tag \in {WitnessTag(out), Damaged(WitnessTag(out), "computed")}

\* The message is one that was sent, undamaged and under these parameters.
Genuine == call.tag = WitnessTag(WitnessXor(src, call.tag))

\* Which call can be where, and what its caller gave it.
Calls ==
  /\ pc = "idle" <=> call.fn = "none"
  /\ pc = "bound" => call.fn = "decrypt_bounded"
  /\ pc = "sent" => Enc
  /\ pc \in {"recompute", "compare", "wipe"} => Dec
  /\ pc \in {"witness", "decide", "check0", "check1"} =>
       Dec \/ (call.fn = "encrypt" /\ Ultra)
  /\ Enc => \E m \in Msgs : src = Text(m, {})
  /\ Dec => call.tag \in GivenTag
  /\ pc \notin {"idle", "bound", "lengths", "done"} => LengthsOK

\* A message that was sent: under a tag that is the tag of what it was derived from
\* and a keystream that is that tag's, unless a fault changed one of the two.
TagOf(s) == Tag(s.key, s.nonce, s.aad, Text(s.msg, {}))
Sealed(s, t) == s.ciphertext = Text(s.msg, {Pad(s.key, s.nonce, t)})

WellSent(s) ==
  /\ s.tag \in {TagOf(s), Damaged(TagOf(s), "computed")}
  /\ \E t \in {TagOf(s), Damaged(TagOf(s), "computed"), Damaged(TagOf(s), "stream")} :
       Sealed(s, t)
  /\ s.sound => s.tag = TagOf(s) /\ Sealed(s, TagOf(s))
  /\ Ultra /\ s.fn = "encrypt" => s.tag = TagOf(s)
  /\ MsgLen[s.msg] <= MaxMsgSize /\ AadLen[s.aad] <= MaxMsgSize

AllWellSent == \A s \in sent : WellSent(s)

\* The sender's side.  A tag the witness does not confirm goes no further.
Sender == Enc =>
  /\ pc \notin {"idle", "sent", "done"} \/ (pc = "done" /\ res # "Ok") =>
       out = IF call.fn \in InPlace THEN src ELSE Zero
  /\ pc \in {"witness", "decide", "check0", "check1", "enc", "stream", "sent"} =>
       tag = MainTag(src)
  /\ fault = "wrong_tag" =>
       /\ pc = "decide" => ~gate0
       /\ pc = "check0" => decision0 = "Err"
       /\ pc # "check1"
       /\ pc \in {"enc", "stream", "sent"} => call.fn # "encrypt" \/ ~Ultra
  /\ pc = "sent" => out = MainXor(src, tag)

\* The receiver's side, up to the comparisons: where the values come from.
Values == Dec =>
  /\ pc \in {"witness", "recompute"} => tag = MainTag(out)
  /\ pc = "recompute" /\ Ultra =>
       /\ witnessTag = WitnessTag(witnessText)
       /\ witnessText = WitnessXor(src, call.tag)
  /\ pc = "compare" =>
       /\ fault # "substitute" => tag = MainTag(out)
       /\ DualMac => again = MainTag(out)
       /\ gate1 /\ fault = "forge_tag" => Match

\* From there on: what an open gate, an accepting slot and a passed check mean,
\* and which faults make each of them mean nothing.
GateBlind == {"ct_eq", "substitute", "forge_tag"}
SlotBlind == GateBlind \cup {"gate0", "slot0"}

Gates == Dec =>
  /\ pc \in {"wipe", "decide"} =>
       /\ gate0 => Match \/ fault \in GateBlind
       /\ gate1 => Match
  /\ pc \in {"check0", "check1"} =>
       /\ decision0 = "Ok" => Match \/ fault \in SlotBlind
       /\ decision1 = "Ok" => Match \/ fault \in {"slot1", "gate1"}
  /\ pc = "check1" => Match \/ fault \in SlotBlind \cup {"skip_check0"}
  /\ pc = "done" /\ res = "Ok" => Match

\* A genuine message in a call without a fault opens every gate.
Accepts == Dec /\ fault = "none" =>
  /\ pc \in {"tag", "witness", "recompute", "compare", "wipe", "decide", "check0",
             "check1"} \/ (pc = "done" /\ res = "Ok") =>
       out = WitnessXor(src, call.tag)
  /\ pc = "done" /\ LengthsOK =>
       res # "AadTooLong" /\ (res = "MessageTooLong" => MsgLen[src.msg] > call.limit)
  /\ Genuine =>
       /\ pc = "compare" => gate1
       /\ pc \in {"wipe", "decide"} => gate0 /\ gate1
       /\ pc \in {"check0", "check1"} => decision0 = "Ok" /\ decision1 = "Ok"
       /\ pc = "done" => res # "AuthenticationFailed"

\* The slots hold a rejection until accept_or_reject writes them.
Slots ==
  \/ decision0 = "Err" /\ decision1 = "Err"
  \/ pc \in {"check0", "check1", "done"}
  \/ Enc /\ pc \in {"enc", "stream", "sent"}

\* What a call that failed has done.
Failed ==
  /\ derived => pc \notin {"idle", "bound", "lengths", "alloc", "material"}
  /\ allocated => pc \notin {"idle", "bound", "lengths", "alloc"}
  /\ pc = "done" => res # "none"
  /\ pc = "done" /\ derived => res \in {"Ok", "AuthenticationFailed"}
  /\ pc = "done" /\ allocated => res \notin {"MessageTooLong", "AadTooLong"}
  /\ pc = "done" /\ res # "Ok" /\ Dec => out = Zero

\* Which locals can hold secrets where.
Derived == {"k_in", "k_out", "enc_seed"}
Stream  == Derived \cup {"enc_key", "enc_nonce"}
Copies  == IF Ultra THEN {"witness_ciphertext"} ELSE {}

Residue ==
  /\ pc \in {"idle", "bound", "lengths", "alloc", "material", "done"} => live = {}
  /\ Enc =>
       /\ pc = "tag" => live \subseteq Derived
       /\ pc \in {"witness", "decide", "check0", "check1", "enc"} =>
            live \subseteq Derived \cup {"tag"}
       /\ pc \in {"stream", "sent"} => live \subseteq Stream \cup {"tag"}
  /\ Dec =>
       /\ pc = "enc" => live \subseteq Derived
       /\ pc = "stream" => live \subseteq Stream \cup Copies
       /\ pc = "tag" => live \subseteq Stream \cup Copies \cup {"plaintext"}
       /\ pc = "witness" => live \subseteq Stream \cup Copies \cup {"plaintext", "tag"}
       /\ pc = "recompute" => live \subseteq Stream \cup Copies
            \cup {"plaintext", "tag", "witness_tag", "witness_plaintext"}
       /\ pc \in {"compare", "wipe"} => live \subseteq Stream
            \cup {"plaintext", "tag"} \cup (IF DualMac THEN {"recomputed_tag"} ELSE {})
       /\ pc \in {"decide", "check0", "check1"} => live \subseteq {"plaintext"}

Inv ==
  /\ TypeOK /\ Calls /\ AllWellSent /\ Sender
  /\ Values /\ Gates /\ Accepts /\ Slots /\ Failed /\ Residue
-----------------------------------------------------------------------------
(* Lemmas about terms and builds. *)

\* A damaged tag is not what any derivation without a fault gives.
LEMMA DamageShows ==
  ASSUME NEW k, NEW n, NEW a, NEW x, NEW k2, NEW n2, NEW a2, NEW x2, NEW by, by # "none"
  PROVE  Damaged(Tag(k, n, a, x), by) # Tag(k2, n2, a2, x2)
BY DEF Damaged, Tag

\* Cargo.toml: ultra has the second tag, and that has the gates; a fault is
\* tolerated only where the build has what tolerates it.
LEMMA Builds ==
  ASSUME TypeOK
  PROVE  /\ Ultra => DualMac
         /\ DualMac => Hardened
         /\ fault \in {"gate0", "gate1", "ct_eq", "fold"} => Hardened
         /\ fault = "substitute" => DualMac
         /\ fault = "forge_tag" => Ultra
BY AeadAssumption DEF TypeOK, Plan, Tolerated, Hardened, DualMac, Ultra

\* The second XOR with a keystream removes it.
LEMMA XorOn == \A m, pad : Xor(Text(m, {}), pad) = Text(m, {pad})
BY DEF Xor, Text

\* And a keystream the text holds is removed by an XOR.
LEMMA XorOff == \A m, pad : Xor(Text(m, {pad}), pad) = Text(m, {})
BY DEF Xor, Text

\* What was sent, and the tags that can be presented, stay while no call adds to them.
LEMMA SentKept ==
  ASSUME AllWellSent, UNCHANGED <<build, sent>>
  PROVE  AllWellSent' /\ GivenTag' = GivenTag
BY DEF AllWellSent, WellSent, Sealed, TagOf, Ultra, GivenTag

USE DEF Finish, input, tags, decision, history, Enc, Dec, Encrypting, Decrypting

-----------------------------------------------------------------------------
(* One lemma per action. *)

LEMMA BoundCheckInv ==
  ASSUME Inv, BoundCheck
  PROVE  Inv'
<1> USE DEF BoundCheck, Refuse, WipeOut
<1>1. TypeOK'
  BY DEF Inv, TypeOK, Fns, Errors, Secrets, Calls
<1>2. AllWellSent' /\ GivenTag' = GivenTag
  BY SentKept DEF Inv
<1>3. Calls'
  BY <1>2 DEF Inv, Calls, LengthsOK, Ultra
<1>4. Sender'
  BY DEF Inv, Calls, Sender, InPlace, MainTag, MainXor, WitnessTag, Ultra
<1>5. Values'
  BY DEF Inv, Calls, Values, MainTag, WitnessTag, WitnessXor, Match, Ultra, DualMac
<1>6. Gates'
  BY Builds DEF Inv, TypeOK, Calls, Values, Gates, Match, WitnessTag, MainTag, GateBlind,
     SlotBlind
<1>7. Accepts' /\ Slots'
  BY DEF Inv, Calls, Slots, Values, Accepts, Genuine, WitnessTag, WitnessXor, LengthsOK
<1>8. Failed' /\ Residue'
  BY DEF Inv, Calls, Failed, Residue, Derived, Stream, Copies, Ultra, DualMac
<1> QED
  BY <1>1, <1>2, <1>3, <1>4, <1>5, <1>6, <1>7, <1>8 DEF Inv

LEMMA CheckLengthsInv ==
  ASSUME Inv, CheckLengths
  PROVE  Inv'
<1> USE DEF CheckLengths, Refuse, WipeOut, LengthsOK
<1>1. TypeOK'
  BY DEF Inv, TypeOK, Fns, Errors, Secrets, Calls
<1>2. AllWellSent' /\ GivenTag' = GivenTag
  BY SentKept DEF Inv
<1>3. Calls'
  BY <1>2 DEF Inv, Calls, LengthsOK, Ultra
<1>4. Sender'
  BY DEF Inv, Calls, Sender, InPlace, MainTag, MainXor, WitnessTag, Ultra
<1>5. Values'
  BY DEF Inv, Calls, Values, MainTag, WitnessTag, WitnessXor, Match, Ultra, DualMac
<1>6. Gates'
  BY Builds DEF Inv, TypeOK, Calls, Values, Gates, Match, WitnessTag, MainTag, GateBlind,
     SlotBlind
<1>7. Accepts' /\ Slots'
  BY DEF Inv, Calls, Slots, Values, Accepts, Genuine, WitnessTag, WitnessXor, LengthsOK
<1>8. Failed' /\ Residue'
  BY DEF Inv, Calls, Failed, Residue, Derived, Stream, Copies, Ultra, DualMac
<1> QED
  BY <1>1, <1>2, <1>3, <1>4, <1>5, <1>6, <1>7, <1>8 DEF Inv

LEMMA AllocateInv ==
  ASSUME Inv, Allocate
  PROVE  Inv'
<1> USE DEF Allocate, NeedsMemory
<1>1. TypeOK'
  BY DEF Inv, TypeOK, Fns, Errors, Secrets, Calls
<1>2. AllWellSent' /\ GivenTag' = GivenTag
  BY SentKept DEF Inv
<1>3. Calls'
  BY <1>2 DEF Inv, Calls, LengthsOK, Ultra
<1>4. Sender'
  BY DEF Inv, Calls, Sender, InPlace, MainTag, MainXor, WitnessTag, Ultra
<1>5. Values'
  BY DEF Inv, Calls, Values, MainTag, WitnessTag, WitnessXor, Match, Ultra, DualMac
<1>6. Gates'
  BY Builds DEF Inv, TypeOK, Calls, Values, Gates, Match, WitnessTag, MainTag, GateBlind,
     SlotBlind
<1>7. Accepts' /\ Slots'
  BY DEF Inv, Calls, Slots, Values, Accepts, Genuine, WitnessTag, WitnessXor, LengthsOK
<1>8. Failed' /\ Residue'
  BY DEF Inv, Calls, Failed, Residue, Derived, Stream, Copies, Ultra, DualMac
<1> QED
  BY <1>1, <1>2, <1>3, <1>4, <1>5, <1>6, <1>7, <1>8 DEF Inv

LEMMA AllocationFailsInv ==
  ASSUME Inv, AllocationFails
  PROVE  Inv'
<1> USE DEF AllocationFails, Refuse, WipeOut
<1>1. TypeOK'
  BY DEF Inv, TypeOK, Fns, Errors, Secrets, Calls
<1>2. AllWellSent' /\ GivenTag' = GivenTag
  BY SentKept DEF Inv
<1>3. Calls'
  BY <1>2 DEF Inv, Calls, LengthsOK, Ultra
<1>4. Sender'
  BY DEF Inv, Calls, Sender, InPlace, MainTag, MainXor, WitnessTag, Ultra
<1>5. Values'
  BY DEF Inv, Calls, Values, MainTag, WitnessTag, WitnessXor, Match, Ultra, DualMac
<1>6. Gates'
  BY Builds DEF Inv, TypeOK, Calls, Values, Gates, Match, WitnessTag, MainTag, GateBlind,
     SlotBlind
<1>7. Accepts' /\ Slots'
  BY DEF Inv, Calls, Slots, Values, Accepts, Genuine, WitnessTag, WitnessXor, LengthsOK
<1>8. Failed' /\ Residue'
  BY DEF Inv, Calls, Failed, Residue, Derived, Stream, Copies, Ultra, DualMac
<1> QED
  BY <1>1, <1>2, <1>3, <1>4, <1>5, <1>6, <1>7, <1>8 DEF Inv

LEMMA DeriveMaterialInv ==
  ASSUME Inv, DeriveMaterial
  PROVE  Inv'
<1> USE DEF DeriveMaterial
<1>1. TypeOK'
  BY DEF Inv, TypeOK, Fns, Errors, Secrets, Calls
<1>2. AllWellSent' /\ GivenTag' = GivenTag
  BY SentKept DEF Inv
<1>3. Calls'
  BY <1>2 DEF Inv, Calls, LengthsOK, Ultra
<1>4. Sender'
  BY DEF Inv, Calls, Sender, InPlace, MainTag, MainXor, WitnessTag, Ultra
<1>5. Values'
  BY DEF Inv, Calls, Values, MainTag, WitnessTag, WitnessXor, Match, Ultra, DualMac
<1>6. Gates'
  BY Builds DEF Inv, TypeOK, Calls, Values, Gates, Match, WitnessTag, MainTag, GateBlind,
     SlotBlind
<1>7. Accepts' /\ Slots'
  BY DEF Inv, Calls, Slots, Values, Accepts, Genuine, WitnessTag, WitnessXor, LengthsOK
<1>8. Failed' /\ Residue'
  BY DEF Inv, Calls, Failed, Residue, Derived, Stream, Copies, Ultra, DualMac
<1> QED
  BY <1>1, <1>2, <1>3, <1>4, <1>5, <1>6, <1>7, <1>8 DEF Inv

LEMMA DeriveTagInv ==
  ASSUME Inv, DeriveTag
  PROVE  Inv'
<1> USE DEF DeriveTag, Plain
<1>1. TypeOK'
  BY DEF Inv, TypeOK, Fns, Errors, Secrets, Calls
<1>2. AllWellSent' /\ GivenTag' = GivenTag
  BY SentKept DEF Inv
<1>3. Calls'
  <2>1. pc' = "witness" \/ (pc' = "enc" /\ Enc)
    BY DEF Inv, Calls
  <2>2. pc' = "witness" => Dec \/ (call.fn = "encrypt" /\ Ultra)
    BY DEF Inv, TypeOK, Fns, Calls, Ultra
  <2> QED
    BY <1>2, <2>1, <2>2 DEF Inv, Calls, LengthsOK, Ultra
<1>4. Sender'
  <2>1. Enc => tag' = MainTag(src)
    OBVIOUS
  <2>2. pc' \in {"witness", "enc"} /\ (pc' = "enc" => call.fn # "encrypt" \/ ~Ultra)
    BY DEF Inv, Calls, Ultra
  <2> QED
    BY <2>1, <2>2 DEF Inv, Sender, InPlace, MainTag, Ultra
<1>5. Values'
  BY DEF Inv, Calls, Values, MainTag, WitnessTag, WitnessXor, Match, Ultra, DualMac
<1>6. Gates'
  BY Builds DEF Inv, TypeOK, Calls, Values, Gates, Match, WitnessTag, MainTag, GateBlind,
     SlotBlind
<1>7. Accepts' /\ Slots'
  BY DEF Inv, Calls, Slots, Values, Accepts, Genuine, WitnessTag, WitnessXor, LengthsOK
<1>8. Failed' /\ Residue'
  BY DEF Inv, Calls, Failed, Residue, Derived, Stream, Copies, Ultra, DualMac
<1> QED
  BY <1>1, <1>2, <1>3, <1>4, <1>5, <1>6, <1>7, <1>8 DEF Inv

LEMMA DeriveEncInv ==
  ASSUME Inv, DeriveEnc
  PROVE  Inv'
<1> USE DEF DeriveEnc
<1>1. TypeOK'
  BY DEF Inv, TypeOK, Fns, Errors, Secrets, Calls
<1>2. AllWellSent' /\ GivenTag' = GivenTag
  BY SentKept DEF Inv
<1>3. Calls'
  BY <1>2 DEF Inv, Calls, LengthsOK, Ultra
<1>4. Sender'
  BY DEF Inv, Calls, Sender, InPlace, MainTag, MainXor, WitnessTag, Ultra
<1>5. Values'
  BY DEF Inv, Calls, Values, MainTag, WitnessTag, WitnessXor, Match, Ultra, DualMac
<1>6. Gates'
  BY Builds DEF Inv, TypeOK, Calls, Values, Gates, Match, WitnessTag, MainTag, GateBlind,
     SlotBlind
<1>7. Accepts' /\ Slots'
  BY DEF Inv, Calls, Slots, Values, Accepts, Genuine, WitnessTag, WitnessXor, LengthsOK
<1>8. Failed' /\ Residue'
  BY DEF Inv, Calls, Failed, Residue, Derived, Stream, Copies, Ultra, DualMac
<1> QED
  BY <1>1, <1>2, <1>3, <1>4, <1>5, <1>6, <1>7, <1>8 DEF Inv

LEMMA KeystreamInv ==
  ASSUME Inv, Keystream
  PROVE  Inv'
<1> USE DEF Keystream
<1>1. TypeOK'
  BY DEF Inv, TypeOK, Fns, Errors, Secrets, Calls
<1>2. AllWellSent' /\ GivenTag' = GivenTag
  BY SentKept DEF Inv
<1>3. Calls'
  BY <1>2 DEF Inv, Calls, LengthsOK, Ultra
<1>4. Sender'
  BY DEF Inv, Calls, Sender, InPlace, MainTag, MainXor, WitnessTag, Ultra
<1>5. Values'
  BY DEF Inv, Calls, Values, MainTag, WitnessTag, WitnessXor, Match, Ultra, DualMac
<1>6. Gates'
  BY Builds DEF Inv, TypeOK, Calls, Values, Gates, Match, WitnessTag, MainTag, GateBlind,
     SlotBlind
<1>7. Accepts' /\ Slots'
  BY DEF Inv, Calls, Slots, Values, Accepts, Genuine, WitnessTag, WitnessXor, LengthsOK,
     MainXor
<1>8. Failed' /\ Residue'
  BY DEF Inv, Calls, Failed, Residue, Derived, Stream, Copies, Ultra, DualMac
<1> QED
  BY <1>1, <1>2, <1>3, <1>4, <1>5, <1>6, <1>7, <1>8 DEF Inv

LEMMA WitnessEncryptInv ==
  ASSUME Inv, WitnessEncrypt
  PROVE  Inv'
<1> USE DEF WitnessEncrypt
<1>1. TypeOK'
  <2>1. gate0' \in BOOLEAN /\ gate1' \in BOOLEAN
    BY DEF Inv, TypeOK, CtEq, CtEqIndependent
  <2> QED
    BY <2>1 DEF Inv, TypeOK
<1>2. AllWellSent' /\ GivenTag' = GivenTag
  BY SentKept DEF Inv
<1>3. Calls'
  BY <1>2 DEF Inv, Calls, LengthsOK, Ultra
<1>4. Sender'
  <2>1. fault = "wrong_tag" => ~gate0'
    BY DamageShows DEF Inv, Calls, Sender, MainTag, WitnessTag, CtEq
  <2> QED
    BY <2>1 DEF Inv, Calls, Sender, InPlace, MainTag, MainXor
<1>5. Values'
  BY DEF Inv, Calls, Values, MainTag, WitnessTag, WitnessXor, Match, Ultra, DualMac
<1>6. Gates'
  BY Builds DEF Inv, TypeOK, Calls, Values, Gates, Match, WitnessTag, MainTag, GateBlind,
     SlotBlind
<1>7. Accepts' /\ Slots'
  BY DEF Inv, Calls, Slots, Values, Accepts, Genuine, WitnessTag, WitnessXor, LengthsOK
<1>8. Failed' /\ Residue'
  BY DEF Inv, Calls, Failed, Residue, Derived, Stream, Copies, Ultra, DualMac
<1> QED
  BY <1>1, <1>2, <1>3, <1>4, <1>5, <1>6, <1>7, <1>8 DEF Inv

LEMMA WitnessDecryptInv ==
  ASSUME Inv, WitnessDecrypt
  PROVE  Inv'
<1> USE DEF WitnessDecrypt
<1>1. TypeOK'
  BY DEF Inv, TypeOK, Fns, Errors, Secrets, Calls
<1>2. AllWellSent' /\ GivenTag' = GivenTag
  BY SentKept DEF Inv
<1>3. Calls'
  BY <1>2 DEF Inv, Calls, LengthsOK, Ultra
<1>4. Sender'
  BY DEF Inv, Calls, Sender, InPlace, MainTag, MainXor, WitnessTag, Ultra
<1>5. Values'
  BY DEF Inv, Calls, Values, MainTag, WitnessTag, WitnessXor, Match, Ultra, DualMac
<1>6. Gates'
  BY Builds DEF Inv, TypeOK, Calls, Values, Gates, Match, WitnessTag, MainTag, GateBlind,
     SlotBlind
<1>7. Accepts' /\ Slots'
  BY DEF Inv, Calls, Slots, Values, Accepts, Genuine, WitnessTag, WitnessXor, LengthsOK
<1>8. Failed' /\ Residue'
  BY DEF Inv, Calls, Failed, Residue, Derived, Stream, Copies, Ultra, DualMac
<1> QED
  BY <1>1, <1>2, <1>3, <1>4, <1>5, <1>6, <1>7, <1>8 DEF Inv

LEMMA RecomputeInv ==
  ASSUME Inv, Recompute
  PROVE  Inv'
<1> USE DEF Recompute
<1>1. TypeOK'
  BY DEF Inv, TypeOK, Fns, Errors, Secrets, Calls
<1>2. AllWellSent' /\ GivenTag' = GivenTag
  BY SentKept DEF Inv
<1>3. Calls'
  BY <1>2 DEF Inv, Calls, LengthsOK, Ultra
<1>4. Sender'
  BY DEF Inv, Calls, Sender, InPlace, MainTag, MainXor, WitnessTag, Ultra
<1>5. Values'
  <2>1. fault # "substitute" => tag' = MainTag(out)
    BY DEF Inv, Calls, Values
  <2>2. DualMac => again' = MainTag(out)
    BY DEF Inv
  <2>3. gate1' /\ fault = "forge_tag" => Match
    <3> SUFFICES ASSUME gate1', fault = "forge_tag" PROVE Match
      OBVIOUS
    <3>1. witnessTag = WitnessTag(witnessText) /\ tag = call.tag
      BY Builds DEF Inv, Calls, Values, MainTag
    <3>2. witnessTag = tag /\ witnessText = out
      BY Builds DEF Inv, CtEq
    <3> QED
      BY <3>1, <3>2 DEF Match
  <2> QED
    BY <2>1, <2>2, <2>3 DEF Values, MainTag, WitnessTag, Match, DualMac
<1>6. Gates'
  BY Builds DEF Inv, TypeOK, Calls, Values, Gates, Match, WitnessTag, MainTag, GateBlind,
     SlotBlind
<1>7. Accepts' /\ Slots'
  BY DEF Inv, Calls, Slots, Values, Accepts, Genuine, WitnessTag, WitnessXor, LengthsOK,
     MainTag, CtEq
<1>8. Failed' /\ Residue'
  BY DEF Inv, Calls, Failed, Residue, Derived, Stream, Copies, Ultra, DualMac
<1> QED
  BY <1>1, <1>2, <1>3, <1>4, <1>5, <1>6, <1>7, <1>8 DEF Inv

LEMMA CompareInv ==
  ASSUME Inv, Compare
  PROVE  Inv'
<1> USE DEF Compare
<1>1. TypeOK'
  <2>1. gate0' \in BOOLEAN /\ gate1' \in BOOLEAN
    BY DEF Inv, TypeOK, CtEq, CtEqIndependent
  <2> QED
    BY <2>1 DEF Inv, TypeOK
<1>2. AllWellSent' /\ GivenTag' = GivenTag
  BY SentKept DEF Inv
<1>3. Calls'
  BY <1>2 DEF Inv, Calls, LengthsOK, Ultra
<1>4. Sender'
  BY DEF Inv, Calls, Sender, InPlace, MainTag, MainXor, WitnessTag, Ultra
<1>5. Values'
  BY DEF Inv, Calls, Values, MainTag, WitnessTag, WitnessXor, Match, Ultra, DualMac
<1>6. Gates'
  <2> SUFFICES ASSUME Dec PROVE (gate0' => Match' \/ fault \in GateBlind) /\ (gate1' => Match')
    BY DEF Gates
  <2>1. Match' <=> Match
    BY DEF Match, WitnessTag
  <2>2. fault \notin {"substitute", "forge_tag"} => MainTag(out) \in {WitnessTag(out), Damaged(WitnessTag(out), "computed")}
    BY DEF MainTag, WitnessTag
  <2>3. gate0' => Match \/ fault \in GateBlind
    BY <2>2 DEF Inv, Calls, Values, CtEq, Match, GateBlind
  <2>4. gate1' => Match
    <3> SUFFICES ASSUME gate1' PROVE Match
      OBVIOUS
    <3>1. CASE fault = "forge_tag"
      BY <3>1, Builds DEF Inv, Values, Match, WitnessTag
    <3>2. CASE fault = "substitute"
      <4>1. again = MainTag(out) /\ CtEq(again, call.tag)
        BY <3>2, Builds DEF Inv, Values
      <4> QED
        BY <3>2, <4>1 DEF CtEq, MainTag, Match, WitnessTag
    <3>3. CASE fault \notin {"substitute", "forge_tag"}
      <4>1. tag = MainTag(out)
        BY <3>3 DEF Inv, Values
      <4>2. tag = call.tag
        BY Builds DEF Inv, CtEq, CtEqIndependent
      <4> QED
        BY <2>2, <3>3, <4>1, <4>2 DEF Match
    <3> QED
      BY <3>1, <3>2, <3>3
  <2> QED
    BY <2>1, <2>3, <2>4
<1>7. Accepts' /\ Slots'
  BY DEF Inv, Calls, Slots, Values, Accepts, Genuine, WitnessTag, WitnessXor, LengthsOK,
     MainTag, CtEq, CtEqIndependent
<1>8. Failed' /\ Residue'
  BY DEF Inv, Calls, Failed, Residue, Derived, Stream, Copies, Ultra, DualMac
<1> QED
  BY <1>1, <1>2, <1>3, <1>4, <1>5, <1>6, <1>7, <1>8 DEF Inv

LEMMA WipeKeysInv ==
  ASSUME Inv, WipeKeys
  PROVE  Inv'
<1> USE DEF WipeKeys
<1>1. TypeOK'
  BY DEF Inv, TypeOK, Fns, Errors, Secrets, Calls
<1>2. AllWellSent' /\ GivenTag' = GivenTag
  BY SentKept DEF Inv
<1>3. Calls'
  BY <1>2 DEF Inv, Calls, LengthsOK, Ultra
<1>4. Sender'
  BY DEF Inv, Calls, Sender, InPlace, MainTag, MainXor, WitnessTag, Ultra
<1>5. Values'
  BY DEF Inv, Calls, Values, MainTag, WitnessTag, WitnessXor, Match, Ultra, DualMac
<1>6. Gates'
  BY Builds DEF Inv, TypeOK, Calls, Values, Gates, Match, WitnessTag, MainTag, GateBlind,
     SlotBlind
<1>7. Accepts' /\ Slots'
  BY DEF Inv, Calls, Slots, Values, Accepts, Genuine, WitnessTag, WitnessXor, LengthsOK
<1>8. Failed' /\ Residue'
  BY DEF Inv, Calls, Failed, Residue, Derived, Stream, Copies, Ultra, DualMac
<1> QED
  BY <1>1, <1>2, <1>3, <1>4, <1>5, <1>6, <1>7, <1>8 DEF Inv

LEMMA AcceptOrRejectInv ==
  ASSUME Inv, AcceptOrReject
  PROVE  Inv'
<1> USE DEF AcceptOrReject
<1>1. TypeOK'
  BY DEF Inv, TypeOK, Fns, Errors, Secrets, Calls
<1>2. AllWellSent' /\ GivenTag' = GivenTag
  BY SentKept DEF Inv
<1>3. Calls'
  BY <1>2 DEF Inv, Calls, LengthsOK, Ultra
<1>4. Sender'
  BY DEF Inv, Calls, Sender, InPlace, MainTag, MainXor, WitnessTag, Ultra
<1>5. Values'
  BY DEF Inv, Calls, Values, MainTag, WitnessTag, WitnessXor, Match, Ultra, DualMac
<1>6. Gates'
  BY Builds DEF Inv, TypeOK, Calls, Slots, Gates, Match, WitnessTag, GateBlind, SlotBlind
<1>7. Accepts' /\ Slots'
  BY DEF Inv, Calls, Slots, Values, Accepts, Genuine, WitnessTag, WitnessXor, LengthsOK
<1>8. Failed' /\ Residue'
  BY DEF Inv, Calls, Failed, Residue, Derived, Stream, Copies, Ultra, DualMac
<1> QED
  BY <1>1, <1>2, <1>3, <1>4, <1>5, <1>6, <1>7, <1>8 DEF Inv

LEMMA Check0Inv ==
  ASSUME Inv, Check0
  PROVE  Inv'
<1> USE DEF Check0, Reject, Rejects, WipeOut
<1>1. TypeOK'
  BY DEF Inv, TypeOK, Fns, Errors, Secrets, Calls
<1>2. AllWellSent' /\ GivenTag' = GivenTag
  BY SentKept DEF Inv
<1>3. Calls'
  BY <1>2 DEF Inv, Calls, LengthsOK, Ultra
<1>4. Sender'
  BY DEF Inv, Calls, Sender, InPlace, MainTag, MainXor, WitnessTag, Ultra
<1>5. Values'
  BY DEF Inv, Calls, Values, MainTag, WitnessTag, WitnessXor, Match, Ultra, DualMac
<1>6. Gates'
  BY Builds DEF Inv, TypeOK, Calls, Values, Gates, Match, WitnessTag, MainTag, GateBlind,
     SlotBlind
<1>7. Accepts' /\ Slots'
  BY DEF Inv, Calls, Slots, Values, Accepts, Genuine, WitnessTag, WitnessXor, LengthsOK
<1>8. Failed' /\ Residue'
  BY DEF Inv, Calls, Failed, Residue, Derived, Stream, Copies, Ultra, DualMac
<1> QED
  BY <1>1, <1>2, <1>3, <1>4, <1>5, <1>6, <1>7, <1>8 DEF Inv

LEMMA Check1RejectsInv ==
  ASSUME Inv, Check1Rejects
  PROVE  Inv'
<1> USE DEF Check1Rejects, Reject, Rejects, WipeOut
<1>1. TypeOK'
  BY DEF Inv, TypeOK, Fns, Errors, Secrets, Calls
<1>2. AllWellSent' /\ GivenTag' = GivenTag
  BY SentKept DEF Inv
<1>3. Calls'
  BY <1>2 DEF Inv, Calls, LengthsOK, Ultra
<1>4. Sender'
  BY DEF Inv, Calls, Sender, InPlace, MainTag, MainXor, WitnessTag, Ultra
<1>5. Values'
  BY DEF Inv, Calls, Values, MainTag, WitnessTag, WitnessXor, Match, Ultra, DualMac
<1>6. Gates'
  BY Builds DEF Inv, TypeOK, Calls, Values, Gates, Match, WitnessTag, MainTag, GateBlind,
     SlotBlind
<1>7. Accepts' /\ Slots'
  BY DEF Inv, Calls, Slots, Values, Accepts, Genuine, WitnessTag, WitnessXor, LengthsOK
<1>8. Failed' /\ Residue'
  BY DEF Inv, Calls, Failed, Residue, Derived, Stream, Copies, Ultra, DualMac
<1> QED
  BY <1>1, <1>2, <1>3, <1>4, <1>5, <1>6, <1>7, <1>8 DEF Inv

LEMMA AcceptInv ==
  ASSUME Inv, Accept
  PROVE  Inv'
<1> USE DEF Accept, Rejects
<1>1. TypeOK'
  BY DEF Inv, TypeOK, Fns, Errors, Secrets, Calls
<1>2. AllWellSent' /\ GivenTag' = GivenTag
  BY SentKept DEF Inv
<1>3. Calls'
  BY <1>2 DEF Inv, Calls, LengthsOK, Ultra
<1>4. Sender'
  BY DEF Inv, Calls, Sender, InPlace, MainTag, MainXor, WitnessTag, Ultra
<1>5. Values'
  BY DEF Inv, Calls, Values, MainTag, WitnessTag, WitnessXor, Match, Ultra, DualMac
<1>6. Gates'
  BY Builds DEF Inv, TypeOK, Calls, Values, Gates, Match, WitnessTag, MainTag, GateBlind,
     SlotBlind
<1>7. Accepts' /\ Slots'
  BY DEF Inv, Calls, Slots, Values, Accepts, Genuine, WitnessTag, WitnessXor, LengthsOK
<1>8. Failed' /\ Residue'
  BY DEF Inv, Calls, Failed, Residue, Derived, Stream, Copies, Ultra, DualMac
<1> QED
  BY <1>1, <1>2, <1>3, <1>4, <1>5, <1>6, <1>7, <1>8 DEF Inv

LEMMA WitnessAgreedInv ==
  ASSUME Inv, WitnessAgreed
  PROVE  Inv'
<1> USE DEF WitnessAgreed, Rejects
<1>1. TypeOK'
  BY DEF Inv, TypeOK, Fns, Errors, Secrets, Calls
<1>2. AllWellSent' /\ GivenTag' = GivenTag
  BY SentKept DEF Inv
<1>3. Calls'
  BY <1>2 DEF Inv, Calls, LengthsOK, Ultra
<1>4. Sender'
  BY DEF Inv, Calls, Sender, InPlace, MainTag, MainXor, WitnessTag, Ultra
<1>5. Values'
  BY DEF Inv, Calls, Values, MainTag, WitnessTag, WitnessXor, Match, Ultra, DualMac
<1>6. Gates'
  BY Builds DEF Inv, TypeOK, Calls, Values, Gates, Match, WitnessTag, MainTag, GateBlind,
     SlotBlind
<1>7. Accepts' /\ Slots'
  BY DEF Inv, Calls, Slots, Values, Accepts, Genuine, WitnessTag, WitnessXor, LengthsOK
<1>8. Failed' /\ Residue'
  BY DEF Inv, Calls, Failed, Residue, Derived, Stream, Copies, Ultra, DualMac
<1> QED
  BY <1>1, <1>2, <1>3, <1>4, <1>5, <1>6, <1>7, <1>8 DEF Inv

\* A call begins, with what Send or Receive gives it.
LEMMA BeginInv ==
  ASSUME Inv, NEW f \in Fns, NEW k, NEW n, NEW a, NEW text, NEW t, NEW limit,
         Begin(f, k, n, a, text, t, limit),
         f \in Encrypting => \E m \in Msgs : text = Text(m, {}),
         f \in Decrypting => t \in GivenTag
  PROVE  Inv'
<1> USE DEF Begin
<1>1. TypeOK'
  BY DEF Inv, TypeOK, Fns
<1>2. AllWellSent' /\ GivenTag' = GivenTag
  BY SentKept DEF Inv
<1>3. Calls'
  BY <1>2 DEF Calls, Fns
<1>4. Sender' /\ Values' /\ Gates'
  BY DEF Sender, Values, Gates
<1>5. Accepts' /\ Slots'
  BY DEF Inv, Calls, Slots, Accepts
<1>6. Failed' /\ Residue'
  BY DEF Inv, Calls, Failed, Residue
<1> QED
  BY <1>1, <1>2, <1>3, <1>4, <1>5, <1>6 DEF Inv

\* The beginning of an encryption
LEMMA SendsInv ==
  ASSUME Inv, NEW f \in Encrypting, Sends(f)
  PROVE  Inv'
<1>1. PICK k \in plan.keys, n \in Nonces, a \in plan.aads, m \in plan.msgs :
        Begin(f, k, n, a, Text(m, {}), Zero, 0)
  BY DEF Sends, Send
<1>2. m \in Msgs
  BY AeadAssumption DEF Inv, TypeOK, Plan
<1> QED
  BY <1>1, <1>2, BeginInv DEF Fns

\* The beginning of a decryption, of anything that may be presented
LEMMA ReceivesInv ==
  ASSUME Inv, NEW f \in Decrypting, Receives(f)
  PROVE  Inv'
<1>1. PICK k \in plan.keys, n \in Nonces, a \in plan.aads, text \in GivenText,
           t \in GivenTag :
        \E limit \in IF f = "decrypt_bounded" THEN Limits ELSE {0} :
          Receive(f, k, n, a, text, t, limit)
  BY DEF Receives
<1>2. PICK limit : Begin(f, k, n, a, text, t, limit)
  BY <1>1 DEF Receive
<1> QED
  BY <1>1, <1>2, BeginInv DEF Fns

\* What encrypt returns: in an ultra build the witness has confirmed its tag.
LEMMA SentInv ==
  ASSUME Inv, Sent
  PROVE  Inv'
<1> USE DEF Sent
<1> DEFINE s == [fn |-> call.fn, key |-> call.key, nonce |-> call.nonce,
                 aad |-> call.aad, msg |-> src.msg, ciphertext |-> out, tag |-> tag,
                 sound |-> fault \notin {"wrong_tag", "wrong_stream"}]
<1>1. TypeOK'
  BY DEF Inv, TypeOK, Errors
<1>2. Enc /\ tag = MainTag(src) /\ out = MainXor(src, tag) /\ LengthsOK
  BY DEF Inv, Calls, Sender
<1>3. PICK m \in Msgs : src = Text(m, {}) /\ src.msg = m
  BY <1>2 DEF Inv, Calls, Text
<1>4. WellSent(s)
  <2>1. TagOf(s) = WitnessTag(src)
    BY <1>3 DEF TagOf, WitnessTag
  <2>2. tag = IF fault = "wrong_tag" THEN Damaged(TagOf(s), "computed") ELSE TagOf(s)
    BY <1>2, <2>1 DEF MainTag, WitnessTag
  <2>3. Sealed(s, IF fault = "wrong_stream" THEN Damaged(tag, "stream") ELSE tag)
    BY <1>2, <1>3, XorOn DEF Sealed, MainXor
  <2>4. Ultra /\ s.fn = "encrypt" => fault # "wrong_tag"
    BY <1>2 DEF Inv, Sender
  <2>5. MsgLen[s.msg] <= MaxMsgSize /\ AadLen[s.aad] <= MaxMsgSize
    BY <1>2 DEF LengthsOK
  <2> HIDE DEF Sent
  <2> QED
    BY <2>2, <2>3, <2>4, <2>5 DEF WellSent
<1>5. sent' = sent \cup {s}
  OBVIOUS
<1>6. AllWellSent'
  <2> HIDE DEF s, Sent
  <2>1. \A u \in sent' : WellSent(u)
    BY <1>4, <1>5 DEF Inv, AllWellSent
  <2>2. build' = build
    BY DEF Sent
  <2> QED
    BY <2>1, <2>2 DEF AllWellSent, WellSent, Sealed, TagOf, Ultra
<1>7. Calls'
  BY <1>2, <1>3 DEF Inv, Calls
<1>8. Sender' /\ Values' /\ Gates' /\ Accepts' /\ Slots'
  BY <1>2 DEF Sender, Values, Gates, Accepts, Slots
<1>9. Failed' /\ Residue'
  BY <1>2 DEF Inv, Failed, Residue, Derived, Stream
<1> QED
  BY <1>1, <1>6, <1>7, <1>8, <1>9 DEF Inv

\* The end of a call forgets what the call had.
LEMMA EndInv ==
  ASSUME Inv, End
  PROVE  Inv'
<1> USE DEF End, NoCall
<1>1. TypeOK'
  BY DEF Inv, TypeOK, Tolerated
<1>2. AllWellSent'
  BY SentKept DEF Inv
<1>3. Calls' /\ Sender' /\ Values' /\ Gates' /\ Accepts' /\ Slots' /\ Failed' /\ Residue'
  BY DEF Calls, Sender, Values, Gates, Accepts, Slots, Failed, Residue
<1> QED
  BY <1>1, <1>2, <1>3 DEF Inv

\* Before the first call there is nothing to hold of one.
LEMMA InitInv == Init => Inv
<1> SUFFICES ASSUME Init PROVE Inv
  OBVIOUS
<1> USE DEF Init, NoCall
<1>1. TypeOK
  BY DEF TypeOK, Tolerated
<1>2. AllWellSent /\ Calls /\ Sender /\ Values /\ Gates /\ Accepts /\ Slots /\ Failed /\ Residue
  BY DEF AllWellSent, Calls, Sender, Values, Gates, Accepts, Slots, Failed, Residue
<1> QED
  BY <1>1, <1>2 DEF Inv

\* Every action, and every stutter, keeps the invariant.
LEMMA StepInv == Inv /\ [Next]_vars => Inv'
<1> SUFFICES ASSUME Inv, [Next]_vars PROVE Inv'
  OBVIOUS
<1>1. ASSUME NEW f \in Encrypting, Sends(f) PROVE Inv'
  BY <1>1, SendsInv
<1>2. ASSUME NEW f \in Decrypting, Receives(f) PROVE Inv'
  BY <1>2, ReceivesInv
<1>3. CASE UNCHANGED vars
  <2> USE <1>3 DEF vars
  <2>1. TypeOK'
    BY DEF Inv, TypeOK
  <2>2. AllWellSent' /\ GivenTag' = GivenTag
    BY SentKept DEF Inv
  <2>3. Calls'
    BY <2>2 DEF Inv, Calls, LengthsOK, Ultra
  <2>4. Sender' /\ Values'
    BY DEF Inv, Sender, Values, Match, MainTag, MainXor, WitnessTag, WitnessXor, Ultra,
       DualMac
  <2>5. Gates' /\ Accepts'
    BY DEF Inv, Gates, Accepts, Match, Genuine, WitnessTag, WitnessXor, LengthsOK
  <2>6. Slots' /\ Failed' /\ Residue'
    BY DEF Inv, Slots, Failed, Residue, Copies, Ultra, DualMac
  <2> QED
    BY <2>1, <2>2, <2>3, <2>4, <2>5, <2>6 DEF Inv
<1>4. CASE BoundCheck \/ CheckLengths \/ Allocate \/ AllocationFails \/ DeriveMaterial
  BY <1>4, BoundCheckInv, CheckLengthsInv, AllocateInv, AllocationFailsInv,
     DeriveMaterialInv
<1>5. CASE DeriveTag \/ DeriveEnc \/ Keystream \/ Sent \/ WitnessEncrypt \/ WitnessDecrypt
  BY <1>5, DeriveTagInv, DeriveEncInv, KeystreamInv, SentInv, WitnessEncryptInv,
     WitnessDecryptInv
<1>6. CASE Recompute \/ Compare \/ WipeKeys \/ AcceptOrReject
  BY <1>6, RecomputeInv, CompareInv, WipeKeysInv, AcceptOrRejectInv
<1>7. CASE Check0 \/ Check1Rejects \/ Accept \/ WitnessAgreed \/ End
  BY <1>7, Check0Inv, Check1RejectsInv, AcceptInv, WitnessAgreedInv, EndInv
<1> QED
  BY <1>1, <1>2, <1>3, <1>4, <1>5, <1>6, <1>7, Zenon DEF Next

-----------------------------------------------------------------------------
(* Theorems. *)

\* In every reachable state: who was sent what, what each step of a call has derived, checked
\* and written, and what it has wiped.
THEOREM InvAlways == Spec => []Inv
<1>1. Init => Inv
  BY InitInv
<1>2. Inv /\ [Next]_vars => Inv'
  BY StepInv
<1> QED
  BY <1>1, <1>2, PTL DEF Spec

\* Every variable of the entry points keeps its type.
THEOREM TypeCorrect == Spec => []TypeOK
<1>1. Inv => TypeOK
  BY DEF Inv
<1> QED
  BY <1>1, InvAlways, PTL

\* A received tag that matches a text is one that was sent, with that text, under
\* that key and nonce and with that associated data: damage on the way shows.
LEMMA MatchWasSent ==
  ASSUME AllWellSent, Match, call.tag \in GivenTag
  PROVE  \E s \in sent : /\ s.key = call.key /\ s.nonce = call.nonce /\ s.aad = call.aad
                         /\ s.tag = call.tag
                         /\ out = Text(s.msg, {})
<1>1. PICK s \in sent : call.tag \in {s.tag, Damaged(s.tag, "transit")}
  BY DEF GivenTag
<1>2. s.tag \in {TagOf(s), Damaged(TagOf(s), "computed")}
  BY DEF AllWellSent, WellSent
<1>3. call.tag \in {WitnessTag(out), Damaged(WitnessTag(out), "computed")}
  BY DEF Match
<1>4. /\ call.tag = s.tag
      /\ WitnessTag(out) = TagOf(s)
  BY <1>1, <1>2, <1>3 DEF WitnessTag, TagOf, Damaged, Tag
<1> QED
  BY <1>4 DEF WitnessTag, TagOf, Tag

\* With any one tolerated fault in any call, and whatever was damaged or mixed up on
\* the way: a decryption that says Ok returns a message that was encrypted under the
\* same key, nonce and associated data, with this very tag.
THEOREM AuthenticAlways == Spec => []Authentic
<1>1. Inv => Authentic
  <2> SUFFICES ASSUME Inv, Returned(Decrypting), res = "Ok"
               PROVE  \E s \in sent :
                        /\ s.key = call.key /\ s.nonce = call.nonce /\ s.aad = call.aad
                        /\ s.tag = call.tag
                        /\ out = Text(s.msg, {})
    BY DEF Authentic
  <2>1. Match /\ call.tag \in GivenTag
    BY DEF Returned, Inv, Gates, Calls
  <2> QED
    BY <2>1, MatchWasSent DEF Inv
<1> QED
  BY <1>1, InvAlways, PTL

\* A call that fails leaves the buffer zeroed, or as the caller gave it to encrypt in
\* place; a refusal for length or memory comes before any key material.
THEOREM FailureAlways == Spec => []FailureLeavesNothing
<1>1. Inv => FailureLeavesNothing
  BY DEF Inv, TypeOK, Fns, Calls, Failed, Sender, InPlace, Errors, FailureLeavesNothing
<1> QED
  BY <1>1, InvAlways, PTL

\* Whichever way a call returns, it has wiped every local that held a secret.
THEOREM ResidueAlways == Spec => []NoResidue
<1>1. Inv => NoResidue
  BY DEF Inv, Residue, NoResidue
<1> QED
  BY <1>1, InvAlways, PTL

\* What was sent and arrives whole is accepted and is the message that was sent, in
\* every build, unless memory runs out or the receiver set a lower limit.
THEOREM RoundTripAlways == Spec => []RoundTrip
<1>1. Inv => RoundTrip
  <2> SUFFICES ASSUME Inv, Returned(Decrypting), fault = "none", NEW s \in sent,
                      s.sound, src = s.ciphertext, call.tag = s.tag, call.key = s.key,
                      call.nonce = s.nonce, call.aad = s.aad
               PROVE  \/ res = "Ok" /\ out = Text(s.msg, {})
                      \/ res = "AllocationFailed"
                      \/ res = "MessageTooLong" /\ MsgLen[s.msg] > call.limit
    BY DEF RoundTrip
  <2>1. call.tag = TagOf(s) /\ src = Text(s.msg, {Pad(s.key, s.nonce, TagOf(s))})
    BY DEF Inv, AllWellSent, WellSent, Sealed
  <2>2. WitnessXor(src, call.tag) = Text(s.msg, {})
    BY <2>1, XorOff DEF WitnessXor
  <2>3. Genuine
    BY <2>1, <2>2 DEF Genuine, WitnessTag, TagOf
  <2>4. src.msg = s.msg /\ LengthsOK
    BY <2>1 DEF Inv, AllWellSent, WellSent, LengthsOK, Text
  <2>5. res \in {"Ok", "AllocationFailed", "MessageTooLong"}
    BY <2>3, <2>4 DEF Inv, TypeOK, Errors, Failed, Accepts, Returned
  <2> QED
    BY <2>2, <2>4, <2>5 DEF Inv, Accepts, Returned
<1> QED
  BY <1>1, InvAlways, PTL

\* Two encryptions share a keystream only if they encrypted the same message under
\* the same key, nonce and associated data: the tag is in the key of the stream.
THEOREM KeystreamAlways == Spec => []KeystreamNotReused
<1>1. Inv => KeystreamNotReused
  <2> SUFFICES ASSUME Inv, NEW s \in sent, NEW u \in sent,
                      s.ciphertext.pads = u.ciphertext.pads
               PROVE  /\ s.key = u.key /\ s.nonce = u.nonce
                      /\ s.aad = u.aad /\ s.msg = u.msg
    BY DEF KeystreamNotReused
  <2>1. PICK t \in {TagOf(s), Damaged(TagOf(s), "computed"), Damaged(TagOf(s), "stream")} :
          Sealed(s, t)
    BY DEF Inv, AllWellSent, WellSent
  <2>2. PICK v \in {TagOf(u), Damaged(TagOf(u), "computed"), Damaged(TagOf(u), "stream")} :
          Sealed(u, v)
    BY DEF Inv, AllWellSent, WellSent
  <2>3. Pad(s.key, s.nonce, t) = Pad(u.key, u.nonce, v)
    BY <2>1, <2>2 DEF Sealed, Text
  <2>4. s.key = u.key /\ s.nonce = u.nonce /\ t = v
    BY <2>3 DEF Pad
  <2>5. t.aad = s.aad /\ t.text = Text(s.msg, {}) /\ v.aad = u.aad /\ v.text = Text(u.msg, {})
    BY DEF TagOf, Tag, Damaged
  <2> QED
    BY <2>4, <2>5 DEF Text
<1> QED
  BY <1>1, InvAlways, PTL

\* In an ultra build no fault makes encrypt return a tag that is not the message's.
THEOREM UltraAlways == Spec => []UltraSendsTheTag
<1>1. Inv => UltraSendsTheTag
  BY DEF Inv, AllWellSent, WellSent, TagOf, UltraSendsTheTag
<1> QED
  BY <1>1, InvAlways, PTL
============================================================================
