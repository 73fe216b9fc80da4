-------------------------------- MODULE Aead --------------------------------
(***************************************************************************)
(* The entry points of src/src/lib.rs (encrypt, encrypt_in_place_detached, *)
(* decrypt, decrypt_bounded, decrypt_in_place_detached) step by step, in   *)
(* every build the Cargo features allow, with allocations that fail, input *)
(* that was damaged or mixed up on its way, and at most one of the faults  *)
(* the build is written to tolerate in each call.                          *)
(*                                                                         *)
(* Cryptographic values are terms: a tag is the record of what it was      *)
(* derived from, a keystream likewise, and XOR with a keystream adds it to *)
(* or removes it from the pads on a message.  Calls share no state but     *)
(* what they return, so they run one at a time.                            *)
(***************************************************************************)
EXTENDS Naturals, FiniteSets

CONSTANTS
  Keys, Nonces, Aads, Msgs,   \* keys, nonces, associated data, contents
  MsgLen, AadLen,             \* their lengths
  MaxMsgSize,                 \* MAX_MSG_SIZE
  Limits,                     \* values of max_len given to decrypt_bounded
  Zero,                       \* a zeroed buffer, or a value not there yet
  Plans                       \* bounds on a behaviour, see Plan

Features == {"hardened", "dual-mac", "ultra"}

\* The builds, keys, associated data and contents a behaviour may use, and the number
\* of encryptions that may succeed in it.
Plan ==
  [builds : SUBSET SUBSET Features, keys : SUBSET Keys, aads : SUBSET Aads,
   msgs : SUBSET Msgs, sent : Nat]

ASSUME AeadAssumption ==
  /\ MsgLen \in [Msgs -> Nat] /\ AadLen \in [Aads -> Nat]
  /\ MaxMsgSize \in Nat
  /\ Limits \subseteq Nat
  \* Cargo.toml: ultra turns on dual-mac, dual-mac turns on hardened.
  /\ Plans \subseteq Plan
  /\ \A p \in Plans : \A b \in p.builds :
       ("ultra" \in b => "dual-mac" \in b) /\ ("dual-mac" \in b => "hardened" \in b)

VARIABLES
  plan,         \* the bounds of this behaviour; never changes
  build,        \* the Cargo features compiled in; never changes
  pc,           \* where the call is
  call,         \* its function and arguments
  src,          \* the message the caller passed
  fault,        \* the fault this call suffers, or "none"
  out,          \* the buffer the call writes: a Vec, or the caller's (in place)
  tag,          \* derive_tag's result: tag, or computed_tag
  again,        \* recomputed_tag
  witnessTag,   \* witness_tag
  witnessText,  \* witness_plaintext
  live,         \* names of the locals that hold secret-derived bytes
  gate0, gate1,         \* what accept_or_reject is given
  decision0, decision1, \* and what it writes
  res,          \* what the call returned
  allocated,    \* history: the call allocated a message-sized buffer
  derived,      \* history: the call derived key material
  sent          \* what encrypt calls returned, for receivers to be given

input    == <<plan, build, call, src, fault>>
tags     == <<tag, again, witnessTag, witnessText>>
decision == <<gate0, gate1, decision0, decision1>>
history  == <<allocated, derived, sent>>
vars     == <<input, pc, out, tags, live, decision, res, history>>

Encrypting == {"encrypt", "encrypt_in_place_detached"}
Decrypting == {"decrypt", "decrypt_bounded", "decrypt_in_place_detached"}
InPlace == {"encrypt_in_place_detached", "decrypt_in_place_detached"}

Hardened == "hardened" \in build
DualMac == "dual-mac" \in build
Ultra == "ultra" \in build

-----------------------------------------------------------------------------
(* Terms. *)

\* The bytes of a message buffer: contents with keystreams XORed on, or zeros.
Text(m, pads) == [msg |-> m, pads |-> pads]

Tag(k, n, a, text) ==
  [key |-> k, nonce |-> n, aad |-> a, text |-> text, damage |-> "none"]

\* A tag that is not what was derived; damage of different origin differs.
Damaged(t, by) == [t EXCEPT !.damage = by]

\* Mutant: the keystream depends on key and nonce only, as in a plain stream mode.
PadOfNonce(k, n, t) == [key |-> k, nonce |-> n, tag |-> Zero]

\* derive_enc, then the ChaCha20 keystream of that key and nonce
Pad(k, n, t) == [key |-> k, nonce |-> n, tag |-> t]

Xor(text, pad) ==
  [text EXCEPT !.pads = IF pad \in @ THEN @ \ {pad} ELSE @ \cup {pad}]

-----------------------------------------------------------------------------
(* Faults.  The first group corrupts the decision, the second a comparison, *)
(* the third a value.                                                       *)

\* What the comments of accept_or_reject, second_gate_comparison, derive_tag's
\* recomputation and the witness say one fault of cannot accept a forgery.
Tolerated(b) ==
  {"none", "skip_call", "skip_check0", "skip_check1", "slot0", "slot1",
   "wrong_tag", "wrong_stream"}
  \cup (IF "hardened" \in b THEN {"gate0", "gate1", "ct_eq", "fold"} ELSE {})
  \cup (IF "dual-mac" \in b THEN {"substitute"} ELSE {})
  \cup (IF "ultra" \in b THEN {"forge_tag"} ELSE {})

\* The main implementation: a fault in it is in every run of it.  "forge_tag"
\* computes the received tag whatever the message says.
MainTag(text) ==
  LET t == Tag(call.key, call.nonce, call.aad, text)
  IN  CASE fault = "wrong_tag" -> Damaged(t, "computed")
        [] fault = "forge_tag" /\ call.fn \in Decrypting -> call.tag
        [] OTHER -> t

MainXor(text, t) ==
  Xor(text, Pad(call.key, call.nonce,
                IF fault = "wrong_stream" THEN Damaged(t, "stream") ELSE t))

\* The witness: the same functions, written independently.
WitnessTag(text) == Tag(call.key, call.nonce, call.aad, text)
WitnessXor(text, t) == Xor(text, Pad(call.key, call.nonce, t))

\* subtle's byte loop, and the fold written to fail differently
CtEq(a, b) == a = b \/ fault = "ct_eq"
CtEqIndependent(a, b) == a = b \/ fault = "fold"

-----------------------------------------------------------------------------
(* A call begins. *)

Fns == Encrypting \cup Decrypting
Errors == {"MessageTooLong", "AadTooLong", "AllocationFailed",
           "AuthenticationFailed"}

NoCall == [fn |-> "none", key |-> Zero, nonce |-> Zero, aad |-> Zero,
           tag |-> Zero, limit |-> 0]

Init ==
  /\ plan \in Plans /\ build \in plan.builds
  /\ pc = "idle" /\ call = NoCall /\ fault = "none"
  /\ src = Zero /\ out = Zero
  /\ tag = Zero /\ again = Zero /\ witnessTag = Zero /\ witnessText = Zero
  /\ live = {}
  /\ gate0 = FALSE /\ gate1 = FALSE
  /\ decision0 = "Err" /\ decision1 = "Err"
  /\ res = "none"
  /\ allocated = FALSE /\ derived = FALSE
  /\ sent = {}

Begin(f, k, n, a, text, t, limit) ==
  /\ pc = "idle"
  /\ pc' = IF f = "decrypt_bounded" THEN "bound" ELSE "lengths"
  /\ call' = [fn |-> f, key |-> k, nonce |-> n, aad |-> a, tag |-> t,
              limit |-> limit]
  /\ src' = text
  /\ out' = IF f \in InPlace THEN text ELSE Zero
  /\ fault' \in Tolerated(build)
  /\ UNCHANGED <<plan, build, tags, live, decision, res, history>>

\* A sender: any message under any key and nonce, nonces used again included.
Send(f, k, n, a, m) ==
  /\ Cardinality(sent) < plan.sent
  /\ Begin(f, k, n, a, Text(m, {}), Zero, 0)

\* What a receiver is given: the parts of messages that were sent, each possibly
\* of another message than the others, damaged, or read under the wrong
\* parameters.  Damage to the bytes of a ciphertext changes the contents under
\* the keystream, and never the length.
GivenText ==
  {Text(m, s.ciphertext.pads) : m \in plan.msgs, s \in sent}
GivenTag == {s.tag : s \in sent} \cup {Damaged(s.tag, "transit") : s \in sent}

Receive(f, k, n, a, text, t, limit) ==
  /\ text \in GivenText /\ t \in GivenTag
  /\ Begin(f, k, n, a, text, t, limit)

-----------------------------------------------------------------------------
(* Refusals, before any key material. *)

Finish(r) == pc' = "done" /\ res' = r

\* zeroize_slice on the caller's buffer, which only decrypting in place does.
WipeOut == IF call.fn \in Decrypting THEN Zero ELSE out

\* Mutant: an early refusal leaves the caller's buffer as it was.
RefuseUnwiped(r) ==
  /\ Finish(r)
  /\ UNCHANGED <<input, out, tags, live, decision, history>>

Refuse(r) ==
  /\ Finish(r)
  /\ out' = WipeOut
  /\ UNCHANGED <<input, tags, live, decision, history>>

LengthsOK == MsgLen[src.msg] <= MaxMsgSize /\ AadLen[call.aad] <= MaxMsgSize

BoundCheck ==
  /\ pc = "bound"
  /\ IF MsgLen[src.msg] > call.limit
     THEN Refuse("MessageTooLong")
     ELSE pc' = "lengths" /\ UNCHANGED <<input, out, tags, live, decision, res, history>>

CheckLengths ==
  /\ pc = "lengths"
  /\ IF LengthsOK
     THEN pc' = "alloc" /\ UNCHANGED <<input, out, tags, live, decision, res, history>>
     ELSE Refuse(IF MsgLen[src.msg] > MaxMsgSize THEN "MessageTooLong" ELSE "AadTooLong")

\* alloc_zeroed for the result and, in ultra builds, for the witness; in place
\* only the latter.
NeedsMemory == call.fn \notin InPlace \/ (Ultra /\ call.fn \in Decrypting)

Allocate ==
  /\ pc = "alloc"
  /\ pc' = "material"
  /\ allocated' = NeedsMemory
  /\ UNCHANGED <<input, out, tags, live, decision, res, derived, sent>>

\* Mutant: the refusal is not one of the errors of the API.
AllocationAborts ==
  /\ pc = "alloc" /\ NeedsMemory
  /\ Refuse("Aborted")

\* try_reserve_exact fails, for the first buffer or for a later one.
AllocationFails ==
  /\ pc = "alloc" /\ NeedsMemory
  /\ Refuse("AllocationFailed")

DeriveMaterial ==
  /\ pc = "material"
  /\ derived' = TRUE
  /\ live' = live \cup {"k_in", "k_out", "enc_seed"}
  /\ pc' = IF call.fn \in Encrypting THEN "tag" ELSE "enc"
  /\ UNCHANGED <<input, out, tags, decision, res, allocated, sent>>

-----------------------------------------------------------------------------
(* Both directions.  Encryption: tag, witness, enc, stream.  Decryption: enc, *)
(* stream, tag, witness.                                                      *)

\* The plaintext: what encryption was given, what decryption has recovered.
Plain == IF call.fn \in Encrypting THEN src ELSE out

\* Mutant: encrypt does not consult the witness.
DeriveTagUnwitnessed ==
  /\ pc = "tag"
  /\ tag' = MainTag(Plain)
  /\ live' = live \cup {"tag"}
  /\ pc' = IF call.fn \in Encrypting THEN "enc" ELSE "witness"
  /\ UNCHANGED <<input, out, again, witnessTag, witnessText, decision, res, history>>

DeriveTag ==
  /\ pc = "tag"
  /\ tag' = MainTag(Plain)
  /\ live' = live \cup {"tag"}
  /\ pc' = IF call.fn \in Encrypting /\ ~(call.fn = "encrypt" /\ Ultra)
           THEN "enc" ELSE "witness"
  /\ UNCHANGED <<input, out, again, witnessTag, witnessText, decision, res, history>>

\* The message is encrypted under the tag, its own or the received one.  In
\* place, an ultra build first keeps a copy of the ciphertext for the witness.
DeriveEnc ==
  /\ pc = "enc"
  /\ live' = live \cup {"enc_key", "enc_nonce"}
                  \cup (IF Ultra /\ call.fn = "decrypt_in_place_detached"
                        THEN {"witness_ciphertext"} ELSE {})
  /\ pc' = "stream"
  /\ UNCHANGED <<input, out, tags, decision, res, history>>

Keystream ==
  /\ pc = "stream"
  /\ out' = MainXor(src, IF call.fn \in Encrypting THEN tag ELSE call.tag)
  /\ live' = IF call.fn \in Decrypting THEN live \cup {"plaintext"} ELSE live
  /\ pc' = IF call.fn \in Encrypting THEN "sent" ELSE "tag"
  /\ UNCHANGED <<input, tags, decision, res, history>>

\* encrypt returns the ciphertext and the tag, which are public from here on.
Sent ==
  /\ pc = "sent"
  /\ live' = live \ {"k_in", "k_out", "enc_seed", "enc_key", "enc_nonce", "tag"}
  /\ sent' = sent \cup {[fn |-> call.fn, key |-> call.key, nonce |-> call.nonce,
                         aad |-> call.aad, msg |-> src.msg, ciphertext |-> out,
                         tag |-> tag, sound |-> fault \notin {"wrong_tag", "wrong_stream"}]}
  /\ Finish("Ok")
  /\ UNCHANGED <<input, out, tags, decision, allocated, derived>>

-----------------------------------------------------------------------------
(* The checks. *)

\* witness::encrypt_tag, compared twice; the tag itself is compared by nobody
\* else on this side.
WitnessEncrypt ==
  /\ pc = "witness" /\ call.fn = "encrypt"
  /\ gate0' = CtEq(WitnessTag(src), tag)
  /\ gate1' = CtEqIndependent(WitnessTag(src), tag)
  /\ pc' = "decide"
  /\ UNCHANGED <<input, out, tags, live, decision0, decision1, res, history>>

\* Mutant: the witness is handed the buffer after the XOR.
WitnessDecryptTooLate ==
  /\ pc = "witness" /\ call.fn \in Decrypting
  /\ IF Ultra
     THEN LET text == WitnessXor(out, call.tag)
          IN  /\ witnessText' = text
              /\ witnessTag' = WitnessTag(text)
              /\ live' = live \cup {"witness_tag", "witness_plaintext"}
     ELSE UNCHANGED <<witnessTag, witnessText, live>>
  /\ pc' = "recompute"
  /\ UNCHANGED <<input, out, tag, again, decision, res, history>>

\* witness::decrypt starts over from the ciphertext; without ultra, nothing.
WitnessDecrypt ==
  /\ pc = "witness" /\ call.fn \in Decrypting
  /\ IF Ultra
     THEN LET text == WitnessXor(src, call.tag)
          IN  /\ witnessText' = text
              /\ witnessTag' = WitnessTag(text)
              /\ live' = live \cup {"witness_tag", "witness_plaintext"}
     ELSE UNCHANGED <<witnessTag, witnessText, live>>
  /\ pc' = "recompute"
  /\ UNCHANGED <<input, out, tag, again, decision, res, history>>

\* witness_ok (kept in gate1 until the gates are formed), the witness's wipes, and
\* dual-mac's second derive_tag.  A fault may by now have put the received tag
\* where the computed one was.
Recompute ==
  /\ pc = "recompute"
  /\ gate1' = (Ultra => CtEq(witnessTag, tag) /\ CtEq(witnessText, out))
  /\ again' = IF DualMac THEN MainTag(out) ELSE again
  /\ live' = (live \ {"witness_tag", "witness_plaintext", "witness_ciphertext"})
               \cup (IF DualMac THEN {"recomputed_tag"} ELSE {})
  /\ tag' = IF fault = "substitute" THEN call.tag ELSE tag
  /\ pc' = "compare"
  /\ UNCHANGED <<input, out, witnessTag, witnessText, gate0, decision0, decision1,
                 res, history>>

\* Mutant: both gates compare with the same loop.
CompareOneShape ==
  /\ pc = "compare"
  /\ gate0' = CtEq(tag, call.tag)
  /\ gate1' = IF Hardened
              THEN /\ gate1 /\ CtEq(tag, call.tag)
                   /\ DualMac => CtEq(again, tag) /\ CtEq(again, call.tag)
              ELSE CtEq(tag, call.tag)
  /\ pc' = "wipe"
  /\ UNCHANGED <<input, out, tags, live, decision0, decision1, res, history>>

\* first and second; in a build without gates, auth_ok twice.
Compare ==
  /\ pc = "compare"
  /\ gate0' = CtEq(tag, call.tag)
  /\ gate1' = IF Hardened
              THEN /\ gate1
                   /\ CtEq(tag, call.tag) /\ CtEqIndependent(tag, call.tag)
                   /\ DualMac => CtEq(again, tag) /\ CtEq(again, call.tag)
              ELSE CtEq(tag, call.tag)
  /\ pc' = "wipe"
  /\ UNCHANGED <<input, out, tags, live, decision0, decision1, res, history>>

\* Mutant: the derived nonce is forgotten.
WipeKeysNotNonce ==
  /\ pc = "wipe"
  /\ live' = live \ ({"k_in", "k_out", "enc_seed", "enc_key", "tag"}
                       \cup (IF DualMac THEN {"recomputed_tag"} ELSE {}))
  /\ pc' = "decide"
  /\ UNCHANGED <<input, out, tags, decision, res, history>>

\* Everything but the plaintext is wiped before the decision.
WipeKeys ==
  /\ pc = "wipe"
  /\ live' = live \ ({"k_in", "k_out", "enc_seed", "enc_key", "enc_nonce", "tag"}
                       \cup (IF DualMac THEN {"recomputed_tag"} ELSE {}))
  /\ pc' = "decide"
  /\ UNCHANGED <<input, out, tags, decision, res, history>>

\* accept_or_reject.  Both slots hold a rejection before the call.
AcceptOrReject ==
  /\ pc = "decide"
  /\ LET first  == gate0 \/ fault = "gate0"
         second == gate1 \/ fault = "gate1"
         verdict(b) == IF b THEN "Ok" ELSE "Err"
     IN IF fault = "skip_call" THEN UNCHANGED <<decision0, decision1>>
        ELSE /\ decision0' = verdict(first \/ fault = "slot0")
             /\ decision1' = IF fault = "slot1" THEN "Ok"
                             ELSE IF first THEN verdict(IF Hardened THEN second ELSE first)
                             ELSE decision1
  /\ pc' = "check0"
  /\ UNCHANGED <<input, out, tags, live, gate0, gate1, res, history>>

\* Either rejection: the plaintext is wiped; encrypt wipes keys and tag instead
\* (its ciphertext buffer is still all zeros).
Reject ==
  /\ Finish("AuthenticationFailed")
  /\ out' = WipeOut
  /\ live' = live \ (IF call.fn \in Decrypting THEN {"plaintext"}
                     ELSE {"k_in", "k_out", "enc_seed", "tag"})
  /\ UNCHANGED <<input, tags, decision, history>>

Rejects(slot, skip) == slot = "Err" /\ fault # skip

Check0 ==
  /\ pc = "check0"
  /\ \/ Rejects(decision0, "skip_check0") /\ Reject
     \/ /\ ~Rejects(decision0, "skip_check0")
        /\ pc' = "check1"
        /\ UNCHANGED <<input, out, tags, live, decision, res, history>>

\* Accepting is the fall-through of both checks.
Check1Rejects ==
  /\ pc = "check1" /\ Rejects(decision1, "skip_check1")
  /\ Reject

Accept ==
  /\ pc = "check1" /\ ~Rejects(decision1, "skip_check1")
  /\ call.fn \in Decrypting
  /\ Finish("Ok")
  /\ live' = live \ {"plaintext"}   \* it is the caller's now
  /\ UNCHANGED <<input, out, tags, decision, history>>

\* encrypt goes on to encrypt.
WitnessAgreed ==
  /\ pc = "check1" /\ ~Rejects(decision1, "skip_check1")
  /\ call.fn \in Encrypting
  /\ pc' = "enc"
  /\ UNCHANGED <<input, out, tags, live, decision, res, history>>

\* The caller has looked at the result; the frame is gone.
End ==
  /\ pc = "done"
  /\ pc' = "idle" /\ call' = NoCall /\ fault' = "none"
  /\ src' = Zero /\ out' = Zero
  /\ tag' = Zero /\ again' = Zero /\ witnessTag' = Zero /\ witnessText' = Zero
  /\ live' = {}
  /\ gate0' = FALSE /\ gate1' = FALSE
  /\ decision0' = "Err" /\ decision1' = "Err"
  /\ res' = "none"
  /\ allocated' = FALSE /\ derived' = FALSE
  /\ UNCHANGED <<plan, build, sent>>

-----------------------------------------------------------------------------
Receives(f) ==
  \E k \in plan.keys, n \in Nonces, a \in plan.aads, text \in GivenText, t \in GivenTag :
    \E limit \in IF f = "decrypt_bounded" THEN Limits ELSE {0} :
      Receive(f, k, n, a, text, t, limit)

Sends(f) ==
  \E k \in plan.keys, n \in Nonces, a \in plan.aads, m \in plan.msgs : Send(f, k, n, a, m)

Next ==
  \/ \E f \in Encrypting : Sends(f)
  \/ \E f \in Decrypting : Receives(f)
  \/ BoundCheck \/ CheckLengths \/ Allocate \/ AllocationFails
  \/ DeriveMaterial \/ DeriveTag \/ DeriveEnc \/ Keystream \/ Sent
  \/ WitnessEncrypt \/ WitnessDecrypt \/ Recompute \/ Compare \/ WipeKeys
  \/ AcceptOrReject \/ Check0 \/ Check1Rejects \/ Accept \/ WitnessAgreed \/ End

Spec == Init /\ [][Next]_vars

-----------------------------------------------------------------------------
Secrets == {"k_in", "k_out", "enc_seed", "enc_key", "enc_nonce", "tag",
            "recomputed_tag", "witness_tag", "witness_plaintext",
            "witness_ciphertext", "plaintext"}

TypeOK ==
  /\ plan \in Plans /\ build \in plan.builds
  /\ pc \in {"idle", "bound", "lengths", "alloc", "material", "tag", "enc",
             "stream", "sent", "witness", "recompute", "compare", "wipe",
             "decide", "check0", "check1", "done"}
  /\ call.fn \in Fns \cup {"none"}
  /\ fault \in Tolerated(build)
  /\ live \subseteq Secrets
  /\ gate0 \in BOOLEAN /\ gate1 \in BOOLEAN
  /\ decision0 \in {"Ok", "Err"} /\ decision1 \in {"Ok", "Err"}
  /\ res \in Errors \cup {"none", "Ok"}
  /\ allocated \in BOOLEAN /\ derived \in BOOLEAN

Returned(f) == pc = "done" /\ call.fn \in f

\* "The unverified plaintext is never exposed" (decrypt), with any one fault the
\* build tolerates: what a decryption hands out is what some encryption was
\* given under the same key, nonce and associated data, with this very tag.
Authentic ==
  Returned(Decrypting) /\ res = "Ok" =>
    \E s \in sent :
      /\ s.key = call.key /\ s.nonce = call.nonce /\ s.aad = call.aad
      /\ s.tag = call.tag
      /\ out = Text(s.msg, {})

\* "On failure the buffer is zeroized" on every path, length and allocation
\* refusals included; a failed encryption has written nothing.  A refusal for length
\* or memory comes before any key material exists, and one for length before any
\* message-sized allocation.
FailureLeavesNothing ==
  pc = "done" /\ res \in Errors =>
    /\ out \in {Zero, IF call.fn = "encrypt_in_place_detached" THEN src ELSE Zero}
    /\ derived => res = "AuthenticationFailed"
    /\ allocated => res \notin {"MessageTooLong", "AadTooLong"}

\* Whichever way a call returns, no local that held secret-derived bytes is left
\* unwiped in its frame.
NoResidue == pc = "done" => live = {}

\* What was sent and arrives whole is accepted and is the message sent, by every
\* decryption function and in every build, unless memory runs out or the
\* receiver set itself a lower limit.
RoundTrip ==
  Returned(Decrypting) /\ fault = "none" =>
    \A s \in sent :
      (/\ s.sound /\ src = s.ciphertext /\ call.tag = s.tag
       /\ call.key = s.key /\ call.nonce = s.nonce /\ call.aad = s.aad)
      => \/ res = "Ok" /\ out = Text(s.msg, {})
         \/ res = "AllocationFailed"
         \/ res = "MessageTooLong" /\ MsgLen[s.msg] > call.limit

\* Nonce misuse: two encryptions use the same keystream only if they encrypted
\* the same message under the same key, nonce and associated data.
KeystreamNotReused ==
  \A s, u \in sent :
    s.ciphertext.pads = u.ciphertext.pads =>
      /\ s.key = u.key /\ s.nonce = u.nonce
      /\ s.aad = u.aad /\ s.msg = u.msg

\* In an ultra build encrypt does not return a wrong tag, whatever one fault did.
UltraSendsTheTag ==
  Ultra => \A s \in sent :
    s.fn = "encrypt" => s.tag = Tag(s.key, s.nonce, s.aad, Text(s.msg, {}))
=============================================================================
