---------------------------- MODULE ChaChaApply ----------------------------
(***************************************************************************)
(* chacha20_apply (src/src/lib.rs): the keystream of a message, applied in *)
(* batches of eight, four and one block over a 32-bit counter that wraps,  *)
(* by threads that share the cached answer to whether the machine has      *)
(* AVX2.                                                                   *)
(*                                                                         *)
(* The blocks are those the kernels write (ChaChaKernels).  A byte is the  *)
(* set of what has been XORed into it, so that XOR is the symmetric        *)
(* difference.  The witness of ultra, keystream_xor, applies its own       *)
(* blocks, one at a time; and both derive a subkey by HChaCha20.           *)
(***************************************************************************)
EXTENDS ChaChaKernels, FiniteSets

CONSTANTS
  Threads,
  BlockLen,    \* CHACHA20_BLOCK
  MaxMsg,      \* MAX_MSG_SIZE
  Cpus,        \* machines, see Cpu
  Targets,     \* for which the code was built, see ApplyAssumption
  Calls        \* bound: the calls each thread may make, see CallArgs

\* What CPUID and XCR0 say; bit5 is bit 5 of what reading leaf 7 returns, which is
\* another leaf's data on a CPU without one.
Cpu == [leaf7 : BOOLEAN, osxsave : BOOLEAN, avx : BOOLEAN, ymm : BOOLEAN, bit5 : BOOLEAN]

\* The first counter, the length of the output, and the kind of input; "Witness" is
\* keystream_xor, "Subkey" either hchacha20.
CallArgs ==
  [start : 0..Values - 1, n : Nat,
   input : {"Separate", "InPlace", "Keystream", "Witness", "Subkey"}]

\* The assertions on MAX_MSG_SIZE at compile time.
ASSUME ApplyAssumption ==
  /\ BlockLen \in Nat \ {0}
  /\ MaxMsg \in Nat /\ MaxMsg % BlockLen = 0 /\ MaxMsg \div BlockLen <= Values
  /\ \A t \in Threads : Calls[t] \subseteq CallArgs
  /\ Cpus \subseteq Cpu
  /\ Targets \subseteq {"x86_64", "neon", "other"}

VARIABLES
  cpu, target,
  cache,       \* AVX2_CACHE
  th           \* the call of every thread

vars == <<cpu, target, cache, th>>

Idle == [pc |-> "idle"]

-----------------------------------------------------------------------------
\* What is not keystream.
text == <<"text">>
old == <<"old">>

Xor(a, b) == (a \ b) \cup (b \ a)

\* What the caller's output holds before the call, and the byte it is to be XORed with.
Old(input) == IF input = "InPlace" THEN {text} ELSE {old}
Text(input) == IF input = "Keystream" THEN {} ELSE {text}

\* Byte i of the keystream from counter c on
KeyByte(c, i) == <<(c + (i - 1) \div BlockLen) % Values, (i - 1) % BlockLen>>

\* Byte i of what the kernel writes when it starts at counter c
KernelByte(kernel, c, i) ==
  <<Kernels[kernel][c].blocks[1 + (i - 1) \div BlockLen], (i - 1) % BlockLen>>

\* xor_or_copy of the first n bytes the kernel writes for ctr, at offset off.
XorOrCopy(call, kernel, n) ==
  [i \in 1..call.n |->
     IF i \notin call.off + 1..call.off + n THEN call.out[i]
     ELSE LET k == {KernelByte(kernel, call.ctr, i - call.off)}
          IN  CASE call.input = "InPlace" -> Xor(call.out[i], k)
                [] call.input = "Keystream" -> k
                [] OTHER -> Xor({text}, k)]

\* A turn of one of the loops.
Batch(call, kernel, blocks) ==
  [call EXCEPT !.out = XorOrCopy(call, kernel, blocks * BlockLen),
               !.ctr = (@ + blocks) % Values,
               !.off = @ + blocks * BlockLen,
               !.left = @ \cup Kernels[kernel][call.ctr].leaves]

Room(call, blocks) == call.off + blocks * BlockLen <= call.n

\* Mutant: leaf 7 is read without asking whether there is one.
DetectUnasked == cpu.osxsave /\ cpu.avx /\ cpu.ymm /\ cpu.bit5

\* detect_avx2 and avx2_from_cpuid
Detect == cpu.osxsave /\ cpu.avx /\ cpu.ymm /\ cpu.leaf7 /\ cpu.bit5

-----------------------------------------------------------------------------
At(t, pc) == th[t].pc = pc
Step(t, call) == th' = [th EXCEPT ![t] = call] /\ UNCHANGED <<cpu, target>>
Goto(t, pc) == Step(t, [th[t] EXCEPT !.pc = pc])

Init ==
  /\ cpu \in Cpus /\ target \in Targets
  /\ cache = 0
  /\ th = [t \in Threads |-> Idle]

First(input) ==
  CASE input = "Witness" -> "witness"
    [] input = "Subkey" -> "subkey"
    [] OTHER -> CASE target = "x86_64" -> "load" [] target = "neon" -> "four"
                  [] target = "other" -> "one"

\* left: the locals that hold what is derived from the key, and were not wiped
NewCall(args) ==
  [pc |-> First(args.input), start |-> args.start, ctr |-> args.start, n |-> args.n, off |-> 0,
   input |-> args.input, out |-> [i \in 1..args.n |-> Old(args.input)], left |-> {}]

\* A call by one of the entry points, which have checked the length.
Call(t, args) ==
  /\ At(t, "idle") /\ args.n <= MaxMsg
  /\ Step(t, NewCall(args)) /\ UNCHANGED cache

\* has_avx2
LoadCache(t) ==
  /\ At(t, "load")
  /\ Goto(t, CASE cache = 0 -> "store" [] cache = 1 -> "four" [] cache = 2 -> "eight")
  /\ UNCHANGED cache

StoreCache(t) ==
  /\ At(t, "store")
  /\ cache' = IF Detect THEN 2 ELSE 1
  /\ Goto(t, IF Detect THEN "eight" ELSE "four")

\* The 512-byte keystream, and the 256-byte one, are wiped after their loops.
Eight(t) ==
  /\ At(t, "eight") /\ Room(th[t], 8)
  /\ Step(t, [Batch(th[t], "avx2", 8) EXCEPT !.left = @ \cup {"ks8"}]) /\ UNCHANGED cache

\* Mutant: the keystream of the wide loop is left on the stack.
EightDoneUnwiped(t) ==
  /\ At(t, "eight") /\ ~Room(th[t], 8)
  /\ Goto(t, "four") /\ UNCHANGED cache

EightDone(t) ==
  /\ At(t, "eight") /\ ~Room(th[t], 8)
  /\ Step(t, [th[t] EXCEPT !.pc = "four", !.left = @ \ {"ks8"}]) /\ UNCHANGED cache

Four(t) ==
  /\ At(t, "four") /\ Room(th[t], 4)
  /\ Step(t, [Batch(th[t], IF target = "neon" THEN "neon" ELSE "sse2", 4)
                EXCEPT !.left = @ \cup {"ks4"}])
  /\ UNCHANGED cache

FourDone(t) ==
  /\ At(t, "four") /\ ~Room(th[t], 4)
  /\ Step(t, [th[t] EXCEPT !.pc = "one", !.left = @ \ {"ks4"}]) /\ UNCHANGED cache

\* The scalar loop; its block is wiped in every turn.
One(t) ==
  /\ At(t, "one") /\ Room(th[t], 1)
  /\ Step(t, Batch(th[t], "scalar", 1)) /\ UNCHANGED cache

Partial(t) ==
  /\ At(t, "one") /\ ~Room(th[t], 1)
  /\ Step(t, [th[t] EXCEPT !.out = XorOrCopy(th[t], "scalar", th[t].n - th[t].off),
                           !.left = @ \cup (IF th[t].off = th[t].n THEN {}
                                            ELSE Kernels.scalar[th[t].ctr].leaves),
                           !.pc = "done"])
  /\ UNCHANGED cache

\* keystream_xor, a turn for every block of which something is left to do; its block
\* is wiped in every turn too.
WitnessTurn(t) ==
  LET call == th[t]
      take == IF call.n - call.off < BlockLen THEN call.n - call.off ELSE BlockLen
  IN  /\ At(t, "witness") /\ call.off < call.n
      /\ Step(t, [call EXCEPT !.out = XorOrCopy(call, "witness", take),
                              !.ctr = (@ + 1) % Values, !.off = @ + take,
                              !.left = @ \cup Kernels.witness[call.ctr].leaves])
      /\ UNCHANGED cache

WitnessDone(t) ==
  /\ At(t, "witness") /\ th[t].off = th[t].n
  /\ Goto(t, "done") /\ UNCHANGED cache

\* The first step of derive_material in either implementation
SubkeyNonce == Nonce \o << <<"nonce", 3>> >>

Subkey(t) ==
  /\ At(t, "subkey")
  /\ \E out \in {HChaCha20Into(SubkeyNonce), WitnessHChaCha20(SubkeyNonce)} :
       Step(t, [th[t] EXCEPT !.out = out, !.pc = "derived"])
  /\ UNCHANGED cache

Return(t) ==
  /\ At(t, "done") \/ At(t, "derived")
  /\ Step(t, Idle) /\ UNCHANGED cache

Work(t) ==
  \/ LoadCache(t) \/ StoreCache(t)
  \/ Eight(t) \/ EightDone(t) \/ Four(t) \/ FourDone(t)
  \/ One(t) \/ Partial(t) \/ WitnessTurn(t) \/ WitnessDone(t) \/ Subkey(t) \/ Return(t)

Next ==
  \E t \in Threads :
    \/ \E args \in Calls[t] : Call(t, args)
    \/ Work(t)

Spec == Init /\ [][Next]_vars

-----------------------------------------------------------------------------
Working(t) == ~At(t, "idle") /\ th[t].input # "Subkey"

\* Wherever a call is, the bytes before its offset are the text (or nothing) XORed
\* with the keystream of their own place, once, and the bytes after it are as the
\* caller left them; at the end there are none of those.  No seam between the
\* batches repeats, skips or shifts a byte.  The counter wraps, and the length an entry
\* point lets through is the most that does not make it repeat: no two bytes of a
\* message get the same keystream byte.
KeystreamInPlace ==
  \A t \in Threads : Working(t) =>
    LET call == th[t]
        done == IF At(t, "done") THEN call.n ELSE call.off
    IN  /\ \A i \in 1..call.n :
             call.out[i] = IF i <= done
                           THEN Xor(Text(call.input), {KeyByte(call.start, i)})
                           ELSE Old(call.input)
        /\ Cardinality({KeyByte(call.start, i) : i \in 1..call.n}) = call.n

\* Both implementations derive one subkey: words 0 to 3 and 12 to 15 after the rounds,
\* with no final addition.
SubkeysAgree ==
  \A t \in Threads : At(t, "derived") => th[t].out = WitnessHChaCha20(SubkeyNonce)

\* The 512-byte and 256-byte keystreams are wiped before their scopes end, and no
\* kernel leaves a local that holds key words, whichever kernels a call went through.
KeystreamWiped ==
  \A t \in Threads : Working(t) =>
    th[t].left \subseteq (CASE At(t, "eight") -> {"ks8"} [] At(t, "four") -> {"ks4"}
                            [] OTHER -> {})

\* No thread runs the AVX2 kernel on a machine that cannot, whichever of them filled
\* the cache, and in whatever order they loaded and stored it.
KernelIsSupported ==
  \A t \in Threads :
    At(t, "eight") =>
      /\ target = "x86_64"
      /\ cpu.leaf7 /\ cpu.bit5 /\ cpu.avx /\ cpu.osxsave /\ cpu.ymm
=============================================================================
