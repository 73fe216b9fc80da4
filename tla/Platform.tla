------------------------------ MODULE Platform ------------------------------
(***************************************************************************)
(* blake3/src/platform.rs: the kernel that runs.  A build decides which    *)
(* kernels exist, detection or an explicit constructor which one a         *)
(* Platform names, and its methods hash a batch of inputs, make blocks of  *)
(* an extended output or compress one block with it.  hash_many gives the  *)
(* kernel full groups only and the rest to a narrower one, because the     *)
(* narrow tails of the foreign AVX2 and AVX-512 kernels read past the end  *)
(* of a block.                                                             *)
(***************************************************************************)
EXTENDS Blake3Build, Blake3Lanes

CONSTANTS
  Cpus,        \* sets of instruction sets that a processor has
  Counts,      \* numbers of inputs in a call of hash_many
  BlockCounts, \* blocks of an input: 1 for a parent, more for a chunk
  FirstCounters,
  XofLengths   \* lengths of an output, in halves of a block

ASSUME CallAssumption ==
  /\ Counts \subseteq Nat /\ BlockCounts \subseteq Nat \ {0} /\ XofLengths \subseteq Nat
  /\ FirstCounters \subseteq 0..CounterSpan - 1

VARIABLES
  target, cfgs,   \* the build
  cpu,            \* what the processor has
  sse41,          \* what sse41_detected returns
  platform,       \* the PlatformKind
  phase,
  call,           \* the arguments of the method that runs
  out,            \* the output buffer
  rest,           \* inputs not hashed yet, and the counter of the first
  ran             \* the kernels that ran: name, implementation and widths

vars == <<target, cfgs, cpu, sse41, platform, phase, call, out, rest, ran>>
machine == <<target, cfgs, cpu, sse41, platform>>

Sse2 == INSTANCE RustSse2
Sse41 == INSTANCE RustSse41
Avx2 == INSTANCE RustAvx2
Wasm == INSTANCE Wasm32Simd

NoCall == [method |-> "none"]
Untouched == [root |-> "untouched"]

-----------------------------------------------------------------------------
(* The kernels *)

MaxSimdDegree ==
  IF IsX86(target) THEN (IF "avx512_ffi" \in cfgs THEN 16 ELSE 8)
  ELSE IF "neon" \in cfgs \/ "wasm32_simd" \in cfgs THEN 4 ELSE 1

SimdDegree ==
  CASE platform = "Portable" -> 1
    [] platform \in {"SSE2", "SSE41", "NEON", "WASM32_SIMD"} -> 4
    [] platform = "AVX2" -> 8
    [] platform = "AVX512" -> 16

\* The widths of the groups a foreign kernel makes, widest first
ForeignWidths(kernel) ==
  CASE kernel \in {"sse2", "sse41"} -> <<4, 2, 1>>
    [] kernel = "avx2" -> <<8, 4, 2, 1>>
    [] kernel = "avx512" /\ "avx512_asm" \in cfgs -> <<16, 8, 4, 2, 1>>
    [] kernel = "avx512" /\ "avx512_c" \in cfgs -> <<16, 8, 4, 1>>
    [] kernel = "neon" -> <<4, 1>>

GroupsOf(widths, n) ==
  LET wide(m) == CHOOSE i \in DOMAIN widths :
                   widths[i] <= m /\ \A j \in 1..i - 1 : widths[j] > m
      groups[m \in 0..n] == IF m = 0 THEN {}
                            ELSE {widths[wide(m)]} \cup groups[m - widths[wide(m)]]
  IN  groups[n]

\* Called through ffi in this build, and compiled from Rust
IsForeign(kernel) ==
  \/ kernel \in {"avx512", "neon"}
  \/ kernel = "sse2" /\ "sse2_ffi" \in cfgs
  \/ kernel = "sse41" /\ "sse41_ffi" \in cfgs
  \/ kernel = "avx2" /\ "avx2_ffi" \in cfgs

IsCompiled(kernel) ==
  \/ kernel = "portable"
  \/ kernel = "sse2" /\ cfgs \cap {"sse2_rust", "sse2_ffi"} # {}
  \/ kernel = "sse41" /\ cfgs \cap {"sse41_rust", "sse41_ffi"} # {}
  \/ kernel = "avx2" /\ cfgs \cap {"avx2_rust", "avx2_ffi"} # {}
  \/ kernel = "avx512" /\ "avx512_ffi" \in cfgs
  \/ kernel \in {"neon", "wasm32_simd"} /\ kernel \in cfgs

Run(kernel, n) ==
  [kernel |-> kernel,
   widths |-> IF IsForeign(kernel) THEN GroupsOf(ForeignWidths(kernel), n) ELSE {}]

\* portable::hash_many, and what every foreign kernel is taken to compute
HashPortable(inputs, blocks, counter, increment) ==
  HashEach(inputs, blocks, counter, increment, Portable)

HashWith(kernel, inputs, blocks, counter, increment) ==
  CASE kernel = "sse2" /\ "sse2_rust" \in cfgs -> Sse2!HashMany(inputs, blocks, counter, increment)
    [] kernel = "sse41" /\ "sse41_rust" \in cfgs -> Sse41!HashMany(inputs, blocks, counter, increment)
    [] kernel = "avx2" /\ "avx2_rust" \in cfgs ->
         Avx2!HashMany(Sse41!HashMany, inputs, blocks, counter, increment)
    [] kernel = "wasm32_simd" -> Wasm!HashMany(inputs, blocks, counter, increment)
    [] OTHER -> HashPortable(inputs, blocks, counter, increment)

CompressionOf(kernel) ==
  CASE kernel = "sse2" /\ "sse2_rust" \in cfgs -> Sse2!CompressXof
    [] kernel = "sse41" /\ "sse41_rust" \in cfgs -> Sse41!CompressXof
    [] kernel = "wasm32_simd" -> Wasm!CompressXof
    [] OTHER -> Portable

\* compress_in_place and compress_xof
CompressKernel ==
  CASE platform \in {"Portable", "NEON"} -> "portable"
    [] platform = "SSE2" -> "sse2"
    [] platform \in {"SSE41", "AVX2"} -> "sse41"
    [] platform = "AVX512" -> "avx512"
    [] platform = "WASM32_SIMD" -> "wasm32_simd"

\* hash_many_simd
SimdKernel ==
  CASE platform = "Portable" -> "portable"
    [] platform = "SSE2" -> "sse2"
    [] platform = "SSE41" -> "sse41"
    [] platform = "AVX2" -> "avx2"
    [] platform = "AVX512" -> "avx512"
    [] platform = "NEON" -> "neon"
    [] platform = "WASM32_SIMD" -> "wasm32_simd"

\* Mutant: AVX2 and AVX-512 are taken to imply SSE4.1.
TailKernelUnchecked ==
  IF ~IsX86(target) THEN "portable"
  ELSE CASE platform \in {"SSE41", "AVX2", "AVX512"} -> "sse41"
         [] platform = "SSE2" -> "sse2"
         [] OTHER -> "portable"

\* Mutant: what is left goes to the kernel of the platform.
TailKernelWide == SimdKernel

\* hash_many_tail
TailKernel ==
  IF ~IsX86(target) THEN "portable"
  ELSE CASE platform = "SSE41" -> "sse41"
         [] platform \in {"AVX2", "AVX512"} -> IF sse41 THEN "sse41" ELSE "portable"
         [] platform = "SSE2" -> "sse2"
         [] OTHER -> "portable"

-----------------------------------------------------------------------------
(* Building and detecting *)

Init ==
  /\ target \in Targets
  /\ cfgs = {} /\ cpu = {} /\ sse41 = FALSE /\ platform = "Portable"
  /\ phase = "source" /\ call = NoCall /\ out = <<>> /\ rest = <<>> /\ ran = {}

Build ==
  /\ phase = "source"
  /\ \E features \in SUBSET Features, cc \in CCompilers :
       IF BuildPanics(target, features)
       THEN phase' = "panicked" /\ UNCHANGED cfgs
       ELSE /\ phase' = "built"
            /\ cfgs' = BuildCfgs(target, features, CCompilerSupport(cc))
  /\ UNCHANGED <<target, cpu, sse41, platform, call, out, rest, ran>>

\* What avx512_detected to sse2_detected return: "off" holds the testing features that
\* short-circuit them.
Detected(processor, off) == processor \ off

\* Platform::detect
Widest(found) ==
  IF IsX86(target)
  THEN IF "avx512_ffi" \in cfgs /\ "avx512" \in found THEN "AVX512"
       ELSE IF "avx2" \in found THEN "AVX2"
       ELSE IF "sse41" \in found THEN "SSE41"
       ELSE IF "sse2" \in found THEN "SSE2" ELSE "Portable"
  ELSE IF "neon" \in cfgs THEN "NEON"
  ELSE IF "wasm32_simd" \in cfgs THEN "WASM32_SIMD" ELSE "Portable"

\* The explicit constructors: Some when the instruction set was detected
Constructed(found) ==
  {"Portable"}
    \cup (IF IsX86(target)
          THEN (IF "sse2" \in found THEN {"SSE2"} ELSE {})
                 \cup (IF "sse41" \in found THEN {"SSE41"} ELSE {})
                 \cup (IF "avx2" \in found THEN {"AVX2"} ELSE {})
                 \cup (IF "avx512" \in found /\ "avx512_ffi" \in cfgs THEN {"AVX512"} ELSE {})
          ELSE {})
    \cup (IF "neon" \in cfgs THEN {"NEON"} ELSE {})
    \cup (IF "wasm32_simd" \in cfgs THEN {"WASM32_SIMD"} ELSE {})

OffFeatures == SUBSET {"avx512", "avx2", "sse41", "sse2"}

Choose ==
  /\ phase = "built"
  /\ \E processor \in Cpus, off \in OffFeatures :
       LET found == IF IsX86(target) THEN Detected(processor, off) ELSE {}
       IN  /\ cpu' = IF IsX86(target) THEN processor ELSE {}
           /\ sse41' = ("sse41" \in found)
           /\ platform' \in {Widest(found)} \cup Constructed(found)
  /\ phase' = "ready"
  /\ UNCHANGED <<target, cfgs, call, out, rest, ran>>

-----------------------------------------------------------------------------
(* hash_many *)

Inputs(n) == Listing(n, LAMBDA i : i)

\* The out slots from "first" on, overwritten with the values
Written(first, values) ==
  Listing(Len(out), LAMBDA i :
    IF i >= first /\ i < first + Len(values) THEN values[i - first + 1] ELSE out[i])

HashManyCall ==
  /\ phase = "ready"
  /\ \E n \in Counts, blocks \in BlockCounts, whole \in BOOLEAN, counter \in FirstCounters,
        increment \in BOOLEAN : \E slots \in {n - 1, n, n + 1} \cap Nat :
       /\ call' = [method |-> "hash_many", n |-> n, blocks |-> blocks, counter |-> counter,
                   increment |-> increment]
       /\ out' = Listing(slots, LAMBDA i : Untouched)
       /\ rest' = [inputs |-> Inputs(n), counter |-> counter]
       \* inputs of whole blocks, and a slot for each of them
       /\ phase' = IF whole /\ slots >= n THEN "full" ELSE "refused"
  /\ UNCHANGED <<machine, ran>>

\* The first n of the inputs that are left, by a kernel, into their slots
Hash(kernel, n) ==
  /\ out' = Written(call.n - Len(rest.inputs) + 1,
                    HashWith(kernel, SubSeq(rest.inputs, 1, n), call.blocks, rest.counter,
                             call.increment))
  /\ ran' = ran \cup {Run(kernel, n)}
  /\ rest' = [inputs |-> After(rest.inputs, n),
              counter |-> Advanced(rest.counter, call.increment, n)]

\* The full groups, by the kernel of the platform
HashFull ==
  /\ phase = "full"
  /\ LET full == (call.n \div SimdDegree) * SimdDegree
     IN  IF full > 0 THEN Hash(SimdKernel, full) ELSE UNCHANGED <<out, ran, rest>>
  /\ phase' = IF rest'.inputs = <<>> THEN "done" ELSE "tail"
  /\ UNCHANGED <<machine, call>>

\* AVX-512 takes eight of the rest at once.
Peels == platform = "AVX512" /\ Len(rest.inputs) >= 8

PeelEight ==
  /\ phase = "tail" /\ Peels
  /\ Hash(SimdKernel, 8)
  /\ phase' = IF rest'.inputs = <<>> THEN "done" ELSE "tail"
  /\ UNCHANGED <<machine, call>>

HashTail ==
  /\ phase = "tail" /\ ~Peels
  /\ Hash(TailKernel, Len(rest.inputs))
  /\ phase' = "done"
  /\ UNCHANGED <<machine, call>>

-----------------------------------------------------------------------------
(* compress_in_place, compress_xof and xof_many *)

\* A block of output: the word "half" is what a partial slot keeps of it.
XofBlock(kernel, counter) ==
  Compressed(Key, MessageOf(1, 1), Low(counter), High(counter), {"flags"},
             CompressionOf(kernel) = Reference)

Compress ==
  /\ phase = "ready"
  /\ \E counter \in FirstCounters :
       /\ call' = [method |-> "compress", counter |-> counter]
       /\ out' = <<XofBlock(CompressKernel, counter)>>
  /\ ran' = {Run(CompressKernel, 1)}
  /\ phase' = "done"
  /\ UNCHANGED <<machine, rest>>

\* xof_many of the unix assembly: the first block is right; for more the upper bits of
\* block_len and flags are not cleared, and it writes whole blocks.
ForeignXof(counter, halves) ==
  IF halves > 2 THEN Listing((halves + 1) \div 2, LAMBDA i : [root |-> "dirty"])
  ELSE <<XofBlock("avx512", counter)>>

\* Mutant: every block is made with the first counter.
XofLoopStuck(counter, halves) ==
  Listing((halves + 1) \div 2, LAMBDA i : XofBlock(CompressKernel, counter))

\* The loop over compress_xof, whose last block is cut where the output ends
XofLoop(counter, halves) ==
  Listing((halves + 1) \div 2, LAMBDA i :
    XofBlock(CompressKernel, (counter + i - 1) % CounterSpan))

HasForeignXof == platform = "AVX512" /\ target.os # "windows"

XofMany ==
  /\ phase = "ready"
  /\ \E counter \in FirstCounters, halves \in XofLengths :
       LET loops == halves % 2 = 1 \/ halves > 2 \/ ~HasForeignXof IN
       /\ call' = [method |-> "xof_many", counter |-> counter, halves |-> halves,
                   written |-> IF halves = 0 THEN 0 ELSE IF loops THEN halves
                               ELSE 2 * ((halves + 1) \div 2)]
       /\ out' = IF halves = 0 THEN <<>>
                 ELSE IF loops THEN XofLoop(counter, halves) ELSE ForeignXof(counter, halves)
       /\ ran' = IF halves = 0 THEN {} ELSE {Run(IF loops THEN CompressKernel ELSE "avx512", 1)}
  /\ phase' = "done"
  /\ UNCHANGED <<machine, rest>>

Return ==
  /\ phase \in {"done", "refused"}
  /\ phase' = "ready" /\ call' = NoCall /\ out' = <<>> /\ rest' = <<>> /\ ran' = {}
  /\ UNCHANGED machine

Panicked == phase = "panicked" /\ UNCHANGED vars

Next ==
  \/ Build \/ Choose \/ HashManyCall \/ HashFull \/ PeelEight \/ HashTail
  \/ Compress \/ XofMany \/ Return \/ Panicked

Spec == Init /\ [][Next]_vars

-----------------------------------------------------------------------------
(* Properties *)

\* hash_many hashes every input with its own counter into its own slot, and touches no
\* other slot, whatever groups and kernels it goes through: platform.rs, hash_many.
SlotsAreHashes ==
  phase = "done" /\ call.method = "hash_many" =>
    \A i \in DOMAIN out :
      out[i] = IF i <= call.n
               THEN ReferenceHash(i, call.blocks, Advanced(call.counter, call.increment, i - 1))
               ELSE Untouched

\* No kernel reads or writes past what it was given: the foreign AVX2 and AVX-512
\* kernels never come to their narrow groups, which read past the end of a block, and
\* the foreign xof_many never makes more than was asked for.
InBounds ==
  /\ \A r \in ran : r.kernel \in {"avx2", "avx512"} => r.widths \cap {2, 4} = {}
  /\ call.method = "xof_many" => call.written = call.halves

X86Kernels == {"sse2", "sse41", "avx2", "avx512"}

\* The processor has the instructions of the kernel that ran.
Supported(r) == r.kernel \in X86Kernels => r.kernel \in cpu

\* Comment of hash_many_tail on a processor with AVX2 and without SSE4.1: "Falling back
\* to the portable kernel when SSE4.1 is absent keeps the safe API from executing an
\* unsupported instruction".
KernelsAreSupported == \A r \in ran : Supported(r)

\* Every kernel that runs is in the build.  No batch of hash_many runs an instruction that
\* the processor lacks, whatever detection was told to leave out; where compress_in_place,
\* compress_xof or xof_many does, it is the SSE4.1 kernel on the AVX2 platform.  And the
\* arrays of the tree code, MAX_SIMD_DEGREE long, hold a group of the platform.
BatchesAreSupported ==
  /\ \A r \in ran :
       /\ IsCompiled(r.kernel)
       /\ ~Supported(r) =>
            platform = "AVX2" /\ r.kernel = "sse41" /\ call.method # "hash_many"
  /\ phase = "ready" => SimdDegree <= MaxSimdDegree

\* compress_xof and xof_many make the blocks of the counter's stream, in order, on
\* every platform and for every length.
BlocksAreTheStream ==
  phase = "done" /\ call.method \in {"compress", "xof_many"} =>
    \A i \in DOMAIN out :
      out[i] = Compressed(Key, MessageOf(1, 1), Low((call.counter + i - 1) % CounterSpan),
                          High((call.counter + i - 1) % CounterSpan), {"flags"}, TRUE)
=============================================================================
