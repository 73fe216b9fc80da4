# XChaCha20-BLAKE3-SIV: TLA+ models, checks and proofs

This directory specifies the crate in `../src` in TLA+, model-checks it with
TLC on small instances and proves its most important invariants with TLAPS for
every instance.  Line numbers below are of `../src/src/lib.rs` unless another
file is named.

## 1. Inventory

| Component | State | Operations | What is hard about it |
|---|---|---|---|
| Page locking (1210-2125) | the static `PAGE_SIZE`; in the kernel, per page, `VM_LOCKED` and `VM_DONTDUMP`, and the `RLIMIT_MEMLOCK` charge | `lock_range`, `unlock_range`, `unlock_range_with`, `page_size` | every system call can be refused; `madvise` can stop part of the way; the rollback can itself be refused; threads race for the cache |
| `LockedKey`, `Page` (2127-2531) | one page of its own: 32 key bytes, 8 tag bytes | `new`, `as_bytes` (`check_integrity`), `Drop` of both, `mem::forget` | order of lock / write and of wipe / unlock / free; early returns and the panic path; pages handed out again with flags left on them; bits that flip |
| AEAD entry points (3048-3927) | the locals of a call, the caller's buffer | `encrypt`, `encrypt_in_place_detached`, `decrypt`, `decrypt_bounded`, `decrypt_in_place_detached` | four builds (`hardened`, `dual-mac`, `ultra` nest); two gates, two decision slots, a second implementation, each against one fault; wipes on every path |
| Key schedule and tag (2733-3045) | none | `derive_material`, `derive_tag`, `derive_enc` | one hash call or three depending on a size window and on an allocation |
| Witness (`witness.rs`) | its own BLAKE3 and ChaCha20 state | `decrypt`, `encrypt_tag` | must agree with the main code on every input although it merges its tree eagerly |
| ChaCha20 (3935-4800) | block counter and offset, the static `AVX2_CACHE` | `chacha20_apply` and its wrappers, `hchacha20_into`, the kernels `blocks4`, `blocks8` | batches of 8, 4 and 1 blocks over one counter; the counter wraps; each kernel lays words out, feeds forward and transposes in its own way |
| BLAKE3 fork (`../src/blake3/src/lib.rs`) | chunk state, stack of chaining values, output counter | `update`, `finalize_xof`, `fill`, `set_position`, `seek` | lazy merging; how the input is split over `update` calls must not matter |
| BLAKE3 platform (`../src/blake3/src/platform.rs`, `build.rs`, `portable.rs`, `rust_*.rs`, `wasm32_simd.rs`) | the `PlatformKind`, a cached detection | `detect`, the constructors, `hash_many`, `xof_many`, `compress_xof` | which kernels exist, which one the processor can run and how long arrays are is decided in three places; groups, tails and counters; foreign kernels that read past their input |
| Zeroization (2549-2692) | none | `zeroize_raw`, `zeroize_slice`, `zeroize_array`, `scrub_stack` | unaligned prefix, words, tail |
| `Key`, `Plaintext` (679-1003) | the bytes they own | constructors, `Drop` | spare capacity behind a `Plaintext` |
| Random (1072-1169) | none | `fill_from`, `generate_key`, `generate_nonce` | a source that fails part of the way |
| Process hardening (1585-1616, 1793-1913) | the dumpable flag of the process | `deny_debugging`, `is_dumpable`, `locked_bytes`, `parse_vmlck` | reads of any length, interrupted or failing; a process name that forges a line; one of two prctls refused |

How they interact: the entry points call the key schedule and ChaCha20, which
call BLAKE3 and each other; in `ultra` builds they call the witness as well.
They share no state between calls.  `LockedKey` hands a reference to its key to
an entry point through `as_bytes` (a `Deref` away) and is the only internal
user of page locking; `lock_range` and `unlock_range` are public too.  The
fork's `Hasher` and `OutputReader` hash through a `Platform`, whose degree
decides how they cut their input.  All shared mutable state of the crate is the
two caches, the kernel's flags and the allocator.

What makes them correct:

- *Page locking*: `Ok` means locked **and** excluded from dumps until the caller
  unlocks; a failed call and an unlock give everything back that the kernel
  lets them give back; a page is not made dumpable while it is locked; calls
  return.
- *LockedKey*: key bytes exist only in locked, excluded memory; memory that is
  freed holds none; the lock ends with the key; `as_bytes` is fail-stop.
- *Entry points*: what is decrypted is what was encrypted under the same
  parameters, even with one fault; a failure leaves no plaintext and no key;
  refusals come before secrets; what is sent unharmed is accepted.
- *ChaCha20*, *BLAKE3*, *witness*: the batched, lazily merged and split
  computations equal their plain definitions.
- *BLAKE3 platform*: every combination of build and processor computes the same
  hashes, with kernels that are there, inside the buffers they are given.
- *Process hardening*: what is reported is the kernel's own number, every path
  closes its descriptor and ends, and `Ok` means that debugging is denied.

`PROJECT.json` lists each hazard at its line with the properties that cover it,
and, where none does, why.

## 2. Modules

| Module | What it is |
|---|---|
| `LockRange` | `lock_range`, `unlock_range`, `page_size`: one action per system call, the kernel's flags, the page-size cache. No `Init`/`Next`: the two modules below call it. |
| `RangeUsers` | callers of the public functions that keep their `# Safety` contract (each locks only pages of its own). |
| `KeyVault` | the abstract promise of a `LockedKey`: bytes come in, get a handle or are erased, and never leave memory. |
| `LockedKey` | `new`, `as_bytes`, drop, forget over `LockRange`, with an allocator, bit flips, swap and core dumps; implements `KeyVault`. |
| `Aead` | the five entry points as one step machine over symbolic values. |
| `Blake3Tree` | BLAKE3's tree over any range of bytes, as a term: what the two hashers must end at. No state. |
| `ForkHasher` | the fork's `Hasher`: `update`, `reset`, `set_input_offset`, `final_output`. |
| `WitnessHasher` | the witness's `Hasher`: `update`, `finalize_xof`, `wipe_state`. |
| `TagHash` | composes the two: the inner hash of the tag, by `derive_tag` over `ForkHasher` and by `witness::tag` over `WitnessHasher`; and the fork's `Hasher` apart from the tag, in any order of its operations. |
| `XofStream` | the abstract promise of an output reader: a cursor over one stream of bytes. |
| `OutputReader` | `fill`, `position`, `set_position`, `seek`; implements `XofStream`. |
| `Lanes` | the vector instructions the kernels below use. No state. |
| `ChaChaKernels` | the ChaCha20 block and HChaCha20 in each implementation: scalar, SSE2, AVX2, NEON, witness. No state. |
| `ChaChaApply` | `chacha20_apply` and `has_avx2`, for threads that share its cache; the witness's `keystream_xor`; the subkey. |
| `Blake3Mixing` | BLAKE3's compression function in each implementation, as the record of what is mixed with what. No state. |
| `Blake3Lanes` | what the vectorised hashes share: one input in every lane. No state. |
| `RustSse2`, `RustSse41`, `RustAvx2`, `Wasm32Simd` | the four Rust kernels over `Lanes`. No state. |
| `Blake3Build` | `build.rs`: which kernels a target, its features and its C compiler give. No state. |
| `Platform` | `platform.rs`: build, detection or constructor, and a call of `hash_many`, `compress_xof` or `xof_many` in its groups. |
| `ProcSelf` | `locked_bytes`, `parse_vmlck`, `deny_debugging`, `is_dumpable` over the kernel's status file and dumpable flag. |
| `Wipe` | `zeroize_raw` store by store, called by `Plaintext`'s drop and by `fill_from`. |
| `TagCompare` | `second_gate_comparison` with its two loops. |
| `RangeUsersProofs`, `LockedKeyProofs`, `AeadProofs`, `ChaChaProofs`, `PlatformProofs`, `ProcSelfProofs` | the inductive invariant of the module they are named after, and the theorems (section 4). |
| `HasherProofs` | the same for `TagHash` with the two hashers it composes, and the lemmas about their trees and powers of two. |
| `LoopProofs` | the same for the three modules of byte loops, `Wipe`, `TagCompare` and `OutputReader`. |
| `MC*` | instances for TLC. |

**LockRange.** `op[t]`, `rng[t]`, `at[t]` are the call a thread is in, the whole
pages that cover its `ptr`/`len`, and its next system call.  `cached` is
`PAGE_SIZE # 0`.  `mlocked` and `dontdump` are the kernel's; `refused` is a
history variable.  `MlockOk`/`MlockRefused`, `AdviseOk`/`AdviseFails`,
`MunlockOk`/`MunlockRefused`, `DodumpOk`/`DodumpFails` are the two outcomes of
each system call, any of which a filter may refuse; a failing `madvise` has
worked through a prefix of the range (`Walked`).  The loop of `page_size` over an
interrupted `read` of `/proc/self/auxv` is there try by try: `tries[t]` counts
them, and the last one (`MaxRetries`, 16 in the code) ends the loop whatever it
returns.  The rollback of `lock_range`
and the body of `unlock_range_with` are the same two calls in the same order,
and share the actions.

**LockedKey.** A thread's `pc` is the statement of `new`, of the two `drop`s or
of `check_integrity` it is at, and each write to the page, each wipe and each
system call is a step.  A key is a model value; the tag of a key is the key it
was computed from and whether that had a flipped bit.  Rust's borrow rules
appear as guards: a key is dropped or forgotten only while nobody borrows it.
The allocator hands out any free page *with the flags its last owner left on
it*, to `new` or to other code.

**Aead.** `pc` walks through a call; `call`, `src` are its arguments, `out` the
buffer it fills.  Tags and keystreams are records of what they were derived
from, so equal only if all of that is equal (BLAKE3 and ChaCha20 are taken to
be injective, as the design does); XOR is its own inverse.  `live` names the
locals that hold secret-derived bytes and have not been wiped.  `fault` is at
most one malfunction per call, of the kinds the comments of
`accept_or_reject`, `second_gate_comparison`, `dual-mac` and the witness name
(`Tolerated`), which depend on the build.  A receiver is given any combination
of parts of what was sent, damaged or not, under any parameters.

**Blake3Tree, ForkHasher, WitnessHasher, TagHash.** A byte is its place in the
input, and a chaining value is the term it was computed from (the list of
blocks of a chunk with their flags and counter, or the pair of a parent), so
two hashes agree exactly if they compressed the same blocks in the same tree.
`Tree[r]` is the definition; `ForkHasher!FinalOutput` and
`WitnessHasher!WitnessOutput` are what the code would return in a state.
`ForkHasher` takes one step per statement group of `update_with_join` (the
check, the partial chunk, a subtree, the rest); inside a subtree `Wide` is
`compress_subtree_wide`, where `degree` (chosen once in `Init`) is the SIMD
degree of the platform, and the two halves rayon's `join` may run in parallel
are values without common state.  The stack of the fork is a sequence; that of
the witness is an array with a length, because what remains in a slot after a
pop is half of `SlotsAreLive`.  `TagHash` chooses the lengths of AAD and message,
and whether the allocator refuses the copy; with `pc = "apart"` the fork's hasher
is in the hands of another caller (`Apart`), who may reset it and set its offset.

**OutputReader.** `counter` and `within` are `inner.counter` and
`position_within_block`, both bounded by `Last` as by `u64::MAX`.  `position`
saturates, and so does a seek; reading goes on past the last position that can
be named until the counter wraps, and `XofStream` promises the stream up to the
end that can be expressed, and a way back from beyond.

**Lanes, ChaChaKernels, Blake3Mixing, Blake3Lanes and the four kernels.** A word
is a symbol: where it was loaded from, or the place and the inputs of a
computation.  Additions, XORs and rotations of words are terms, so what remains
is what a kernel can get wrong without its arithmetic being wrong: which word is
mixed with which, in which order and rotated by how much, which lane holds which
block, which counter, which key, and where it is stored.  Shuffles, blends,
unpacks, permutes and transposes are computed by their definitions in `Lanes`.
`RustAvx2!HashMany` takes the `hash_many` of `crate::sse41` as a parameter:
`Platform` gives it the one of `RustSse41`.  `Blake3Mixing` turns a kernel's statement order into the record of its half
steps, which must be that of `reference_impl.rs`; a rotation is checked by what
its shifts or its byte shuffle do to a word.

**ChaChaApply.** A byte of a buffer is the set of what was XORed into it, and a
keystream byte is the word of `ChaChaKernels` it belongs to and its place, so a
block used twice or skipped, or a lane in the wrong place, is visible in the
bytes.  `cpu` is what CPUID and XCR0 say and `target` what the code was compiled
for; every turn of the loops of eight, four and one blocks is a step, and so are
the load and the store of the cache.  `left` names the locals that hold
keystream or key words and were not wiped.

**Blake3Build, Platform.** `Init` chooses the target, `Build` the features and
the C compiler, or panics as `build.rs` does; `Choose` the instruction sets the
processor has (any of `Cpus`; none is taken to imply another) and the platform,
detected or constructed; then one call after another is made.  `out` is
the sequence of slots the call has filled, `ran` the kernels that ran with the
widths of their groups.  The C and assembly kernels are external: they hash a
group correctly, and what they read and write beyond it is what the comments of
`hash_many` and `xof_many` report.  `ran` is about kernels that get work: the AVX2
`hash_many` ends with a call of the SSE4.1 one, which `platform.rs` leaves nothing to
do, since it hands over whole groups.

**ProcSelf.** The status file is a sequence of symbols in which the process has
put its own name, escaped by the kernel or not, in front of the real field.
`reading` is the buffer, the retries and the descriptor of `locked_bytes`;
`dumpable` the kernel's flag, which one thread (`Owner`) sets and another asks.  Calls
of `deny_debugging` that overlap each other are not modelled: it reads the state and
sets it in two system calls, and its doc has the one caller restore what it returned.

**Wipe.** Memory is a function from addresses to whose byte is there; `buf` lies
at any alignment and has bytes of others around it.

**TagCompare.** `differ` is the set of places where the tags differ, `fault` the
one loop that is cut short and where.

## 3. Runs

| Run | Module, cfg | Question | Bounds |
|---|---|---|---|
| `range_users` | `MCRangeUsers` | what `Ok` of `lock_range` is worth; releases; termination | 2 threads, 3 pages, a limit of 2 pages, 3 tries |
| `rollback` | `MCRangeUsers`, `MCRollback` | the doc's claim about a refused rollback (violated) | the same |
| `locked_key` | `MCLockedKey` | residency, erasure, restoration, fail-stop, residues | 2 threads, 2 pages, 2 keys, 1 bit flip, 2 tries |
| `vault` | `MCLockedKey`, `MCVault` | `LockedKey` implements `KeyVault`, with its liveness | 2 threads, 2 pages, 1 key, 2 tries |
| `aead` | `MCAead` | authenticity under one fault, wipes, refusals, round trip; nonces used again, parts of messages mixed up | `OneMessage`: 2 keys, 1 nonce, 3 AADs, 3 messages, 1 sent, 4 builds; `TwoMessages`: 1 key, 1 AAD, 2 messages, 2 sent, 2 builds |
| `hashers` | `MCHashers` | any split of the input over `update`, any degree, offsets, resets; the tag's two implementations agree; both stacks suffice | blocks of 2, chunks of 4, 32 bytes, degrees 1, 2, 4, offsets 0, 2, 3, 4; a head of 3, a window of 2 to 3 chunks, tags over up to 28 bytes |
| `output_reader` | `MCOutputReader` | `OutputReader` implements `XofStream` | blocks of 4, counters up to 31 (`Last`), buffers up to 9, seeks up to 40 |
| `chacha_apply` | `MCChaChaApply` | the seams of the batches, the counter's wrap, wipes, the cache | 2 threads, blocks of 2, a counter of 16 values, lengths 0 to 34, 6 CPUs, 3 targets, one subkey |
| `loops` | `MCLoops` | what `zeroize_raw` writes; one fault in one comparison loop | words of 4, 16 bytes; tags of 7, words of 3 |
| `kernels` | `MCPlatform` | every build, processor and constructor computes the same hashes inside its buffers, with instructions that are there | 7 processors, two of them without SSE4.1 but with AVX2, every target and feature of `build.rs`, 0, 6, 11 or 27 inputs of 1 or 2 blocks, counters with a low half of 16 values and a high half of 2, from 14 and 31, outputs of up to 6 half blocks |
| `no_sse41` | `MCPlatform`, `MCNoSse41` | the comment's claim about AVX2 without SSE4.1 (violated) | the same |
| `proc_self` | `MCProcSelf` | what `locked_bytes` and `deny_debugging` say is true; descriptors; termination | 7 names, 5 numbers, base 3, `u64` up to 13, reads of up to 5 symbols, 14 symbols, 3 tries |

Why the bounds are enough.  `range_users`: one caller has a range of two pages,
so `madvise` can stop in the middle of it, the other a range of one, and the
limit of two pages makes `mlock` fail for either; a third thread would only
repeat what the two do, since ranges are disjoint.  Three tries of a `read` are a
first, a repeated and a last one.  `locked_key`: two pages and
two threads give every overlap of one key's end with another's start, on the
same page (handed out again) and on different ones; the second key tells a
stale tag from the right one.  `MaxFaults = 1` bounds the bit flips (`Flip`).
Pages are numbers, because `madvise` walks them in order, so only threads and
keys are symmetric.  `aead`: two of everything that can be confused, and one
length past the limit; a `Plan` bounds the parameters of a behaviour and the
encryptions that may succeed in it (`Send`).  One nonce is the hard case: the caller repeated it.  Calls keep
nothing between them but what was sent, so a behaviour of several calls adds
only what `sent` holds, and that is what `TwoMessages` has two of.
`hashers`: eight chunks fill the stack to its limit (`MaxDepth + 1`), and
the subtree sizes 1, 2, 4 and the offsets 2 to 4 give every alignment of a
subtree within eight chunks; `MaxInput` bounds what a hasher is fed.
The tag's lengths step over every boundary of block, chunk and window;
`Reserve = 3` is the room the witness needs for 32 bytes, as 64 is for 2^64.
`output_reader`: the 32 values of a position cover less than the 32 blocks of
the counter, as in the code.  `chacha_apply`: the maximum of 16 blocks is two
widest batches and exhausts the counter, and the lengths go past it; the second
thread only has to be there for the cache (`Calls`).  `loops` runs `Wipe` or
`TagCompare`, the other being where its last call left it: every alignment and every
length up to three words, and every set of differing bytes with, as in the code, one
byte more than whole words.  `kernels`: 27 inputs are a
group of 16, one of 8 and three left, 11 and 6 are those of the narrower
degrees; the two counters make the low half carry inside a group and the whole
wrap; a message of two blocks has a first, a last and both flags.  `proc_self`:
the longest file is past `MaxLen`, the largest numbers saturate and overflow,
and a read may end after any symbol (the needle is one of them).

Deadlock is checked except where a behaviour is one computation that ends:
`hashers` and `loops`.

Fairness.  `RangeUsers!FairSpec` and `LockedKey!FairSpec` are weak fairness of
the steps of each thread *inside* the library: these functions take no lock and
wait for nobody, so a thread that is scheduled gets on; that a caller calls, or
drops its key, is not assumed, nor that a signal storm ends: `AuxvInterrupted` may
be the step taken as often as it is enabled, and only the count of the tries makes
`CallReturns` true.  The loop of `locked_bytes` is counted in the same way, and
`ProcSelf!FairSpec` is weak fairness of the reading
(`ReadStep`): a `read` of a file of `/proc` returns.

The violated runs.  `rollback`: the doc of `lock_range` (1373) says that after a refused
unlock in the rollback the range *stays* non-dumpable.  The code gets to that
`munlock` because `madvise(MADV_DONTDUMP)` failed, which may be before it
flagged any page, so there may be nothing to stay: TLC's trace is lock,
`madvise` stops at the first page, `munlock` is refused, return with a locked,
dumpable page.  No key is in it (`LockedKey::new` writes only after `Ok`; see
`KeyResidency`), so what differs is the sentence, which a caller of the public
function may read as a guarantee.

`no_sse41`: the comment in `hash_many_tail` (`platform.rs` 361-364) says that an AVX2
processor need not have SSE4.1 and that the portable kernel is taken then, which
"keeps the safe API from executing an unsupported instruction".  The tail does so,
but `compress_in_place` (147) and `compress_xof` (183) run the SSE4.1 kernel on
`PlatformKind::AVX2` unasked, and neither `detect` nor the constructor looks at
SSE4.1.  TLC's trace is a processor with SSE2 and AVX2, the AVX2 platform, and one
compression.  AVX2 processors "in practice all have SSE4.1", as the comment says too,
so what differs is what the two dispatches take for granted.  What does hold there is
`BatchesAreSupported` in the run `kernels`: `hash_many` runs nothing unsupported, and
the one-block kernel of SSE4.1 on the AVX2 platform is the only thing that is ever
unsupported.

## 4. Proofs

TLAPS proves for every value of the constants what the runs check on small
instances.  The only assumptions are the named `ASSUME`s of the modules, which TLC
evaluates in the runs.  Every module of proofs has one inductive invariant; the
invariant was model-checked before it was proved; its preservation is one lemma
per action with one step per conjunct the action can disturb (`StepInv` is the
lemma that an action which changes nothing a conjunct mentions keeps it).

### Page locking: `RangeUsersProofs`

`HeldIsProtected`, `NothingKept` and the action property `UnlockBeforeDump`, for
any threads, pages, ranges and lock limit (`ProtectedAlways`, `NothingKeptAlways`,
`UnlockBeforeDumpAlways`).  None is inductive: that `munlock` in one thread does
not take the lock from under another needs `Apart` (each thread keeps to its own
pages, the `# Safety` contract), that `Ok` is worth its pages needs `FlagsByStep`
(what a call has set when it gets to each system call), and that nothing is kept
needs `Settled` and `SizeStaysKnown`: `unlock_range` gives up when the page size
is unknown, which is harmless only because no flag was ever set before it was
known.

### `LockedKey`: `LockedKeyProofs`

`TypeOK`, `KeyResidency`, `FreedPageIsErased`, `ReleasedPageRestored`, `FailStop`,
`NoTagResidue`, and `Vault!Safety`, the safety half of the refinement of
`KeyVault` (`VaultAlways`), for any threads, pages, keys, lock limit and number of
bit flips.  `Inv` says where key material may be:

- `PageOwned`: a thread inside `new` or drop owns its page, and no other does;
- `ReadersSeeAKey`: a thread inside `as_bytes` is on a page that is a key;
- `CallsMatch`: which library call a thread is in, on which range and how far,
  given its `pc`;
- `FlagsHeld`: the page of a call past `mlock` is locked, past `madvise` both;
- `Placed`: where key material may be, and that those pages are flagged.

`Duties` says what a call still owes: which releases the kernel refused, what the
tag buffers hold, and what the check of `as_bytes` has seen of the key.

### Entry points: `AeadProofs`

All seven invariants of `Aead` (`TypeCorrect`, `AuthenticAlways`, `FailureAlways`,
`ResidueAlways`, `RoundTripAlways`, `KeystreamAlways`, `UltraAlways`), for any
parameters, lengths, builds and number of messages in flight, and any one
tolerated fault in every call.  The heart of `Inv` is `Values` and `Gates`: what
each of `tag`, `again`, `witnessTag`, the two gates and the two decision slots
says about the text in `out` at every `pc`, *and which single faults make it say
nothing*.  The sets of faults that blind the two gates are disjoint, which is why
one fault is not enough.  The receiver's half leans on `AllWellSent`: a message
that was sent carries the tag of what it was derived from, or that tag with the
damage of the sender's own fault.  Proving it showed that two `CASE`s of the model
(`DeriveTag`, `AcceptOrReject`) had guards that overlap under faults; TLC takes
the first, TLA+ any of them.  They are `IF`s now.

### ChaCha20: `ChaChaProofs`

`KernelsAreRight` and `SubkeyIsOne` are about the operators: scalar, SSE2, AVX2,
NEON and witness kernels write, lane for lane, one block for each of the counters
from their own on, wrapped to any width, and wipe their key-dependent locals.
`KeystreamAlways`, `WipedAlways`, `SubkeysAlways`, `SupportedAlways` are the four
invariants of `ChaChaApply`, for messages of any length and any number of threads
racing for the cache.  Inductive is `Aligned`: a call that is not over stands at
the first byte of a block with the counter of that block, so each batch continues
the keystream of the last.  It implies that no block serves twice only because
`ApplyAssumption` says the maximum message has no more blocks than the counter has
values, as `MAX_MSG_SIZE` does.

### The two hashers: `HasherProofs`

All five invariants of the `hashers` run (`HasherTypes`, `FinalIsAlwaysTree`,
`OffsetIsAlwaysNode`, `TagsAlwaysAgree`, `SlotsAreAlwaysLive`), for blocks and
chunks of any power of two, every SIMD degree, any depth of stack, any lengths
given to `update` in any order, any offset, and any AAD and message.  The
assumptions are the size limits of the code: an input is at most
`Exp2[MaxDepth]` chunks (`ForkAssumption`; 2^54 chunks of 1024 bytes are the 2^64
bytes a `u64` counts), the witness's at most `Exp2[Reserve]` (`WitnessAssumption`),
and what the tag feeds either is within both (`TagAssumption`).

None of the five is inductive.  What is (`TagInv`, theorem `HasherInvariant`) says
what a hasher has done with the bytes it was given; TLC checked it on `MCHashers`
before it was proved.

- `ForkInv`: there are `a` chunks behind the hasher.  The chunk state is chunk `a`
  with the bytes that are left (`Filled`), its last block uncompressed (`Kept`); the
  stack is `Lazy`: a subtree for every one-bit of `a`, largest first (`Peaks`), except
  that the subtree pushed last is not merged yet, since it may turn out to be the
  root.  That a hasher at an offset was fed no more than the lowest bit of the offset
  allows is what keeps its subtrees nodes of the whole tree.
- `WitnessInv`: the witness merges at once, so its slots *are* `Peaks`, as many as
  the number of chunks has one-bits, at most `Reserve` (`Room`), and every slot past
  them is zero; or all of it is wiped.
- The callers: which parts of head, AAD and message were fed, and what is in the
  copy (`Fed`, `Copied`).

From there to the properties:

1. *The tree is independent of the split.*  `Tree` splits at the largest power of two
   below the length; `Spine` shows by induction over the peaks that merging them onto
   what is behind them gives exactly that tree, and that what is behind them is one
   of its nodes.  `FinalIsTree` and `OffsetIsNode` are the two halves.
2. *Pushing keeps the stack.*  When `m` chunks are pushed on `a` of them, the merges
   are those of a carry through the binary number `a` (`Joining`, `OnesNext`);
   `merge_cv_stack` stops after as many (`MergeStackIs`, `PushIs`), and so does
   `add_chunk_cv`.
3. *A subtree hashed at once is a node.*  `compress_subtree_wide` returns a layer of
   at most `degree` values, or two for degree 1, whose parents, layer by layer, are the node's two halves
   (`WideIs`, `PairIs`), whatever the degree.
4. *A chunk filled in pieces is the chunk* (`ChunkUpdateIs`), in both implementations.
5. `TagsAgree` follows: both ended with the tree of the same bytes.

The proof made the model say two things it had left open.  `TagHash` had no
assumption that the tag's input fits the hashers, without which the stacks can be too
small for it; and sets of powers of two written with `^` became
`Exp2` and `IsPow2`, recursive functions as `count_ones` and `trailing_zeros` are.

### Process hardening: `ProcSelfProofs`

`FieldAlways`, `ClosedAlways`, `DenialAlways`: every safety property of `ProcSelf`,
for every process name, number, base and cut of the file into reads.  The state
part is that what was read is a prefix of the file (`FileInv`) and that a
descriptor is open exactly during a reading (`OpenInv`); the rest is about
`parse_vmlck`: that its last-line rule finds the kernel's field whatever the name
forges, and that its digit loop with its saturation computes the number.

### Byte loops: `LoopProofs`

`ErasedAlways` and `OthersAlways` for `Wipe` (any word size, place, length and
capacity: everything of the allocation is zero, and nothing beside it is written),
`SingleFaultAlways` and `FoldAlways` for `TagCompare` (any tags and words).  The
invariants say which bytes are still to do (`Undone`) and that the accumulator
holds the differences behind `folded` (`FoldedSoFar`); a fault strikes one loop,
so the other saw every byte (`WholeLoopSeesAll`).
`StreamAlways`: `OutputReader` implements `XofStream`, for any block length,
largest position, buffers and seeks.  `fill` is a loop inside one action, so the
step needs an invariant of its own (`Underway`); the state's is `TypeOK`
(`ReaderTypeCorrect`).

### BLAKE3 platform: `PlatformProofs`

All four properties of the `kernels` run (`SlotsHashed`, `BlocksStream`,
`KernelsInBounds`, `KernelsSupported`), for every target, feature set and compiler
of `build.rs`, every processor and constructor, any number of inputs, blocks and
halves of output, and a counter of any width.  The assumptions are that the halves
of the counter are not empty (`CounterAssumption`) and that the arguments of calls
are numbers (`CallAssumption`).  `KernelsSupported` is about `BatchesAreSupported`;
`SupportedWithSse41` adds that `KernelsAreSupported`, which `no_sse41` violates, holds
wherever every processor with AVX2 has SSE4.1.  The argument has four layers.

1. *Compression* (`CompressionIs`).  The seven rounds of `reference_impl.rs`, with
   their permutations, are the rounds of `MSG_SCHEDULE` (`ReferenceIs`), and so are
   those of `portable.rs` (`PortableIs`).  The row kernels are followed through
   `_mm_shuffle_*`, the unpacks and the blends of each round (`Sse2Shuffles`,
   `Sse2Compresses` and the same for SSE4.1 and WebAssembly), the lane kernels
   through the schedule (`LaneRounds`).
2. *A group* (`Sse2Hash4`, `Sse41Hash4`, `WasmHash4`, `Avx2Hash8`).  Each transpose
   swaps lanes and words (`Sse2Transposes`, ...), so that the message vectors are
   the messages of the lanes (`MessagesAre`) and the vectors stored are the slots.
   That every lane chains its own blocks is an induction over the blocks
   (`LanesHash`).
3. *A batch* (`HashWithIs`).  The groups and what is left, glued together, are the
   inputs one by one: group `g` begins `degree * (g - 1)` inputs further, and the
   counter of the rest is the counter advanced twice, wraps included
   (`FlatGroups`, `AdvancedTwice`).
4. *The machine*.  `MachineInv` says what may run: a kernel the build gives and the
   processor has, at widths that come to no narrow group of a foreign wide kernel
   (`GoodRun`, `BatchRun`, and nothing before a method works, in `RunsInv`; `WidestGroups` and `OneGroup` say what groups a number of inputs
   makes).  `SlotsInv` says that the slots of the inputs before `rest` hold their
   hashes, that the others are untouched, and that `rest.counter` is the counter of
   the first input left.

### Recursive functions

The library's induction theorems take operators as parameters, which no installed
prover instantiates.  They are replaced by induction over *sets*: a set of numbers
that has 0 and with each member its successor is all of `Nat` (`Induction`, from
`Least`).  With it a recursive function of a module is shown to exist and to
satisfy its equation (`Recursion`, `GroupsExist`, `ChainExists`; in `HasherProofs`
`Descent`, for any recursion that goes down), which makes the parser's digit loop,
the groups of the foreign kernels, the chain of a hash's blocks, the bits of a number
and the tree over a range of bytes provable.

### Only model-checked

- Liveness: `CallReturns`, `ReadingEnds`, and the liveness half of `KeyVault` in
  `ImplementsVault` (its safety half is `VaultAlways`).  The prover has no rules for
  fairness here.
- `LockedIsExcluded` and `KernelsAreSupported`, which the code violates.

## 5. Plan

Every safety property of every passing run is a theorem.  What could come next, in
this order:

1. The witness's compression function as one more implementation in `Blake3Mixing`,
   held to `reference_impl.rs` as the others are.
2. The outer hash of the tag and `derive_enc` as calls of `ForkHasher`, so that the
   terms of `Aead` become definitions.
3. `update_reader` of the fork, whose reads may be interrupted, over `ForkHasher`.

## 6. Not modelled

The arithmetic of words in ChaCha20's and BLAKE3's compression functions
(additions, XORs and rotations are terms), the loads and stores of single bytes
in the kernels, the C and assembly kernels of the fork (foreign code; only their
groups and bounds), timing, formatting of errors and `Debug`, the stubs on
targets without these system calls (2052-2125: constants), the bytes of the
auxiliary vector that `page_size` parses (modelled by whether they name a page
size), the witness's BLAKE3 compression, the outer hash of the tag and
`derive_enc` (one short call each, terms in `Aead`), rayon's scheduling,
`update_reader` and `update_mmap` of the fork (sequences of `update`, not used
by the crate), the reference implementation's `Hasher`, the `proofs.rs` harnesses
(they state properties of the code for another tool), tests, fuzz targets,
benches and tools.  `scrub_stack` and copies the compiler makes of moved values
are below this level: `live` and `left` are about named locals.
