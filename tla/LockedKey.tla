----------------------------- MODULE LockedKey -----------------------------
(***************************************************************************)
(* LockedKey of src/src/lib.rs (mod locked): new, as_bytes, drop, and the  *)
(* Page it owns, run by several threads over a shared allocator, kernel    *)
(* and page-size cache, with mem::forget, the rest of the program          *)
(* allocating and freeing the same pages, bit flips in a key page, pages   *)
(* written to swap and core dumps at any moment.                           *)
(*                                                                         *)
(* A Page is one kernel page: Layout(page_size, page_size).                *)
(***************************************************************************)
EXTENDS LockRange

CONSTANTS
  Keys, NoKey,   \* key values
  NoPage,        \* the page of a thread outside the library
  MaxFaults      \* bound: bit flips in a behaviour

ASSUME KeyAssumption ==
  /\ NoKey \notin Keys
  /\ NoPage \notin Pages
  /\ MaxFaults \in Nat

VARIABLES
  owner,     \* [Pages -> who the page belongs to]
  key,       \* [Pages -> the key written in the first 32 bytes, or NoKey]
  tag,       \* [Pages -> the key whose integrity tag follows, or NoKey]
  flipped,   \* [Pages -> which of the two regions hold a flipped bit]
  pc,        \* [Threads -> where in new, as_bytes or drop]
  page,      \* [Threads -> the page of that call]
  arg,       \* [Threads -> the key given to new]
  local,     \* [Threads -> the tag in the stack buffer of the call]
  verdict,   \* [Threads -> the outcome of ct_eq in check_integrity]
  saw,       \* [Threads -> history: the key was intact when it was hashed]
  faults,    \* number of bit flips so far
  panics,    \* pages an as_bytes panicked on, until they are allocated again
  exposed    \* keys that reached the swap device or a core dump

keyVars == <<owner, key, tag, flipped, pc, page, arg, local, verdict, saw,
             faults, panics, exposed>>
vars == <<lockVars, keyVars>>

Owners == {"free", "data", "page", "key", "forgotten"}
Regions == {"key", "tag"}

\* Tags: the tag of an intact key, of an intact key's page with a bit flipped,
\* and an all-zero buffer.  BLAKE3 is taken to be injective on these inputs.
TagOf(k, bad) == [of |-> k, bad |-> bad]
NoTag == TagOf(NoKey, FALSE)
Tags == [of : Keys \cup {NoKey}, bad : BOOLEAN]

NewSites  == {"new_size", "new_alloc", "new_lock", "new_copy", "new_tag", "new_wipe"}
DropSites == {"drop_wipe", "drop_unlock", "page_wipe", "page_free"}
ReadSites == {"check_hash", "check_eq", "check_wipe", "check_end", "using"}

Init ==
  /\ LockInit
  /\ owner = [p \in Pages |-> "free"]
  /\ key = [p \in Pages |-> NoKey]
  /\ tag = [p \in Pages |-> NoKey]
  /\ flipped = [p \in Pages |-> {}]
  /\ pc = [t \in Threads |-> "idle"]
  /\ page = [t \in Threads |-> NoPage]
  /\ arg = [t \in Threads |-> NoKey]
  /\ local = [t \in Threads |-> NoTag]
  /\ verdict = [t \in Threads |-> FALSE]
  /\ saw = [t \in Threads |-> FALSE]
  /\ faults = 0
  /\ panics = {}
  /\ exposed = {}

Go(t, from, to) == pc[t] = from /\ pc' = [pc EXCEPT ![t] = to]

\* The thread leaves the library.
Leave(t, from) == Go(t, from, "idle") /\ page' = [page EXCEPT ![t] = NoPage]

\* Mutant: only the 32 key bytes are wiped.
WipeKeyOnly(p) ==
  /\ key' = [key EXCEPT ![p] = NoKey]
  /\ flipped' = [flipped EXCEPT ![p] = {}]
  /\ UNCHANGED tag

\* Mutant: the wipe starts behind the key.
WipeTagOnly(p) ==
  /\ tag' = [tag EXCEPT ![p] = NoKey]
  /\ flipped' = [flipped EXCEPT ![p] = {}]
  /\ UNCHANGED key

\* zeroize_slice over the whole page
Wipe(p) ==
  /\ key' = [key EXCEPT ![p] = NoKey]
  /\ tag' = [tag EXCEPT ![p] = NoKey]
  /\ flipped' = [flipped EXCEPT ![p] = {}]

memory == <<owner, key, tag, flipped>>
frame  == <<arg, local, verdict, saw>>
world  == <<faults, panics, exposed>>

-----------------------------------------------------------------------------
(* LockedKey::new *)

New(t, k) ==
  /\ Go(t, "idle", "new_size")
  /\ arg' = [arg EXCEPT ![t] = k]
  /\ CallPageSize(t)
  /\ UNCHANGED <<memory, page, local, verdict, saw, world>>

\* Page::new: ENOSYS without a page size, ENOMEM without memory.
PageRefused(t) ==
  /\ Leave(t, "new_size")
  /\ Return(t)
  /\ UNCHANGED <<memory, frame, world>>

\* alloc_zeroed: a free page, whatever flags a previous owner left on it.
PageAllocated(t, p) ==
  /\ Go(t, "new_size", "new_alloc")
  /\ at[t] = "ok"
  /\ Return(t)
  /\ owner[p] = "free"
  /\ owner' = [owner EXCEPT ![p] = "page"]
  /\ Wipe(p)
  /\ page' = [page EXCEPT ![t] = p]
  /\ panics' = panics \ {p}
  /\ UNCHANGED <<frame, faults, exposed>>

LockPage(t) ==
  /\ Go(t, "new_alloc", "new_lock")
  /\ CallLock(t, {page[t]})
  /\ UNCHANGED <<memory, page, frame, world>>

\* Mutant: the result of lock_range is not looked at.
LockErrorIgnored(t) ==
  /\ Go(t, "new_lock", "new_copy")
  /\ Return(t)
  /\ UNCHANGED <<memory, page, frame, world>>

\* The ? after lock_range: on Err the Page is dropped.
PageLocked(t) ==
  /\ Go(t, "new_lock", IF at[t] = "ok" THEN "new_copy" ELSE "page_wipe")
  /\ Return(t)
  /\ UNCHANGED <<memory, page, frame, world>>

CopyKey(t) ==
  /\ Go(t, "new_copy", "new_tag")
  /\ key' = [key EXCEPT ![page[t]] = arg[t]]
  /\ local' = [local EXCEPT ![t] = TagOf(arg[t], FALSE)]
  /\ UNCHANGED <<lockVars, owner, tag, flipped, page, arg, verdict, saw, world>>

\* Mutant: what is stored is not the tag.
CopyWrongTag(t) ==
  /\ Go(t, "new_tag", "new_wipe")
  /\ tag' = [tag EXCEPT ![page[t]] = NoPage]
  /\ UNCHANGED <<lockVars, owner, key, flipped, page, frame, world>>

CopyTag(t) ==
  /\ Go(t, "new_tag", "new_wipe")
  /\ tag' = [tag EXCEPT ![page[t]] = local[t].of]
  /\ UNCHANGED <<lockVars, owner, key, flipped, page, frame, world>>

\* The local tag is wiped and Ok(LockedKey(page)) returned.
NewReturns(t) ==
  /\ Leave(t, "new_wipe")
  /\ local' = [local EXCEPT ![t] = NoTag]
  /\ owner' = [owner EXCEPT ![page[t]] = "key"]
  /\ UNCHANGED <<lockVars, key, tag, flipped, arg, verdict, saw, world>>

-----------------------------------------------------------------------------
(* Drop of a LockedKey, then of its Page; also of a Page new gave up on. *)

Borrowers(p) == {t \in Threads : pc[t] \in ReadSites /\ page[t] = p}

\* Any thread may drop a key (Send), but not one that is borrowed.
DropStarts(t, p) ==
  /\ Go(t, "idle", "drop_wipe")
  /\ owner[p] = "key" /\ Borrowers(p) = {}
  /\ owner' = [owner EXCEPT ![p] = "page"]
  /\ page' = [page EXCEPT ![t] = p]
  /\ UNCHANGED <<lockVars, key, tag, flipped, frame, world>>

\* Mutant: drop frees the page without unlocking it.
DropWithoutUnlock(t) ==
  /\ Go(t, "drop_wipe", "page_wipe")
  /\ Wipe(page[t])
  /\ UNCHANGED <<lockVars, owner, page, frame, world>>

DropWipe(t) ==
  /\ Go(t, "drop_wipe", "drop_unlock")
  /\ Wipe(page[t])
  /\ CallUnlockWith(t, {page[t]})
  /\ UNCHANGED <<owner, page, frame, world>>

DropUnlocked(t) ==
  /\ Go(t, "drop_unlock", "page_wipe")
  /\ Return(t)
  /\ UNCHANGED <<memory, page, frame, world>>

PageWipe(t) ==
  /\ Go(t, "page_wipe", "page_free")
  /\ Wipe(page[t])
  /\ UNCHANGED <<lockVars, owner, page, frame, world>>

PageFree(t) ==
  /\ Leave(t, "page_free")
  /\ owner' = [owner EXCEPT ![page[t]] = "free"]
  /\ UNCHANGED <<lockVars, key, tag, flipped, frame, world>>

\* mem::forget: no destructor runs.
Forget(p) ==
  /\ owner[p] = "key" /\ Borrowers(p) = {}
  /\ owner' = [owner EXCEPT ![p] = "forgotten"]
  /\ UNCHANGED <<lockVars, key, tag, flipped, pc, page, frame, world>>

-----------------------------------------------------------------------------
(* as_bytes: check_integrity, then a reference into the page. *)

AsBytes(t, p) ==
  /\ Go(t, "idle", "check_hash")
  /\ owner[p] = "key"
  /\ page' = [page EXCEPT ![t] = p]
  /\ UNCHANGED <<lockVars, memory, frame, world>>

\* integrity_tag of the bytes in the page, into a local
CheckHash(t) ==
  /\ Go(t, "check_hash", "check_eq")
  /\ local' = [local EXCEPT ![t] = TagOf(key[page[t]], "key" \in flipped[page[t]])]
  /\ saw' = [saw EXCEPT ![t] = "key" \notin flipped[page[t]]]
  /\ UNCHANGED <<lockVars, memory, page, arg, verdict, world>>

\* Mutant: the check looks at the stored tag only.
CheckTagOnly(t) ==
  /\ Go(t, "check_eq", "check_wipe")
  /\ verdict' = [verdict EXCEPT ![t] = "tag" \notin flipped[page[t]]]
  /\ UNCHANGED <<lockVars, memory, page, arg, local, saw, world>>

\* ct_eq with the stored tag, as it is now
CheckEq(t) ==
  /\ Go(t, "check_eq", "check_wipe")
  /\ verdict' = [verdict EXCEPT ![t] =
       "tag" \notin flipped[page[t]] /\ local[t] = TagOf(tag[page[t]], FALSE)]
  /\ UNCHANGED <<lockVars, memory, page, arg, local, saw, world>>

\* Mutant: the wipe stands after the branch, where a panic skips it.
CheckWipeIfEqual(t) ==
  /\ Go(t, "check_wipe", "check_end")
  /\ local' = IF verdict[t] THEN [local EXCEPT ![t] = NoTag] ELSE local
  /\ UNCHANGED <<lockVars, memory, page, arg, verdict, saw, world>>

\* The local is wiped before the branch, so on the panic path too.
CheckWipe(t) ==
  /\ Go(t, "check_wipe", "check_end")
  /\ local' = [local EXCEPT ![t] = NoTag]
  /\ UNCHANGED <<lockVars, memory, page, arg, verdict, saw, world>>

CheckPassed(t) ==
  /\ Go(t, "check_end", "using")
  /\ verdict[t]
  /\ UNCHANGED <<lockVars, memory, page, frame, world>>

\* panic!: the borrow ends; what the unwinding drops, DropStarts drops.
CheckPanics(t) ==
  /\ Leave(t, "check_end")
  /\ ~verdict[t]
  /\ panics' = panics \cup {page[t]}
  /\ UNCHANGED <<lockVars, memory, frame, faults, exposed>>

\* The caller is done with the reference.
Release(t) ==
  /\ Leave(t, "using")
  /\ UNCHANGED <<lockVars, memory, frame, world>>

-----------------------------------------------------------------------------
(* The rest of the process, the kernel and the hardware. *)

\* Other code allocates a free page, with the flags it has, and frees it.
DataAllocated(p) ==
  /\ owner[p] = "free"
  /\ owner' = [owner EXCEPT ![p] = "data"]
  /\ UNCHANGED <<lockVars, key, tag, flipped, pc, page, frame, world>>

DataFreed(p) ==
  /\ owner[p] = "data"
  /\ owner' = [owner EXCEPT ![p] = "free"]
  /\ UNCHANGED <<lockVars, key, tag, flipped, pc, page, frame, world>>

\* A bit of the key or of the tag flips; flipping it again restores it.
Flip(p, r) ==
  /\ faults < MaxFaults
  /\ IF r = "key" THEN key[p] # NoKey ELSE tag[p] # NoKey
  /\ flipped' = [flipped EXCEPT ![p] = IF r \in @ THEN @ \ {r} ELSE @ \cup {r}]
  /\ faults' = faults + 1
  /\ UNCHANGED <<lockVars, owner, key, tag, pc, page, frame, panics, exposed>>

\* Key material in a page: the key, and the tag, which is a hash of it.
Material(p) == {key[p], tag[p]} \ {NoKey}

SwapOut(p) ==
  /\ p \notin mlocked
  /\ exposed' = exposed \cup Material(p)
  /\ UNCHANGED <<lockVars, memory, pc, page, frame, faults, panics>>

CoreDump ==
  /\ exposed' = exposed \cup UNION {Material(p) : p \in Pages \ dontdump}
  /\ UNCHANGED <<lockVars, memory, pc, page, frame, faults, panics>>

-----------------------------------------------------------------------------
LibCall(t) == LibStep(t) /\ UNCHANGED keyVars

\* What a thread inside new or drop does next.
Progress(t) ==
  \/ LibCall(t)
  \/ PageRefused(t) \/ (\E p \in Pages : PageAllocated(t, p))
  \/ LockPage(t) \/ PageLocked(t) \/ CopyKey(t) \/ CopyTag(t) \/ NewReturns(t)
  \/ DropWipe(t) \/ DropUnlocked(t) \/ PageWipe(t) \/ PageFree(t)

Reading(t) ==
  \/ CheckHash(t) \/ CheckEq(t) \/ CheckWipe(t)
  \/ CheckPassed(t) \/ CheckPanics(t) \/ Release(t)

Caller(t) ==
  \/ \E k \in Keys : New(t, k)
  \/ \E p \in Pages : DropStarts(t, p) \/ AsBytes(t, p)

Environment ==
  \/ CoreDump
  \/ \E p \in Pages :
       \/ Forget(p) \/ DataAllocated(p) \/ DataFreed(p) \/ SwapOut(p)
       \/ \E r \in Regions : Flip(p, r)

Next == Environment \/ \E t \in Threads : Caller(t) \/ Progress(t) \/ Reading(t)

Spec == Init /\ [][Next]_vars

\* new and drop wait for nobody: a thread that is scheduled finishes them.
FairSpec == Spec /\ \A t \in Threads : WF_vars(Progress(t))

-----------------------------------------------------------------------------
TypeOK ==
  /\ LockTypeOK
  /\ owner \in [Pages -> Owners]
  /\ key \in [Pages -> Keys \cup {NoKey}]
  /\ tag \in [Pages -> Keys \cup {NoKey}]
  /\ flipped \in [Pages -> SUBSET Regions]
  /\ pc \in [Threads -> {"idle"} \cup NewSites \cup DropSites \cup ReadSites]
  /\ page \in [Threads -> Pages \cup {NoPage}]
  /\ arg \in [Threads -> Keys \cup {NoKey}]
  /\ local \in [Threads -> Tags]
  /\ verdict \in [Threads -> BOOLEAN]
  /\ saw \in [Threads -> BOOLEAN]
  /\ faults \in 0..MaxFaults
  /\ panics \in SUBSET Pages
  /\ exposed \in SUBSET Keys

\* Doc of LockedKey: "while this value is alive its pages cannot be swapped out,
\* and a core dump will not contain them"; of new: the lock is taken before the
\* key enters the page; of drop: wipe before unlocking.  So at every moment, in
\* the middle of new and drop of any thread and after any refusal, a page with
\* key material in it is locked and excluded from dumps.
KeyResidency ==
  \A p \in Pages : Material(p) # {} => p \in mlocked \cap dontdump

\* Page::drop: memory the allocator can hand out again holds no key material,
\* also when the page stayed locked and a lock check alone would say nothing.
FreedPageIsErased ==
  \A p \in Pages : owner[p] \in {"free", "data"} => Material(p) = {}

\* The lock and the exclusion come to an end with the key: a page back in the
\* allocator has neither, unless the kernel refused to release it.
ReleasedPageRestored ==
  \A p \in mlocked \cup dontdump :
    p \in refused \/ owner[p] \in {"page", "key", "forgotten"}

\* as_bytes is fail-stop: a caller has the reference only if the key was intact
\* when its hash was taken, and a panic is never a false alarm.
FailStop ==
  /\ \A t \in Threads : pc[t] = "using" => saw[t]
  /\ panics # {} => faults > 0

\* new and check_integrity leave no copy of the tag on the stack, on the panic
\* path either.
NoTagResidue ==
  \A t \in Threads : pc[t] \in {"idle", "using"} => local[t] = NoTag

\* The LockedKey values of the process are the handles of a KeyVault.
Vault == INSTANCE KeyVault WITH
  vault  <- key,
  handle <- [p \in Pages |->
              IF owner[p] \in {"key", "forgotten"} THEN key[p] ELSE NoKey]

\* Nothing of this is visible in the promise: key material is only ever there
\* for a LockedKey, ends up in one or is erased, and never leaves memory.
ImplementsVault == Vault!Spec
=============================================================================
