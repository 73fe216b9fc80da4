----------------------------- MODULE LockRange -----------------------------
(***************************************************************************)
(* lock_range, unlock_range and page_size of src/src/lib.rs (mod locked,   *)
(* mod imp), one action per system call, and the two flags the kernel      *)
(* keeps for a page: VM_LOCKED and VM_DONTDUMP.                            *)
(*                                                                         *)
(* This module has no Init and no Next.  A module that calls the library   *)
(* (RangeUsers, LockedKey) starts a call with one of the Call... operators *)
(* lets LibStep(t) run it, and looks at at[t] for the result: "ok" or      *)
(* "err".  unlock_range has no result; its end is "ok" too.                *)
(***************************************************************************)
EXTENDS Naturals, FiniteSets

CONSTANTS
  Threads,    \* threads of the process
  Pages,      \* the kernel pages of the process the library may be given
  LockLimit,  \* RLIMIT_MEMLOCK, in pages
  MaxRetries  \* MAX_EINTR_RETRIES of page_size, 16 in the code

ASSUME LockAssumption ==
  /\ Pages \subseteq Nat
  /\ IsFiniteSet(Pages)
  /\ LockLimit \in Nat
  /\ MaxRetries \in Nat \ {0}

VARIABLES
  mlocked,    \* pages with VM_LOCKED; their number is the VmLck charge
  dontdump,   \* pages with VM_DONTDUMP
  cached,     \* the static PAGE_SIZE holds the page size (0 means unknown)
  refused,    \* history: pages whose munlock or MADV_DODUMP the kernel refused
  op,         \* [Threads -> the library function the thread is in]
  rng,        \* [Threads -> the whole pages covering its ptr and len]
  at,         \* [Threads -> where in that function]
  tries       \* [Threads -> reads of auxv that a signal has interrupted so far]

kernelVars == <<mlocked, dontdump>>
callVars   == <<op, rng, at, tries>>
lockVars   == <<mlocked, dontdump, cached, refused, op, rng, at, tries>>

Ops  == {"none", "page_size", "lock_range", "unlock_range"}
Sites == {"idle", "size", "auxv", "read", "mlock", "dontdump", "munlock",
          "dodump", "ok", "err"}
Ended == {"ok", "err"}

LockTypeOK ==
  /\ mlocked \in SUBSET Pages
  /\ dontdump \in SUBSET Pages
  /\ cached \in BOOLEAN
  /\ refused \in SUBSET Pages
  /\ op \in [Threads -> Ops]
  /\ rng \in [Threads -> SUBSET Pages]
  /\ at \in [Threads -> Sites]
  /\ tries \in [Threads -> 0..MaxRetries - 1]

LockInit ==
  /\ mlocked = {} /\ dontdump = {} /\ refused = {}
  /\ cached = FALSE
  /\ op = [t \in Threads |-> "none"]
  /\ rng = [t \in Threads |-> {}]
  /\ at = [t \in Threads |-> "idle"]
  /\ tries = [t \in Threads |-> 0]

Goto(t, s) == at' = [at EXCEPT ![t] = s]

Call(t, f, R, s) ==
  /\ at[t] = "idle"
  /\ op' = [op EXCEPT ![t] = f]
  /\ rng' = [rng EXCEPT ![t] = R]
  /\ Goto(t, s)
  /\ UNCHANGED <<mlocked, dontdump, cached, refused, tries>>

CallPageSize(t)       == Call(t, "page_size", {}, "size")
\* len = 0 returns Ok at once and touches nothing.
CallLock(t, R)        == Call(t, "lock_range", R, IF R = {} THEN "ok" ELSE "size")
CallUnlock(t, R)      == Call(t, "unlock_range", R, IF R = {} THEN "ok" ELSE "size")
\* unlock_range_with: the caller knows the page size, so page_size is not asked.
CallUnlockWith(t, R)  == Call(t, "unlock_range", R, "munlock")

\* The caller takes the result of a call that has ended.
Return(t) ==
  /\ at[t] \in Ended
  /\ op' = [op EXCEPT ![t] = "none"]
  /\ rng' = [rng EXCEPT ![t] = {}]
  /\ Goto(t, "idle")
  /\ UNCHANGED <<mlocked, dontdump, cached, refused, tries>>

-----------------------------------------------------------------------------
(* page_size: a cached value, else AT_PAGESZ from /proc/self/auxv, else None. *)

SizeKnown(f) ==
  CASE f = "lock_range" -> "mlock" [] f = "unlock_range" -> "munlock" [] OTHER -> "ok"

\* unlock_range leaves the lock alone when the size is unknown; the others fail.
SizeUnknown(f) == IF f = "unlock_range" THEN "ok" ELSE "err"

\* PAGE_SIZE.load(Relaxed)
LoadCache(t) ==
  /\ at[t] = "size"
  /\ Goto(t, IF cached THEN SizeKnown(op[t]) ELSE "auxv")
  /\ UNCHANGED <<kernelVars, cached, refused, op, rng, tries>>

\* open_ro of /proc/self/auxv
AuxvOpens(t) ==
  /\ at[t] = "auxv"
  /\ Goto(t, "read")
  /\ UNCHANGED <<kernelVars, cached, refused, op, rng, tries>>

AuxvNotOpened(t) ==
  /\ at[t] = "auxv"
  /\ Goto(t, SizeUnknown(op[t]))
  /\ UNCHANGED <<kernelVars, cached, refused, op, rng, tries>>

\* Mutant: the exit test of the loop looks at the result only, not at the tries.
RetriedWhileInterrupted(t) ==
  /\ at[t] = "read"
  /\ tries' = [tries EXCEPT ![t] = (@ + 1) % MaxRetries]
  /\ UNCHANGED <<kernelVars, cached, refused, op, rng, at>>

\* read gives EINTR: once more, unless this was the last try.
AuxvInterrupted(t) ==
  /\ at[t] = "read"
  /\ tries[t] + 1 < MaxRetries
  /\ tries' = [tries EXCEPT ![t] = @ + 1]
  /\ UNCHANGED <<kernelVars, cached, refused, op, rng, at>>

\* What was read names a page size: it is stored.  Another thread may have
\* stored it since the load; both store the same value.
AuxvRead(t) ==
  /\ at[t] = "read"
  /\ cached' = TRUE
  /\ tries' = [tries EXCEPT ![t] = 0]
  /\ Goto(t, SizeKnown(op[t]))
  /\ UNCHANGED <<kernelVars, refused, op, rng>>

\* EINTR on the last try, another error, fewer than 16 bytes, or no valid entry.
AuxvFails(t) ==
  /\ at[t] = "read"
  /\ tries' = [tries EXCEPT ![t] = 0]
  /\ Goto(t, SizeUnknown(op[t]))
  /\ UNCHANGED <<kernelVars, cached, refused, op, rng>>

-----------------------------------------------------------------------------
(* The system calls.  A seccomp filter may refuse any of them at any time. *)

MlockOk(t) ==
  /\ at[t] = "mlock"
  /\ Cardinality(mlocked \cup rng[t]) <= LockLimit
  /\ mlocked' = mlocked \cup rng[t]
  /\ Goto(t, "dontdump")
  /\ UNCHANGED <<dontdump, cached, refused, op, rng, tries>>

\* ENOMEM (the whole range is accounted for before any of it is locked) or EPERM.
MlockRefused(t) ==
  /\ at[t] = "mlock"
  /\ Goto(t, "err")
  /\ UNCHANGED <<kernelVars, cached, refused, op, rng, tries>>

\* madvise walks the range in address order and may stop at a page: what it can
\* have done by then.
Walked(R) ==
  {S \in SUBSET R : S # R /\ \A p \in S, q \in R \ S : p < q}

AdviseOk(t) ==
  /\ at[t] = "dontdump"
  /\ dontdump' = dontdump \cup rng[t]
  /\ Goto(t, "ok")
  /\ UNCHANGED <<mlocked, cached, refused, op, rng, tries>>

\* Mutant: the error of madvise is ignored.
AdviseErrorIgnored(t) ==
  /\ at[t] = "dontdump"
  /\ \E S \in Walked(rng[t]) : dontdump' = dontdump \cup S
  /\ Goto(t, "ok")
  /\ UNCHANGED <<mlocked, cached, refused, op, rng, tries>>

\* Mutant: lock_range returns the error without a rollback.
NoRollback(t) ==
  /\ at[t] = "dontdump"
  /\ \E S \in Walked(rng[t]) : dontdump' = dontdump \cup S
  /\ Goto(t, "err")
  /\ UNCHANGED <<mlocked, cached, refused, op, rng, tries>>

\* MADV_DONTDUMP fails: roll back, munlock first.
AdviseFails(t) ==
  /\ at[t] = "dontdump"
  /\ \E S \in Walked(rng[t]) : dontdump' = dontdump \cup S
  /\ Goto(t, "munlock")
  /\ UNCHANGED <<mlocked, cached, refused, op, rng, tries>>

\* lock_range only gets here to fail: it returns the error of its madvise.
Released(f) == IF f = "lock_range" THEN "err" ELSE "ok"

MunlockOk(t) ==
  /\ at[t] = "munlock"
  /\ mlocked' = mlocked \ rng[t]
  /\ Goto(t, "dodump")
  /\ UNCHANGED <<dontdump, cached, refused, op, rng, tries>>

\* Mutant: MADV_DODUMP goes through whatever munlock said.
DodumpAnyway(t) ==
  /\ at[t] = "munlock"
  /\ Goto(t, "dodump")
  /\ refused' = refused \cup rng[t]
  /\ UNCHANGED <<kernelVars, cached, op, rng, tries>>

\* The advice is not restored: a leaked exclusion is recoverable.
MunlockRefused(t) ==
  /\ at[t] = "munlock"
  /\ Goto(t, Released(op[t]))
  /\ refused' = refused \cup rng[t]
  /\ UNCHANGED <<kernelVars, cached, op, rng, tries>>

DodumpOk(t) ==
  /\ at[t] = "dodump"
  /\ dontdump' = dontdump \ rng[t]
  /\ Goto(t, Released(op[t]))
  /\ refused' = refused \ rng[t]
  /\ UNCHANGED <<mlocked, cached, op, rng, tries>>

\* The result of this madvise is ignored.
DodumpFails(t) ==
  /\ at[t] = "dodump"
  /\ \E S \in Walked(rng[t]) : dontdump' = dontdump \ S
  /\ Goto(t, Released(op[t]))
  /\ refused' = refused \cup rng[t]
  /\ UNCHANGED <<mlocked, cached, op, rng, tries>>

LibStep(t) ==
  \/ LoadCache(t) \/ AuxvOpens(t) \/ AuxvNotOpened(t)
  \/ AuxvInterrupted(t) \/ AuxvRead(t) \/ AuxvFails(t)
  \/ MlockOk(t) \/ MlockRefused(t)
  \/ AdviseOk(t) \/ AdviseFails(t)
  \/ MunlockOk(t) \/ MunlockRefused(t)
  \/ DodumpOk(t) \/ DodumpFails(t)
=============================================================================
