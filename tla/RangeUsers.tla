----------------------------- MODULE RangeUsers -----------------------------
(***************************************************************************)
(* Callers of the public lock_range and unlock_range of src/src/lib.rs     *)
(* that keep their # Safety contract: a caller locks and unlocks only page *)
(* ranges that are its own.  Both calls act on whole pages and on the      *)
(* whole range, so what a caller may rely on is a question about the       *)
(* interleaving of their system calls with every refusal of the kernel.    *)
(***************************************************************************)
EXTENDS LockRange

CONSTANT Owned   \* [Threads -> the pages the thread is entitled to lock]

ASSUME OwnedAssumption ==
  /\ Owned \in [Threads -> SUBSET Pages]
  /\ \A t, u \in Threads : t # u => Owned[t] \cap Owned[u] = {}

VARIABLE held    \* [Threads -> ranges for which lock_range returned Ok]

vars == <<lockVars, held>>

\* A range of memory is contiguous; len may be 0.
Ranges(t) ==
  {R \in SUBSET Owned[t] :
     \A p, r \in R : \A q \in Pages : p < q /\ q < r => q \in R}

Init == LockInit /\ held = [t \in Threads |-> {}]

LockCalled(t) ==
  /\ \E R \in Ranges(t) : R \cap UNION held[t] = {} /\ CallLock(t, R)
  /\ UNCHANGED held

\* A held range, or one that is not locked (unlock_range is idempotent).
UnlockCalled(t) ==
  \E R \in Ranges(t) :
    /\ R \in held[t] \/ R \cap UNION held[t] = {}
    /\ CallUnlock(t, R)
    /\ held' = [held EXCEPT ![t] = @ \ {R}]

Returned(t) ==
  /\ held' = IF op[t] = "lock_range" /\ at[t] = "ok"
             THEN [held EXCEPT ![t] = @ \cup {rng[t]}] ELSE held
  /\ Return(t)

Step(t) == LibStep(t) /\ UNCHANGED held

Next == \E t \in Threads :
  LockCalled(t) \/ UnlockCalled(t) \/ Step(t) \/ Returned(t)

Spec == Init /\ [][Next]_vars

\* A thread inside the library keeps running: no call here waits for another.
FairSpec == Spec /\ \A t \in Threads : WF_vars(Step(t) \/ Returned(t))

-----------------------------------------------------------------------------
InFlight == UNION {rng[t] : t \in Threads}

HeldPages(t) == UNION held[t]

\* What Ok promises (doc of lock_range: "Returns Ok(()) only if both
\* succeeded"), for as long as the caller holds the range: no system call of any
\* thread, and no failure path, takes the lock or the exclusion away.
HeldIsProtected ==
  \A t \in Threads : HeldPages(t) \subseteq mlocked \cap dontdump

\* unlock_range and the failure path of lock_range give everything back: a page
\* nobody holds and no call is working on is charged or excluded from dumps only
\* if the kernel refused the release.
NothingKept ==
  \A p \in mlocked \cup dontdump :
    \/ \E t \in Threads : p \in HeldPages(t)
    \/ p \in InFlight
    \/ p \in refused

\* The order "munlock first, then MADV_DODUMP": no step makes a page dumpable
\* while it is locked, whatever the kernel refuses.
UnlockBeforeDump ==
  [][\A p \in dontdump \ dontdump' : p \notin mlocked']_vars

\* A call returns, refusals included, and however many signals interrupt its
\* reads of /proc/self/auxv: the one loop a call runs counts its tries.
CallReturns == \A t \in Threads : (at[t] # "idle") ~> (at[t] = "idle")

\* Doc of lock_range's failure path: "If the unlock is refused, the range stays
\* non-dumpable; a leaked exclusion is recoverable, a locked-and-dumpable page is
\* not."  After a call has ended, a page that is still locked is excluded.
LockedIsExcluded ==
  \A t \in Threads : at[t] \in Ended => (rng[t] \cap mlocked) \subseteq dontdump
=============================================================================
