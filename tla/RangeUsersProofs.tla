-------------------------- MODULE RangeUsersProofs --------------------------
(***************************************************************************)
(* For any threads, any pages, any way of dividing the pages among the     *)
(* threads and any lock limit: a range for which lock_range returned Ok    *)
(* stays locked and excluded from dumps for as long as it is held, what is *)
(* given back is given back whole unless the kernel refuses, and no page   *)
(* becomes dumpable while it is locked.                                    *)
(***************************************************************************)
EXTENDS RangeUsers, TLAPS

TypeOK ==
  /\ LockTypeOK
  /\ held \in [Threads -> SUBSET SUBSET Pages]

\* The # Safety contract, kept: a call works on pages of its thread that the
\* thread does not hold, and the ranges a thread holds do not overlap.
Apart ==
  \A t \in Threads :
    /\ rng[t] \subseteq Owned[t]
    /\ \A R \in held[t] : R \subseteq Owned[t] /\ \A p \in R : p \notin rng[t]
    /\ \A R, S \in held[t] : R # S => \A p \in R : p \notin S

\* Which call can be where.
CallSites ==
  \A t \in Threads :
    /\ at[t] = "idle" => rng[t] = {}
    /\ at[t] # "idle" => op[t] \in {"lock_range", "unlock_range"}
    /\ at[t] \in {"mlock", "dontdump", "err"} => op[t] = "lock_range"

HeldSafe == \A t \in Threads : \A R \in held[t] : \A p \in R : p \in mlocked /\ p \in dontdump

\* What a call has done to the flags of its range so far.
FlagsByStep ==
  \A t \in Threads :
    /\ at[t] = "dontdump" => \A p \in rng[t] : p \in mlocked
    /\ at[t] = "ok" /\ op[t] = "lock_range" =>
         \A p \in rng[t] : p \in mlocked /\ p \in dontdump
    /\ at[t] = "dodump" => \A p \in rng[t] : p \notin mlocked

\* Where the flags of a call's range are as a refusal of the kernel left them:
\* before lock_range sets any, and wherever a call ends without a lock to show.
Unlocked(t) ==
  \/ at[t] \in {"auxv", "read", "mlock", "err"}
  \/ at[t] = "size" /\ op[t] = "lock_range"
  \/ at[t] = "ok" /\ op[t] = "unlock_range"

Settled ==
  \A t \in Threads : Unlocked(t) =>
    \A p \in rng[t] : p \in mlocked \/ p \in dontdump => p \in refused

\* A flag was set by a call that knew the page size, and the size stays known.
\* unlock_range does nothing where it is unknown: so then there is nothing to undo.
SizeStaysKnown ==
  /\ \A t \in Threads : at[t] \in {"mlock", "dontdump", "munlock", "dodump"} => cached
  /\ ~cached => mlocked = {} /\ dontdump = {}

Accounted ==
  \A p \in mlocked \cup dontdump :
    p \in refused \/ \E t \in Threads : p \in rng[t] \/ \E R \in held[t] : p \in R

Inv ==
  /\ TypeOK /\ Apart /\ CallSites /\ HeldSafe
  /\ FlagsByStep /\ Settled /\ SizeStaysKnown /\ Accounted

USE LockAssumption, OwnedAssumption

\* No thread has called the library yet.
LEMMA InitInv == Init => Inv
<1> SUFFICES ASSUME Init PROVE Inv
  OBVIOUS
<1> USE DEF Init, LockInit
<1>1. TypeOK /\ Apart /\ CallSites /\ HeldSafe
  <2>1. tries \in [Threads -> 0..MaxRetries - 1]
    <3>1. 0 \in 0..MaxRetries - 1
      OBVIOUS
    <3> QED
      BY <3>1
  <2> QED
    BY <2>1 DEF TypeOK, LockTypeOK, Ops, Sites, Apart, CallSites, HeldSafe
<1>2. FlagsByStep /\ Settled /\ SizeStaysKnown /\ Accounted
  BY DEF FlagsByStep, Settled, Unlocked, SizeStaysKnown, Accounted
<1> QED
  BY <1>1, <1>2 DEF Inv

-----------------------------------------------------------------------------
(* The steps of the library. *)

\* Ranges of different threads, and a range at work and the ranges that are held, have
\* no page in common.
LEMMA Disjoint ==
  ASSUME Inv, NEW t \in Threads, NEW p \in rng[t]
  PROVE  /\ \A u \in Threads : u # t => p \notin rng[u]
         /\ \A u \in Threads : \A R \in held[u] : p \notin R
<1>1. p \in Owned[t] /\ p \in Pages
  BY DEF Inv, TypeOK, LockTypeOK, Apart
<1>2. \A u \in Threads : u # t => p \notin Owned[u]
  BY <1>1
<1> QED
  BY <1>1, <1>2 DEF Inv, Apart

USE DEF Goto, kernelVars, SizeKnown, SizeUnknown, Released

LEMMA LoadCacheInv ==
  ASSUME Inv, NEW t \in Threads, LoadCache(t), UNCHANGED held
  PROVE  Inv'
<1> USE DEF LoadCache
<1>1. TypeOK' /\ Apart' /\ CallSites'
  BY DEF Inv, TypeOK, LockTypeOK, Sites, Apart, CallSites
<1>2. HeldSafe' /\ FlagsByStep'
  BY Disjoint DEF Inv, TypeOK, LockTypeOK, CallSites, HeldSafe, FlagsByStep
<1>3. Settled'
  BY Disjoint DEF Inv, TypeOK, LockTypeOK, CallSites, FlagsByStep, Settled, Unlocked,
     SizeStaysKnown
<1>4. SizeStaysKnown' /\ Accounted'
  BY DEF Inv, TypeOK, LockTypeOK, CallSites, FlagsByStep, SizeStaysKnown, Accounted
<1> QED
  BY <1>1, <1>2, <1>3, <1>4 DEF Inv

LEMMA AuxvOpensInv ==
  ASSUME Inv, NEW t \in Threads, AuxvOpens(t), UNCHANGED held
  PROVE  Inv'
<1> USE DEF AuxvOpens
<1>1. TypeOK' /\ Apart' /\ CallSites'
  BY DEF Inv, TypeOK, LockTypeOK, Sites, Apart, CallSites
<1>2. HeldSafe' /\ FlagsByStep'
  BY Disjoint DEF Inv, TypeOK, LockTypeOK, CallSites, HeldSafe, FlagsByStep
<1>3. Settled'
  BY Disjoint DEF Inv, TypeOK, LockTypeOK, CallSites, FlagsByStep, Settled, Unlocked,
     SizeStaysKnown
<1>4. SizeStaysKnown' /\ Accounted'
  BY DEF Inv, TypeOK, LockTypeOK, CallSites, FlagsByStep, SizeStaysKnown, Accounted
<1> QED
  BY <1>1, <1>2, <1>3, <1>4 DEF Inv

LEMMA AuxvNotOpenedInv ==
  ASSUME Inv, NEW t \in Threads, AuxvNotOpened(t), UNCHANGED held
  PROVE  Inv'
<1> USE DEF AuxvNotOpened
<1>1. TypeOK' /\ Apart' /\ CallSites'
  BY DEF Inv, TypeOK, LockTypeOK, Sites, Apart, CallSites
<1>2. HeldSafe' /\ FlagsByStep'
  BY Disjoint DEF Inv, TypeOK, LockTypeOK, CallSites, HeldSafe, FlagsByStep
<1>3. Settled'
  BY Disjoint DEF Inv, TypeOK, LockTypeOK, CallSites, FlagsByStep, Settled, Unlocked,
     SizeStaysKnown
<1>4. SizeStaysKnown' /\ Accounted'
  BY DEF Inv, TypeOK, LockTypeOK, CallSites, FlagsByStep, SizeStaysKnown, Accounted
<1> QED
  BY <1>1, <1>2, <1>3, <1>4 DEF Inv

LEMMA AuxvInterruptedInv ==
  ASSUME Inv, NEW t \in Threads, AuxvInterrupted(t), UNCHANGED held
  PROVE  Inv'
<1> USE DEF AuxvInterrupted
<1>1. TypeOK' /\ Apart' /\ CallSites'
  BY DEF Inv, TypeOK, LockTypeOK, Sites, Apart, CallSites
<1>2. HeldSafe' /\ FlagsByStep'
  BY Disjoint DEF Inv, TypeOK, LockTypeOK, CallSites, HeldSafe, FlagsByStep
<1>3. Settled'
  BY Disjoint DEF Inv, TypeOK, LockTypeOK, CallSites, FlagsByStep, Settled, Unlocked,
     SizeStaysKnown
<1>4. SizeStaysKnown' /\ Accounted'
  BY DEF Inv, TypeOK, LockTypeOK, CallSites, FlagsByStep, SizeStaysKnown, Accounted
<1> QED
  BY <1>1, <1>2, <1>3, <1>4 DEF Inv

LEMMA AuxvReadInv ==
  ASSUME Inv, NEW t \in Threads, AuxvRead(t), UNCHANGED held
  PROVE  Inv'
<1> USE DEF AuxvRead
<1>1. TypeOK' /\ Apart' /\ CallSites'
  BY DEF Inv, TypeOK, LockTypeOK, Sites, Apart, CallSites
<1>2. HeldSafe' /\ FlagsByStep'
  BY Disjoint DEF Inv, TypeOK, LockTypeOK, CallSites, HeldSafe, FlagsByStep
<1>3. Settled'
  BY Disjoint DEF Inv, TypeOK, LockTypeOK, CallSites, FlagsByStep, Settled, Unlocked,
     SizeStaysKnown
<1>4. SizeStaysKnown' /\ Accounted'
  BY DEF Inv, TypeOK, LockTypeOK, CallSites, FlagsByStep, SizeStaysKnown, Accounted
<1> QED
  BY <1>1, <1>2, <1>3, <1>4 DEF Inv

LEMMA AuxvFailsInv ==
  ASSUME Inv, NEW t \in Threads, AuxvFails(t), UNCHANGED held
  PROVE  Inv'
<1> USE DEF AuxvFails
<1>1. TypeOK' /\ Apart' /\ CallSites'
  BY DEF Inv, TypeOK, LockTypeOK, Sites, Apart, CallSites
<1>2. HeldSafe' /\ FlagsByStep'
  BY Disjoint DEF Inv, TypeOK, LockTypeOK, CallSites, HeldSafe, FlagsByStep
<1>3. Settled'
  BY Disjoint DEF Inv, TypeOK, LockTypeOK, CallSites, FlagsByStep, Settled, Unlocked,
     SizeStaysKnown
<1>4. SizeStaysKnown' /\ Accounted'
  BY DEF Inv, TypeOK, LockTypeOK, CallSites, FlagsByStep, SizeStaysKnown, Accounted
<1> QED
  BY <1>1, <1>2, <1>3, <1>4 DEF Inv

LEMMA MlockOkInv ==
  ASSUME Inv, NEW t \in Threads, MlockOk(t), UNCHANGED held
  PROVE  Inv'
<1> USE DEF MlockOk
<1>1. TypeOK' /\ Apart' /\ CallSites'
  BY DEF Inv, TypeOK, LockTypeOK, Sites, Apart, CallSites
<1>2. HeldSafe' /\ FlagsByStep'
  BY Disjoint DEF Inv, TypeOK, LockTypeOK, CallSites, HeldSafe, FlagsByStep
<1>3. Settled'
  BY Disjoint DEF Inv, TypeOK, LockTypeOK, CallSites, FlagsByStep, Settled, Unlocked,
     SizeStaysKnown
<1>4. SizeStaysKnown' /\ Accounted'
  BY DEF Inv, TypeOK, LockTypeOK, CallSites, FlagsByStep, SizeStaysKnown, Accounted
<1> QED
  BY <1>1, <1>2, <1>3, <1>4 DEF Inv

LEMMA MlockRefusedInv ==
  ASSUME Inv, NEW t \in Threads, MlockRefused(t), UNCHANGED held
  PROVE  Inv'
<1> USE DEF MlockRefused
<1>1. TypeOK' /\ Apart' /\ CallSites'
  BY DEF Inv, TypeOK, LockTypeOK, Sites, Apart, CallSites
<1>2. HeldSafe' /\ FlagsByStep'
  BY Disjoint DEF Inv, TypeOK, LockTypeOK, CallSites, HeldSafe, FlagsByStep
<1>3. Settled'
  BY Disjoint DEF Inv, TypeOK, LockTypeOK, CallSites, FlagsByStep, Settled, Unlocked,
     SizeStaysKnown
<1>4. SizeStaysKnown' /\ Accounted'
  BY DEF Inv, TypeOK, LockTypeOK, CallSites, FlagsByStep, SizeStaysKnown, Accounted
<1> QED
  BY <1>1, <1>2, <1>3, <1>4 DEF Inv

LEMMA AdviseOkInv ==
  ASSUME Inv, NEW t \in Threads, AdviseOk(t), UNCHANGED held
  PROVE  Inv'
<1> USE DEF AdviseOk
<1>1. TypeOK' /\ Apart' /\ CallSites'
  BY DEF Inv, TypeOK, LockTypeOK, Sites, Apart, CallSites
<1>2. HeldSafe' /\ FlagsByStep'
  BY Disjoint DEF Inv, TypeOK, LockTypeOK, CallSites, HeldSafe, FlagsByStep
<1>3. Settled'
  BY Disjoint DEF Inv, TypeOK, LockTypeOK, CallSites, FlagsByStep, Settled, Unlocked,
     SizeStaysKnown
<1>4. SizeStaysKnown' /\ Accounted'
  BY DEF Inv, TypeOK, LockTypeOK, CallSites, FlagsByStep, SizeStaysKnown, Accounted
<1> QED
  BY <1>1, <1>2, <1>3, <1>4 DEF Inv

LEMMA AdviseFailsInv ==
  ASSUME Inv, NEW t \in Threads, AdviseFails(t), UNCHANGED held
  PROVE  Inv'
<1> USE DEF AdviseFails, Walked
<1>1. TypeOK' /\ Apart' /\ CallSites'
  BY DEF Inv, TypeOK, LockTypeOK, Sites, Apart, CallSites
<1>2. HeldSafe' /\ FlagsByStep'
  BY Disjoint DEF Inv, TypeOK, LockTypeOK, CallSites, HeldSafe, FlagsByStep
<1>3. Settled'
  BY Disjoint DEF Inv, TypeOK, LockTypeOK, CallSites, FlagsByStep, Settled, Unlocked,
     SizeStaysKnown
<1>4. SizeStaysKnown' /\ Accounted'
  BY DEF Inv, TypeOK, LockTypeOK, CallSites, FlagsByStep, SizeStaysKnown, Accounted
<1> QED
  BY <1>1, <1>2, <1>3, <1>4 DEF Inv

LEMMA MunlockOkInv ==
  ASSUME Inv, NEW t \in Threads, MunlockOk(t), UNCHANGED held
  PROVE  Inv'
<1> USE DEF MunlockOk
<1>1. TypeOK' /\ Apart' /\ CallSites'
  BY DEF Inv, TypeOK, LockTypeOK, Sites, Apart, CallSites
<1>2. HeldSafe' /\ FlagsByStep'
  BY Disjoint DEF Inv, TypeOK, LockTypeOK, CallSites, HeldSafe, FlagsByStep
<1>3. Settled'
  BY Disjoint DEF Inv, TypeOK, LockTypeOK, CallSites, FlagsByStep, Settled, Unlocked,
     SizeStaysKnown
<1>4. SizeStaysKnown' /\ Accounted'
  BY DEF Inv, TypeOK, LockTypeOK, CallSites, FlagsByStep, SizeStaysKnown, Accounted
<1> QED
  BY <1>1, <1>2, <1>3, <1>4 DEF Inv

LEMMA MunlockRefusedInv ==
  ASSUME Inv, NEW t \in Threads, MunlockRefused(t), UNCHANGED held
  PROVE  Inv'
<1> USE DEF MunlockRefused
<1>1. TypeOK' /\ Apart' /\ CallSites'
  BY DEF Inv, TypeOK, LockTypeOK, Sites, Apart, CallSites
<1>2. HeldSafe' /\ FlagsByStep'
  BY Disjoint DEF Inv, TypeOK, LockTypeOK, CallSites, HeldSafe, FlagsByStep
<1>3. Settled'
  BY Disjoint DEF Inv, TypeOK, LockTypeOK, CallSites, FlagsByStep, Settled, Unlocked,
     SizeStaysKnown
<1>4. SizeStaysKnown' /\ Accounted'
  BY DEF Inv, TypeOK, LockTypeOK, CallSites, FlagsByStep, SizeStaysKnown, Accounted
<1> QED
  BY <1>1, <1>2, <1>3, <1>4 DEF Inv

LEMMA DodumpOkInv ==
  ASSUME Inv, NEW t \in Threads, DodumpOk(t), UNCHANGED held
  PROVE  Inv'
<1> USE DEF DodumpOk
<1>1. TypeOK' /\ Apart' /\ CallSites'
  BY DEF Inv, TypeOK, LockTypeOK, Sites, Apart, CallSites
<1>2. HeldSafe' /\ FlagsByStep'
  BY Disjoint DEF Inv, TypeOK, LockTypeOK, CallSites, HeldSafe, FlagsByStep
<1>3. Settled'
  BY Disjoint DEF Inv, TypeOK, LockTypeOK, CallSites, FlagsByStep, Settled, Unlocked,
     SizeStaysKnown
<1>4. SizeStaysKnown' /\ Accounted'
  BY DEF Inv, TypeOK, LockTypeOK, CallSites, FlagsByStep, SizeStaysKnown, Accounted
<1> QED
  BY <1>1, <1>2, <1>3, <1>4 DEF Inv

LEMMA DodumpFailsInv ==
  ASSUME Inv, NEW t \in Threads, DodumpFails(t), UNCHANGED held
  PROVE  Inv'
<1> USE DEF DodumpFails, Walked
<1>1. TypeOK' /\ Apart' /\ CallSites'
  BY DEF Inv, TypeOK, LockTypeOK, Sites, Apart, CallSites
<1>2. HeldSafe' /\ FlagsByStep'
  BY Disjoint DEF Inv, TypeOK, LockTypeOK, CallSites, HeldSafe, FlagsByStep
<1>3. Settled'
  BY Disjoint DEF Inv, TypeOK, LockTypeOK, CallSites, FlagsByStep, Settled, Unlocked,
     SizeStaysKnown
<1>4. SizeStaysKnown' /\ Accounted'
  BY DEF Inv, TypeOK, LockTypeOK, CallSites, FlagsByStep, SizeStaysKnown, Accounted
<1> QED
  BY <1>1, <1>2, <1>3, <1>4 DEF Inv

LEMMA LibStepInv ==
  ASSUME Inv, NEW t \in Threads, Step(t)
  PROVE  Inv'
BY LoadCacheInv, AuxvOpensInv, AuxvNotOpenedInv, AuxvInterruptedInv, AuxvReadInv,
   AuxvFailsInv, MlockOkInv, MlockRefusedInv, AdviseOkInv, AdviseFailsInv, MunlockOkInv, MunlockRefusedInv, DodumpOkInv, DodumpFailsInv
DEF Step, LibStep

-----------------------------------------------------------------------------
(* Steps of the callers. *)

USE DEF Call, CallLock, CallUnlock, Return, Ended

\* A call may begin only when the thread is in none; its pages are the caller's own
\* and it holds none of them, so any flag on them is what a refusal left.
LEMMA LockCalledInv ==
  ASSUME Inv, NEW t \in Threads, LockCalled(t)
  PROVE  Inv'
<1>1. PICK R \in Ranges(t) : R \cap UNION held[t] = {} /\ CallLock(t, R)
  BY DEF LockCalled
<1>2. UNCHANGED <<held, mlocked, dontdump, cached, refused, tries>>
  BY <1>1 DEF LockCalled
<1>3. R \in SUBSET Owned[t] /\ R \in SUBSET Pages /\ rng[t] = {}
  BY <1>1 DEF Ranges, Inv, CallSites
<1>4. \A S \in held[t] : \A p \in S : p \notin R
  BY <1>1
<1>5. TypeOK' /\ Apart' /\ CallSites'
  <2>1. TypeOK' /\ CallSites'
    BY <1>1, <1>2, <1>3 DEF Inv, TypeOK, LockTypeOK, Sites, Ops, CallSites
  <2>2. \A u \in Threads : rng'[u] = IF u = t THEN R ELSE rng[u]
    BY <1>1 DEF Inv, TypeOK, LockTypeOK
  <2>3. Apart'
    BY <1>2, <1>3, <1>4, <2>2 DEF Inv, Apart
  <2> QED
    BY <2>1, <2>3
<1>6. HeldSafe' /\ FlagsByStep' /\ SizeStaysKnown'
  BY <1>1, <1>2, <1>3 DEF Inv, TypeOK, LockTypeOK, HeldSafe, FlagsByStep, SizeStaysKnown
<1>7. \A p \in R : p \in mlocked \/ p \in dontdump => p \in refused
  <2> SUFFICES ASSUME NEW p \in R, p \in mlocked \cup dontdump PROVE p \in refused
    OBVIOUS
  <2>1. \A u \in Threads : p \notin rng[u] /\ \A S \in held[u] : p \notin S
    BY <1>3, <1>4 DEF Inv, Apart
  <2> QED
    BY <2>1 DEF Inv, Accounted
<1>8. Settled' /\ Accounted'
  BY <1>1, <1>2, <1>3, <1>7 DEF Inv, TypeOK, LockTypeOK, Settled, Unlocked, Accounted
<1> QED
  BY <1>5, <1>6, <1>8 DEF Inv

LEMMA UnlockCalledInv ==
  ASSUME Inv, NEW t \in Threads, UnlockCalled(t)
  PROVE  Inv'
<1>1. PICK R \in Ranges(t) :
        /\ R \in held[t] \/ R \cap UNION held[t] = {}
        /\ CallUnlock(t, R)
        /\ held' = [held EXCEPT ![t] = @ \ {R}]
  BY DEF UnlockCalled
<1>2. UNCHANGED <<mlocked, dontdump, cached, refused, tries>>
  BY <1>1
<1>3. R \in SUBSET Owned[t] /\ R \in SUBSET Pages /\ rng[t] = {}
  BY <1>1 DEF Ranges, Inv, CallSites
<1>4. \A S \in held[t] \ {R} : \A p \in S : p \notin R
  BY <1>1 DEF Inv, Apart
<1>5. TypeOK' /\ Apart' /\ CallSites'
  <2>1. TypeOK' /\ CallSites'
    BY <1>1, <1>2, <1>3 DEF Inv, TypeOK, LockTypeOK, Sites, Ops, CallSites
  <2>2. /\ \A u \in Threads : held'[u] = IF u = t THEN held[t] \ {R} ELSE held[u]
        /\ \A u \in Threads : rng'[u] = IF u = t THEN R ELSE rng[u]
    BY <1>1 DEF Inv, TypeOK, LockTypeOK
  <2>3. Apart'
    BY <1>3, <1>4, <2>2 DEF Inv, Apart
  <2> QED
    BY <2>1, <2>3
<1>6. HeldSafe' /\ FlagsByStep' /\ SizeStaysKnown'
  BY <1>1, <1>2, <1>3 DEF Inv, TypeOK, LockTypeOK, HeldSafe, FlagsByStep, SizeStaysKnown
<1>7. Settled' /\ Accounted'
  BY <1>1, <1>2, <1>3 DEF Inv, TypeOK, LockTypeOK, Settled, Unlocked, Accounted
<1> QED
  BY <1>5, <1>6, <1>7 DEF Inv

LEMMA ReturnedInv ==
  ASSUME Inv, NEW t \in Threads, Returned(t)
  PROVE  Inv'
<1>1. UNCHANGED <<mlocked, dontdump, cached, refused, tries>>
  BY DEF Returned
<1>2. TypeOK' /\ Apart' /\ CallSites'
  BY <1>1 DEF Returned, Inv, TypeOK, LockTypeOK, Sites, Ops, Apart, CallSites
<1>3. HeldSafe' /\ FlagsByStep' /\ SizeStaysKnown'
  BY <1>1 DEF Returned, Inv, TypeOK, LockTypeOK, HeldSafe, FlagsByStep, SizeStaysKnown
<1>4. Settled' /\ Accounted'
  BY <1>1 DEF Returned, Inv, TypeOK, LockTypeOK, CallSites, Settled, Unlocked, Accounted
<1> QED
  BY <1>2, <1>3, <1>4 DEF Inv

\* Every step of a thread, and every stutter, keeps the invariant.
LEMMA StepInv == Inv /\ [Next]_vars => Inv'
<1> SUFFICES ASSUME Inv, [Next]_vars PROVE Inv'
  OBVIOUS
<1>1. ASSUME NEW t \in Threads,
             LockCalled(t) \/ UnlockCalled(t) \/ Step(t) \/ Returned(t)
      PROVE  Inv'
  BY <1>1, LockCalledInv, UnlockCalledInv, LibStepInv, ReturnedInv
<1>2. CASE UNCHANGED vars
  BY <1>2 DEF vars, lockVars, Inv, TypeOK, LockTypeOK, Apart, CallSites, HeldSafe,
    FlagsByStep, Settled, Unlocked, SizeStaysKnown, Accounted
<1> QED
  BY <1>1, <1>2 DEF Next

\* In every reachable state: where each call is decides which flags its pages have, and the
\* pages a caller was told are protected have both.
THEOREM InvAlways == Spec => []Inv
<1>1. Init => Inv
  BY InitInv
<1>2. Inv /\ [Next]_vars => Inv'
  BY StepInv
<1> QED
  BY <1>1, <1>2, PTL DEF Spec

\* Ok from lock_range is a promise that lasts: no interleaving with the calls of
\* other threads, no failure path and no refusal ends it before unlock_range does.
THEOREM ProtectedAlways == Spec => []HeldIsProtected
<1>1. Inv => HeldIsProtected
  BY DEF Inv, HeldSafe, HeldIsProtected, HeldPages
<1> QED
  BY <1>1, InvAlways, PTL

\* Every flag on a page is accounted for by a caller that holds it, by a call that
\* works on it, or by a refusal of the kernel.
THEOREM NothingKeptAlways == Spec => []NothingKept
<1>1. Inv => NothingKept
  BY DEF Inv, Accounted, NothingKept, HeldPages, InFlight
<1> QED
  BY <1>1, InvAlways, PTL

\* munlock comes before MADV_DODUMP on every path: only a call at "dodump" makes a
\* page dumpable, and there its range is unlocked.
THEOREM UnlockBeforeDumpAlways == Spec => UnlockBeforeDump
<1> DEFINE Ordered == \A p \in dontdump \ dontdump' : p \notin mlocked'
<1>1. Inv /\ [Next]_vars => [Ordered]_vars
  <2> SUFFICES ASSUME Inv, Next PROVE Ordered
    OBVIOUS
  <2>1. PICK t \in Threads :
          LockCalled(t) \/ UnlockCalled(t) \/ Step(t) \/ Returned(t)
    BY DEF Next
  <2>2. CASE DodumpOk(t)
    BY <2>2 DEF DodumpOk, Inv, FlagsByStep
  <2>3. CASE DodumpFails(t)
    BY <2>3 DEF DodumpFails, Walked, Inv, FlagsByStep
  <2>4. CASE ~DodumpOk(t) /\ ~DodumpFails(t)
    <3>1. dontdump \subseteq dontdump'
      BY <2>1, <2>4 DEF LockCalled, UnlockCalled, Returned, Step, LibStep, LoadCache,
        AuxvOpens, AuxvNotOpened, AuxvInterrupted, AuxvRead, AuxvFails, MlockOk, MlockRefused, AdviseOk, AdviseFails, MunlockOk,
        MunlockRefused
    <3> QED
      BY <3>1
  <2> QED
    BY <2>2, <2>3, <2>4
<1>2. [][Ordered]_vars => UnlockBeforeDump
  BY DEF UnlockBeforeDump
<1> QED
  BY <1>1, <1>2, InvAlways, PTL DEF Spec
=============================================================================
