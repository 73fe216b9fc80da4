-------------------------- MODULE LockedKeyProofs --------------------------
(***************************************************************************)
(* For any number of threads, pages and keys, any lock limit and any       *)
(* number of bit flips.  With Inv: LockedKey is type correct, key material *)
(* is only ever in locked and dump-excluded pages, and pages are erased    *)
(* before they are freed.  With Inv and Duties, what a call still owes: a  *)
(* released page is restored, tag buffers are wiped, and the integrity     *)
(* check says yes only of a key that was intact.  With both, every step is *)
(* a step of KeyVault or none.                                             *)
(***************************************************************************)
EXTENDS LockedKey, TLAPS

\* A thread in one of these has a Page of its own.
Owning == {"new_alloc", "new_lock", "new_copy", "new_tag", "new_wipe"}
            \cup DropSites

\* A Page belongs to the one thread that builds or drops it.
PageOwned ==
  /\ \A t \in Threads :
       pc[t] \in Owning => page[t] \in Pages /\ owner[page[t]] = "page"
  /\ \A t, u \in Threads :
       t # u /\ pc[t] \in Owning /\ pc[u] \in Owning => page[t] # page[u]

\* A borrowed page stays in place.
ReadersSeeAKey ==
  \A t \in Threads : pc[t] \in ReadSites => page[t] \in Pages

\* A thread is inside the lock library only where new and drop call it, and
\* then on its own page.
CallMatches(t) ==
  /\ pc[t] = "new_size" => /\ op[t] = "page_size" /\ rng[t] = {}
                           /\ at[t] \in {"size", "auxv", "read", "ok", "err"}
  /\ pc[t] = "new_lock" => op[t] = "lock_range" /\ rng[t] = {page[t]} /\ at[t] # "idle"
  /\ pc[t] = "drop_unlock" => /\ op[t] = "unlock_range" /\ rng[t] = {page[t]}
                              /\ at[t] \in {"munlock", "dodump", "ok"}
  /\ pc[t] \notin {"new_size", "new_lock", "drop_unlock"} => at[t] = "idle"

CallsMatch == \A t \in Threads : CallMatches(t)

Protected(p) == p \in mlocked /\ p \in dontdump

\* The flags are there while key bytes are, from before they are written.
FlagsHeld ==
  /\ \A t \in Threads :
       /\ pc[t] \in {"new_copy", "new_tag", "new_wipe", "drop_wipe"}
            => Protected(page[t])
       /\ pc[t] = "new_lock" /\ at[t] = "ok" => Protected(page[t])
       /\ pc[t] = "new_lock" /\ at[t] = "dontdump" => page[t] \in mlocked
  /\ \A p \in Pages : owner[p] \in {"key", "forgotten"} => Protected(p)

Clean(p) == key[p] = NoKey /\ tag[p] = NoKey

\* Key material is in the page of a LockedKey, or of a thread between the copy
\* of the key and the end of new, or before the wipe of drop.
Placed ==
  \A p \in Pages : Clean(p) \/ owner[p] \in {"key", "forgotten"} \/
    \E t \in Threads : page[t] = p /\ pc[t] \in {"new_tag", "new_wipe", "drop_wipe"}

Inv == TypeOK /\ PageOwned /\ ReadersSeeAKey /\ CallsMatch /\ FlagsHeld /\ Placed

\* All pages are free.
LEMMA InitInv == Init => Inv
<1> SUFFICES ASSUME Init PROVE Inv
  OBVIOUS
<1> USE LockAssumption, KeyAssumption DEF Init, LockInit
<1>1. TypeOK
  <2>1. LockTypeOK
    <3>1. 0 \in 0..MaxRetries - 1
      OBVIOUS
    <3> QED
      BY <3>1 DEF LockTypeOK, Ops, Sites
  <2>2. local \in [Threads -> Tags]
    BY DEF Tags, NoTag, TagOf
  <2> QED
    BY <2>1, <2>2 DEF TypeOK, Owners, Regions
<1>2. PageOwned /\ ReadersSeeAKey
  BY DEF PageOwned, ReadersSeeAKey, Owning, DropSites, ReadSites
<1>3. CallsMatch /\ FlagsHeld /\ Placed
  BY DEF CallsMatch, CallMatches, FlagsHeld, Placed, Clean
<1> QED
  BY <1>1, <1>2, <1>3 DEF Inv

LEMMA LibCallInv ==
  ASSUME NEW t \in Threads, Inv, LibCall(t)
  PROVE  Inv'
<1> USE LockAssumption, KeyAssumption
<1>1. LibStep(t)
  BY DEF LibCall
<1>2. UNCHANGED <<owner, key, tag, flipped, pc, page, arg, local, verdict, saw,
                  faults, panics, exposed>>
  BY DEF LibCall, keyVars
<1>3. TypeOK /\ PageOwned /\ ReadersSeeAKey /\ CallsMatch /\ FlagsHeld /\ Placed
  BY DEF Inv
<1>4. TypeOK'
  <2>1. CASE LoadCache(t)
    BY <1>2, <1>3, <2>1
    DEF LoadCache, TypeOK, LockTypeOK, Sites, Ops, Goto, kernelVars, Walked,
        SizeKnown, SizeUnknown, Released
  <2>2. CASE AuxvOpens(t)
    BY <1>2, <1>3, <2>2
    DEF AuxvOpens, TypeOK, LockTypeOK, Sites, Ops, Goto, kernelVars, Walked,
        SizeKnown, SizeUnknown, Released
  <2>3. CASE AuxvNotOpened(t)
    BY <1>2, <1>3, <2>3
    DEF AuxvNotOpened, TypeOK, LockTypeOK, Sites, Ops, Goto, kernelVars, Walked,
        SizeKnown, SizeUnknown, Released
  <2>4. CASE AuxvInterrupted(t)
    BY <1>2, <1>3, <2>4
    DEF AuxvInterrupted, TypeOK, LockTypeOK, Sites, Ops, Goto, kernelVars, Walked,
        SizeKnown, SizeUnknown, Released
  <2>5. CASE AuxvRead(t)
    BY <1>2, <1>3, <2>5
    DEF AuxvRead, TypeOK, LockTypeOK, Sites, Ops, Goto, kernelVars, Walked,
        SizeKnown, SizeUnknown, Released
  <2>6. CASE AuxvFails(t)
    BY <1>2, <1>3, <2>6
    DEF AuxvFails, TypeOK, LockTypeOK, Sites, Ops, Goto, kernelVars, Walked,
        SizeKnown, SizeUnknown, Released
  <2>7. CASE MlockOk(t)
    BY <1>2, <1>3, <2>7
    DEF MlockOk, TypeOK, LockTypeOK, Sites, Ops, Goto, kernelVars, Walked,
        SizeKnown, SizeUnknown, Released
  <2>8. CASE MlockRefused(t)
    BY <1>2, <1>3, <2>8
    DEF MlockRefused, TypeOK, LockTypeOK, Sites, Ops, Goto, kernelVars, Walked,
        SizeKnown, SizeUnknown, Released
  <2>9. CASE AdviseOk(t)
    BY <1>2, <1>3, <2>9
    DEF AdviseOk, TypeOK, LockTypeOK, Sites, Ops, Goto, kernelVars, Walked,
        SizeKnown, SizeUnknown, Released
  <2>10. CASE AdviseFails(t)
    BY <1>2, <1>3, <2>10
    DEF AdviseFails, TypeOK, LockTypeOK, Sites, Ops, Goto, kernelVars, Walked,
        SizeKnown, SizeUnknown, Released
  <2>11. CASE MunlockOk(t)
    BY <1>2, <1>3, <2>11
    DEF MunlockOk, TypeOK, LockTypeOK, Sites, Ops, Goto, kernelVars, Walked,
        SizeKnown, SizeUnknown, Released
  <2>12. CASE MunlockRefused(t)
    BY <1>2, <1>3, <2>12
    DEF MunlockRefused, TypeOK, LockTypeOK, Sites, Ops, Goto, kernelVars, Walked,
        SizeKnown, SizeUnknown, Released
  <2>13. CASE DodumpOk(t)
    BY <1>2, <1>3, <2>13
    DEF DodumpOk, TypeOK, LockTypeOK, Sites, Ops, Goto, kernelVars, Walked,
        SizeKnown, SizeUnknown, Released
  <2>14. CASE DodumpFails(t)
    BY <1>2, <1>3, <2>14
    DEF DodumpFails, TypeOK, LockTypeOK, Sites, Ops, Goto, kernelVars, Walked,
        SizeKnown, SizeUnknown, Released
  <2> QED
    BY <1>1, <2>1, <2>2, <2>3, <2>4, <2>5, <2>6, <2>7, <2>8, <2>9,
       <2>10, <2>11, <2>12, <2>13, <2>14 DEF LibStep
<1>5. PageOwned'
  BY <1>2, <1>3 DEF PageOwned
<1>6. ReadersSeeAKey'
  BY <1>2, <1>3 DEF ReadersSeeAKey
<1>7. Placed'
  BY <1>2, <1>3 DEF Placed, Clean
<1>8. CallsMatch'
  <2>1. CASE LoadCache(t)
    BY <1>2, <1>3, <2>1
    DEF LoadCache, CallsMatch, CallMatches, TypeOK, LockTypeOK, Sites, Ops, Goto, kernelVars,
        SizeKnown, SizeUnknown, Released
  <2>2. CASE AuxvOpens(t)
    BY <1>2, <1>3, <2>2
    DEF AuxvOpens, CallsMatch, CallMatches, TypeOK, LockTypeOK, Sites, Ops, Goto, kernelVars,
        SizeKnown, SizeUnknown, Released
  <2>3. CASE AuxvNotOpened(t)
    BY <1>2, <1>3, <2>3
    DEF AuxvNotOpened, CallsMatch, CallMatches, TypeOK, LockTypeOK, Sites, Ops, Goto, kernelVars,
        SizeKnown, SizeUnknown, Released
  <2>4. CASE AuxvInterrupted(t)
    BY <1>2, <1>3, <2>4
    DEF AuxvInterrupted, CallsMatch, CallMatches, TypeOK, LockTypeOK, Sites, Ops, Goto, kernelVars,
        SizeKnown, SizeUnknown, Released
  <2>5. CASE AuxvRead(t)
    BY <1>2, <1>3, <2>5
    DEF AuxvRead, CallsMatch, CallMatches, TypeOK, LockTypeOK, Sites, Ops, Goto, kernelVars,
        SizeKnown, SizeUnknown, Released
  <2>6. CASE AuxvFails(t)
    BY <1>2, <1>3, <2>6
    DEF AuxvFails, CallsMatch, CallMatches, TypeOK, LockTypeOK, Sites, Ops, Goto, kernelVars,
        SizeKnown, SizeUnknown, Released
  <2>7. CASE MlockOk(t)
    BY <1>2, <1>3, <2>7
    DEF MlockOk, CallsMatch, CallMatches, TypeOK, LockTypeOK, Sites, Ops, Goto, kernelVars,
        SizeKnown, SizeUnknown, Released
  <2>8. CASE MlockRefused(t)
    BY <1>2, <1>3, <2>8
    DEF MlockRefused, CallsMatch, CallMatches, TypeOK, LockTypeOK, Sites, Ops, Goto, kernelVars,
        SizeKnown, SizeUnknown, Released
  <2>9. CASE AdviseOk(t)
    BY <1>2, <1>3, <2>9
    DEF AdviseOk, CallsMatch, CallMatches, TypeOK, LockTypeOK, Sites, Ops, Goto, kernelVars,
        SizeKnown, SizeUnknown, Released
  <2>10. CASE AdviseFails(t)
    BY <1>2, <1>3, <2>10
    DEF AdviseFails, CallsMatch, CallMatches, TypeOK, LockTypeOK, Sites, Ops, Goto, kernelVars,
        SizeKnown, SizeUnknown, Released
  <2>11. CASE MunlockOk(t)
    BY <1>2, <1>3, <2>11
    DEF MunlockOk, CallsMatch, CallMatches, TypeOK, LockTypeOK, Sites, Ops, Goto, kernelVars,
        SizeKnown, SizeUnknown, Released
  <2>12. CASE MunlockRefused(t)
    BY <1>2, <1>3, <2>12
    DEF MunlockRefused, CallsMatch, CallMatches, TypeOK, LockTypeOK, Sites, Ops, Goto, kernelVars,
        SizeKnown, SizeUnknown, Released
  <2>13. CASE DodumpOk(t)
    BY <1>2, <1>3, <2>13
    DEF DodumpOk, CallsMatch, CallMatches, TypeOK, LockTypeOK, Sites, Ops, Goto, kernelVars,
        SizeKnown, SizeUnknown, Released
  <2>14. CASE DodumpFails(t)
    BY <1>2, <1>3, <2>14
    DEF DodumpFails, CallsMatch, CallMatches, TypeOK, LockTypeOK, Sites, Ops, Goto, kernelVars,
        SizeKnown, SizeUnknown, Released
  <2> QED
    BY <1>1, <2>1, <2>2, <2>3, <2>4, <2>5, <2>6, <2>7, <2>8, <2>9,
       <2>10, <2>11, <2>12, <2>13, <2>14 DEF LibStep
\* The call works on the page of t, which no LockedKey and no other thread has.
<1>9. /\ rng[t] = {} \/ (rng[t] = {page[t]} /\ pc[t] \in {"new_lock", "drop_unlock"})
      /\ \A u \in Threads : u # t /\ pc[u] \in Owning => page[u] \notin rng[t]
      /\ \A p \in Pages : owner[p] # "page" => p \notin rng[t]
  <2>1. at[t] # "idle"
    BY <1>1 DEF LibStep, LoadCache, AuxvOpens, AuxvNotOpened, AuxvInterrupted, AuxvRead,
      AuxvFails, MlockOk, MlockRefused,
      AdviseOk, AdviseFails, MunlockOk, MunlockRefused, DodumpOk, DodumpFails
  <2>2. rng[t] = {} \/ (rng[t] = {page[t]} /\ pc[t] \in {"new_lock", "drop_unlock"})
    BY <1>3, <2>1 DEF CallsMatch, CallMatches
  <2> QED
    BY <1>3, <2>2 DEF PageOwned, Owning, DropSites
<1>10. FlagsHeld'
  <2>1. CASE LoadCache(t)
    BY <1>2, <1>3, <1>9, <2>1
    DEF LoadCache, FlagsHeld, Protected, CallsMatch, CallMatches, TypeOK, LockTypeOK, Sites,
        Ops, Owning, DropSites, Goto, kernelVars, Walked, SizeKnown, SizeUnknown, Released
  <2>2. CASE AuxvOpens(t)
    BY <1>2, <1>3, <1>9, <2>2
    DEF AuxvOpens, FlagsHeld, Protected, CallsMatch, CallMatches, TypeOK, LockTypeOK, Sites,
        Ops, Owning, DropSites, Goto, kernelVars, Walked, SizeKnown, SizeUnknown, Released
  <2>3. CASE AuxvNotOpened(t)
    BY <1>2, <1>3, <1>9, <2>3
    DEF AuxvNotOpened, FlagsHeld, Protected, CallsMatch, CallMatches, TypeOK, LockTypeOK, Sites,
        Ops, Owning, DropSites, Goto, kernelVars, Walked, SizeKnown, SizeUnknown, Released
  <2>4. CASE AuxvInterrupted(t)
    BY <1>2, <1>3, <1>9, <2>4
    DEF AuxvInterrupted, FlagsHeld, Protected, CallsMatch, CallMatches, TypeOK, LockTypeOK, Sites,
        Ops, Owning, DropSites, Goto, kernelVars, Walked, SizeKnown, SizeUnknown, Released
  <2>5. CASE AuxvRead(t)
    BY <1>2, <1>3, <1>9, <2>5
    DEF AuxvRead, FlagsHeld, Protected, CallsMatch, CallMatches, TypeOK, LockTypeOK, Sites,
        Ops, Owning, DropSites, Goto, kernelVars, Walked, SizeKnown, SizeUnknown, Released
  <2>6. CASE AuxvFails(t)
    BY <1>2, <1>3, <1>9, <2>6
    DEF AuxvFails, FlagsHeld, Protected, CallsMatch, CallMatches, TypeOK, LockTypeOK, Sites,
        Ops, Owning, DropSites, Goto, kernelVars, Walked, SizeKnown, SizeUnknown, Released
  <2>7. CASE MlockOk(t)
    BY <1>2, <1>3, <1>9, <2>7
    DEF MlockOk, FlagsHeld, Protected, CallsMatch, CallMatches, TypeOK, LockTypeOK, Sites,
        Ops, Owning, DropSites, Goto, kernelVars, Walked, SizeKnown, SizeUnknown, Released
  <2>8. CASE MlockRefused(t)
    BY <1>2, <1>3, <1>9, <2>8
    DEF MlockRefused, FlagsHeld, Protected, CallsMatch, CallMatches, TypeOK, LockTypeOK, Sites,
        Ops, Owning, DropSites, Goto, kernelVars, Walked, SizeKnown, SizeUnknown, Released
  <2>9. CASE AdviseOk(t)
    BY <1>2, <1>3, <1>9, <2>9
    DEF AdviseOk, FlagsHeld, Protected, CallsMatch, CallMatches, TypeOK, LockTypeOK, Sites,
        Ops, Owning, DropSites, Goto, kernelVars, Walked, SizeKnown, SizeUnknown, Released
  <2>10. CASE AdviseFails(t)
    BY <1>2, <1>3, <1>9, <2>10
    DEF AdviseFails, FlagsHeld, Protected, CallsMatch, CallMatches, TypeOK, LockTypeOK, Sites,
        Ops, Owning, DropSites, Goto, kernelVars, Walked, SizeKnown, SizeUnknown, Released
  <2>11. CASE MunlockOk(t)
    BY <1>2, <1>3, <1>9, <2>11
    DEF MunlockOk, FlagsHeld, Protected, CallsMatch, CallMatches, TypeOK, LockTypeOK, Sites,
        Ops, Owning, DropSites, Goto, kernelVars, Walked, SizeKnown, SizeUnknown, Released
  <2>12. CASE MunlockRefused(t)
    BY <1>2, <1>3, <1>9, <2>12
    DEF MunlockRefused, FlagsHeld, Protected, CallsMatch, CallMatches, TypeOK, LockTypeOK, Sites,
        Ops, Owning, DropSites, Goto, kernelVars, Walked, SizeKnown, SizeUnknown, Released
  <2>13. CASE DodumpOk(t)
    BY <1>2, <1>3, <1>9, <2>13
    DEF DodumpOk, FlagsHeld, Protected, CallsMatch, CallMatches, TypeOK, LockTypeOK, Sites,
        Ops, Owning, DropSites, Goto, kernelVars, Walked, SizeKnown, SizeUnknown, Released
  <2>14. CASE DodumpFails(t)
    BY <1>2, <1>3, <1>9, <2>14
    DEF DodumpFails, FlagsHeld, Protected, CallsMatch, CallMatches, TypeOK, LockTypeOK, Sites,
        Ops, Owning, DropSites, Goto, kernelVars, Walked, SizeKnown, SizeUnknown, Released
  <2> QED
    BY <1>1, <2>1, <2>2, <2>3, <2>4, <2>5, <2>6, <2>7, <2>8, <2>9,
       <2>10, <2>11, <2>12, <2>13, <2>14 DEF LibStep
<1> QED
  BY <1>4, <1>5, <1>6, <1>7, <1>8, <1>10 DEF Inv

USE LockAssumption, KeyAssumption DEF Go, Leave, Wipe, Call, CallPageSize, CallLock, CallUnlockWith, Return, Goto, Ended,
  lockVars, memory, frame, world

LEMMA NewInv ==
  ASSUME NEW t \in Threads, NEW k \in Keys, Inv, New(t, k)
  PROVE  Inv'
<1>1. TypeOK'
  BY DEF New, Inv, TypeOK, LockTypeOK, Ops, Sites, Owners, Regions, NewSites, DropSites,
         ReadSites, PageOwned, ReadersSeeAKey, Owning
<1>2. PageOwned' /\ ReadersSeeAKey' /\ CallsMatch' /\ FlagsHeld' /\ Placed'
  BY DEF New, Inv, TypeOK, PageOwned, Owning, DropSites, ReadersSeeAKey, ReadSites,
         LockTypeOK, Sites, CallsMatch, CallMatches, FlagsHeld, Protected, Placed, Clean
<1> QED
  BY <1>1, <1>2 DEF Inv

LEMMA PageRefusedInv ==
  ASSUME NEW t \in Threads, Inv, PageRefused(t)
  PROVE  Inv'
<1>1. TypeOK'
  BY DEF PageRefused, Inv, TypeOK, LockTypeOK, Ops, Sites, Owners, Regions, NewSites,
         DropSites,          ReadSites, PageOwned, ReadersSeeAKey, Owning
<1>2. PageOwned' /\ ReadersSeeAKey' /\ CallsMatch' /\ FlagsHeld' /\ Placed'
  BY DEF PageRefused, Inv, TypeOK, PageOwned, Owning, DropSites, ReadersSeeAKey,
         ReadSites, LockTypeOK, Sites, CallsMatch, CallMatches, FlagsHeld, Protected,
         Placed, Clean
<1> QED
  BY <1>1, <1>2 DEF Inv

LEMMA PageAllocatedInv ==
  ASSUME NEW t \in Threads, NEW p \in Pages, Inv, PageAllocated(t, p)
  PROVE  Inv'
<1>1. TypeOK'
  BY DEF PageAllocated, Inv, TypeOK, LockTypeOK, Ops, Sites, Owners, Regions, NewSites,
         DropSites,          ReadSites, PageOwned, ReadersSeeAKey, Owning
<1>2. PageOwned' /\ ReadersSeeAKey' /\ CallsMatch' /\ FlagsHeld' /\ Placed'
  BY DEF PageAllocated, Inv, TypeOK, PageOwned, Owning, DropSites, ReadersSeeAKey,
         ReadSites, LockTypeOK, Sites, CallsMatch, CallMatches, FlagsHeld, Protected,
         Placed, Clean
<1> QED
  BY <1>1, <1>2 DEF Inv

LEMMA LockPageInv ==
  ASSUME NEW t \in Threads, Inv, LockPage(t)
  PROVE  Inv'
<1>1. TypeOK'
  BY DEF LockPage, Inv, TypeOK, LockTypeOK, Ops, Sites, Owners, Regions, NewSites,
         DropSites,          ReadSites, PageOwned, ReadersSeeAKey, Owning
<1>2. PageOwned' /\ ReadersSeeAKey' /\ CallsMatch' /\ FlagsHeld' /\ Placed'
  BY DEF LockPage, Inv, TypeOK, PageOwned, Owning, DropSites, ReadersSeeAKey, ReadSites,
         LockTypeOK, Sites, CallsMatch, CallMatches, FlagsHeld, Protected, Placed, Clean
<1> QED
  BY <1>1, <1>2 DEF Inv

LEMMA PageLockedInv ==
  ASSUME NEW t \in Threads, Inv, PageLocked(t)
  PROVE  Inv'
<1>1. TypeOK'
  BY DEF PageLocked, Inv, TypeOK, LockTypeOK, Ops, Sites, Owners, Regions, NewSites,
         DropSites,          ReadSites, PageOwned, ReadersSeeAKey, Owning
<1>2. PageOwned' /\ ReadersSeeAKey' /\ CallsMatch' /\ FlagsHeld' /\ Placed'
  BY DEF PageLocked, Inv, TypeOK, PageOwned, Owning, DropSites, ReadersSeeAKey,
         ReadSites, LockTypeOK, Sites, CallsMatch, CallMatches, FlagsHeld, Protected,
         Placed, Clean
<1> QED
  BY <1>1, <1>2 DEF Inv

LEMMA CopyKeyInv ==
  ASSUME NEW t \in Threads, Inv, CopyKey(t)
  PROVE  Inv'
<1>1. TypeOK'
  BY DEF CopyKey, Inv, TypeOK, LockTypeOK, Ops, Sites, Owners, Regions, NewSites,
         DropSites,          ReadSites, PageOwned, ReadersSeeAKey, Owning, NoTag, Tags,
         TagOf
<1>2. PageOwned' /\ ReadersSeeAKey' /\ CallsMatch' /\ FlagsHeld' /\ Placed'
  BY DEF CopyKey, Inv, TypeOK, PageOwned, Owning, DropSites, ReadersSeeAKey, ReadSites,
         LockTypeOK, Sites, CallsMatch, CallMatches, FlagsHeld, Protected, Placed, Clean
<1> QED
  BY <1>1, <1>2 DEF Inv

LEMMA CopyTagInv ==
  ASSUME NEW t \in Threads, Inv, CopyTag(t)
  PROVE  Inv'
<1>1. TypeOK'
  BY DEF CopyTag, Inv, TypeOK, LockTypeOK, Ops, Sites, Owners, Regions, NewSites,
         DropSites,          ReadSites, PageOwned, ReadersSeeAKey, Owning, NoTag, Tags,
         TagOf
<1>2. PageOwned' /\ ReadersSeeAKey' /\ CallsMatch' /\ FlagsHeld' /\ Placed'
  BY DEF CopyTag, Inv, TypeOK, PageOwned, Owning, DropSites, ReadersSeeAKey, ReadSites,
         LockTypeOK, Sites, CallsMatch, CallMatches, FlagsHeld, Protected, Placed, Clean
<1> QED
  BY <1>1, <1>2 DEF Inv

LEMMA NewReturnsInv ==
  ASSUME NEW t \in Threads, Inv, NewReturns(t)
  PROVE  Inv'
<1>1. TypeOK'
  BY DEF NewReturns, Inv, TypeOK, LockTypeOK, Ops, Sites, Owners, Regions, NewSites,
         DropSites,          ReadSites, PageOwned, ReadersSeeAKey, Owning, NoTag, Tags,
         TagOf
<1>2. PageOwned' /\ ReadersSeeAKey' /\ CallsMatch' /\ FlagsHeld' /\ Placed'
  BY DEF NewReturns, Inv, TypeOK, PageOwned, Owning, DropSites, ReadersSeeAKey,
         ReadSites, LockTypeOK, Sites, CallsMatch, CallMatches, FlagsHeld, Protected,
         Placed, Clean
<1> QED
  BY <1>1, <1>2 DEF Inv

LEMMA DropStartsInv ==
  ASSUME NEW t \in Threads, NEW p \in Pages, Inv, DropStarts(t, p)
  PROVE  Inv'
<1>1. TypeOK'
  BY DEF DropStarts, Inv, TypeOK, LockTypeOK, Ops, Sites, Owners, Regions, NewSites,
         DropSites,          ReadSites, PageOwned, ReadersSeeAKey, Owning
<1>2. PageOwned' /\ ReadersSeeAKey' /\ CallsMatch' /\ FlagsHeld' /\ Placed'
  BY DEF DropStarts, Inv, TypeOK, PageOwned, Owning, DropSites, ReadersSeeAKey,
         ReadSites, LockTypeOK, Sites, CallsMatch, CallMatches, FlagsHeld, Protected,
         Placed, Clean
<1> QED
  BY <1>1, <1>2 DEF Inv

LEMMA DropWipeInv ==
  ASSUME NEW t \in Threads, Inv, DropWipe(t)
  PROVE  Inv'
<1>1. TypeOK'
  BY DEF DropWipe, Inv, TypeOK, LockTypeOK, Ops, Sites, Owners, Regions, NewSites,
         DropSites,          ReadSites, PageOwned, ReadersSeeAKey, Owning
<1>2. PageOwned' /\ ReadersSeeAKey' /\ CallsMatch' /\ FlagsHeld' /\ Placed'
  BY DEF DropWipe, Inv, TypeOK, PageOwned, Owning, DropSites, ReadersSeeAKey, ReadSites,
         LockTypeOK, Sites, CallsMatch, CallMatches, FlagsHeld, Protected, Placed, Clean
<1> QED
  BY <1>1, <1>2 DEF Inv

LEMMA DropUnlockedInv ==
  ASSUME NEW t \in Threads, Inv, DropUnlocked(t)
  PROVE  Inv'
<1>1. TypeOK'
  BY DEF DropUnlocked, Inv, TypeOK, LockTypeOK, Ops, Sites, Owners, Regions, NewSites,
         DropSites,          ReadSites, PageOwned, ReadersSeeAKey, Owning
<1>2. PageOwned' /\ ReadersSeeAKey' /\ CallsMatch' /\ FlagsHeld' /\ Placed'
  BY DEF DropUnlocked, Inv, TypeOK, PageOwned, Owning, DropSites, ReadersSeeAKey,
         ReadSites, LockTypeOK, Sites, CallsMatch, CallMatches, FlagsHeld, Protected,
         Placed, Clean
<1> QED
  BY <1>1, <1>2 DEF Inv

LEMMA PageWipeInv ==
  ASSUME NEW t \in Threads, Inv, PageWipe(t)
  PROVE  Inv'
<1>1. TypeOK'
  BY DEF PageWipe, Inv, TypeOK, LockTypeOK, Ops, Sites, Owners, Regions, NewSites,
         DropSites,          ReadSites, PageOwned, ReadersSeeAKey, Owning
<1>2. PageOwned' /\ ReadersSeeAKey' /\ CallsMatch' /\ FlagsHeld' /\ Placed'
  BY DEF PageWipe, Inv, TypeOK, PageOwned, Owning, DropSites, ReadersSeeAKey, ReadSites,
         LockTypeOK, Sites, CallsMatch, CallMatches, FlagsHeld, Protected, Placed, Clean
<1> QED
  BY <1>1, <1>2 DEF Inv

LEMMA PageFreeInv ==
  ASSUME NEW t \in Threads, Inv, PageFree(t)
  PROVE  Inv'
<1>1. TypeOK'
  BY DEF PageFree, Inv, TypeOK, LockTypeOK, Ops, Sites, Owners, Regions, NewSites,
         DropSites,          ReadSites, PageOwned, ReadersSeeAKey, Owning
<1>2. PageOwned' /\ ReadersSeeAKey' /\ CallsMatch' /\ FlagsHeld' /\ Placed'
  BY DEF PageFree, Inv, TypeOK, PageOwned, Owning, DropSites, ReadersSeeAKey, ReadSites,
         LockTypeOK, Sites, CallsMatch, CallMatches, FlagsHeld, Protected, Placed, Clean
<1> QED
  BY <1>1, <1>2 DEF Inv

LEMMA AsBytesInv ==
  ASSUME NEW t \in Threads, NEW p \in Pages, Inv, AsBytes(t, p)
  PROVE  Inv'
<1>1. TypeOK'
  BY DEF AsBytes, Inv, TypeOK, LockTypeOK, Ops, Sites, Owners, Regions, NewSites,
         DropSites,          ReadSites, PageOwned, ReadersSeeAKey, Owning
<1>2. PageOwned' /\ ReadersSeeAKey' /\ CallsMatch' /\ FlagsHeld' /\ Placed'
  BY DEF AsBytes, Inv, TypeOK, PageOwned, Owning, DropSites, ReadersSeeAKey, ReadSites,
         LockTypeOK, Sites, CallsMatch, CallMatches, FlagsHeld, Protected, Placed, Clean
<1> QED
  BY <1>1, <1>2 DEF Inv

LEMMA CheckHashInv ==
  ASSUME NEW t \in Threads, Inv, CheckHash(t)
  PROVE  Inv'
<1>1. TypeOK'
  <2>1. page[t] \in Pages
    BY DEF CheckHash, Inv, ReadersSeeAKey, ReadSites
  <2>2. TagOf(key[page[t]], "key" \in flipped[page[t]]) \in Tags
    <3>1. key[page[t]] \in Keys \cup {NoKey}
      BY <2>1 DEF Inv, TypeOK
    <3>2. ("key" \in flipped[page[t]]) \in BOOLEAN
      OBVIOUS
    <3> HIDE DEF Inv
    <3> QED
      BY <3>1, <3>2, Zenon DEF Tags, TagOf
  <2>3. LockTypeOK'
    BY DEF CheckHash, Inv, TypeOK, LockTypeOK
  <2> QED
    BY <2>2, <2>3 DEF CheckHash, Inv, TypeOK, ReadSites
<1>2. PageOwned' /\ ReadersSeeAKey' /\ CallsMatch' /\ FlagsHeld' /\ Placed'
  BY DEF CheckHash, Inv, TypeOK, PageOwned, Owning, DropSites, ReadersSeeAKey,
         ReadSites, LockTypeOK, Sites, CallsMatch, CallMatches, FlagsHeld, Protected,
         Placed, Clean
<1> QED
  BY <1>1, <1>2 DEF Inv

LEMMA CheckEqInv ==
  ASSUME NEW t \in Threads, Inv, CheckEq(t)
  PROVE  Inv'
<1>1. TypeOK'
  BY DEF CheckEq, Inv, TypeOK, LockTypeOK, Ops, Sites, Owners, Regions, NewSites,
         DropSites,          ReadSites, PageOwned, ReadersSeeAKey, Owning
<1>2. PageOwned' /\ ReadersSeeAKey' /\ CallsMatch' /\ FlagsHeld' /\ Placed'
  BY DEF CheckEq, Inv, TypeOK, PageOwned, Owning, DropSites, ReadersSeeAKey, ReadSites,
         LockTypeOK, Sites, CallsMatch, CallMatches, FlagsHeld, Protected, Placed, Clean
<1> QED
  BY <1>1, <1>2 DEF Inv

LEMMA CheckWipeInv ==
  ASSUME NEW t \in Threads, Inv, CheckWipe(t)
  PROVE  Inv'
<1>1. TypeOK'
  BY DEF CheckWipe, Inv, TypeOK, LockTypeOK, Ops, Sites, Owners, Regions, NewSites,
         DropSites,          ReadSites, PageOwned, ReadersSeeAKey, Owning, NoTag, Tags,
         TagOf
<1>2. PageOwned' /\ ReadersSeeAKey' /\ CallsMatch' /\ FlagsHeld' /\ Placed'
  BY DEF CheckWipe, Inv, TypeOK, PageOwned, Owning, DropSites, ReadersSeeAKey,
         ReadSites, LockTypeOK, Sites, CallsMatch, CallMatches, FlagsHeld, Protected,
         Placed, Clean
<1> QED
  BY <1>1, <1>2 DEF Inv

LEMMA CheckPassedInv ==
  ASSUME NEW t \in Threads, Inv, CheckPassed(t)
  PROVE  Inv'
<1>1. TypeOK'
  BY DEF CheckPassed, Inv, TypeOK, LockTypeOK, Ops, Sites, Owners, Regions, NewSites,
         DropSites,          ReadSites, PageOwned, ReadersSeeAKey, Owning
<1>2. PageOwned' /\ ReadersSeeAKey' /\ CallsMatch' /\ FlagsHeld' /\ Placed'
  BY DEF CheckPassed, Inv, TypeOK, PageOwned, Owning, DropSites, ReadersSeeAKey,
         ReadSites, LockTypeOK, Sites, CallsMatch, CallMatches, FlagsHeld, Protected,
         Placed, Clean
<1> QED
  BY <1>1, <1>2 DEF Inv

LEMMA CheckPanicsInv ==
  ASSUME NEW t \in Threads, Inv, CheckPanics(t)
  PROVE  Inv'
<1>1. TypeOK'
  BY DEF CheckPanics, Inv, TypeOK, LockTypeOK, Ops, Sites, Owners, Regions, NewSites,
         DropSites,          ReadSites, PageOwned, ReadersSeeAKey, Owning
<1>2. PageOwned' /\ ReadersSeeAKey' /\ CallsMatch' /\ FlagsHeld' /\ Placed'
  BY DEF CheckPanics, Inv, TypeOK, PageOwned, Owning, DropSites, ReadersSeeAKey,
         ReadSites, LockTypeOK, Sites, CallsMatch, CallMatches, FlagsHeld, Protected,
         Placed, Clean
<1> QED
  BY <1>1, <1>2 DEF Inv

LEMMA ReleaseInv ==
  ASSUME NEW t \in Threads, Inv, Release(t)
  PROVE  Inv'
<1>1. TypeOK'
  BY DEF Release, Inv, TypeOK, LockTypeOK, Ops, Sites, Owners, Regions, NewSites,
         DropSites,          ReadSites, PageOwned, ReadersSeeAKey, Owning
<1>2. PageOwned' /\ ReadersSeeAKey' /\ CallsMatch' /\ FlagsHeld' /\ Placed'
  BY DEF Release, Inv, TypeOK, PageOwned, Owning, DropSites, ReadersSeeAKey, ReadSites,
         LockTypeOK, Sites, CallsMatch, CallMatches, FlagsHeld, Protected, Placed, Clean
<1> QED
  BY <1>1, <1>2 DEF Inv

LEMMA ForgetInv ==
  ASSUME NEW p \in Pages, Inv, Forget(p)
  PROVE  Inv'
<1>1. TypeOK'
  BY DEF Forget, Inv, TypeOK, LockTypeOK, Ops, Sites, Owners, Regions, NewSites,
         DropSites,          ReadSites, PageOwned, ReadersSeeAKey, Owning
<1>2. PageOwned' /\ ReadersSeeAKey' /\ CallsMatch' /\ FlagsHeld' /\ Placed'
  BY DEF Forget, Inv, TypeOK, PageOwned, Owning, DropSites, ReadersSeeAKey, ReadSites,
         LockTypeOK, Sites, CallsMatch, CallMatches, FlagsHeld, Protected, Placed, Clean
<1> QED
  BY <1>1, <1>2 DEF Inv

LEMMA DataAllocatedInv ==
  ASSUME NEW p \in Pages, Inv, DataAllocated(p)
  PROVE  Inv'
<1>1. TypeOK'
  BY DEF DataAllocated, Inv, TypeOK, LockTypeOK, Ops, Sites, Owners, Regions, NewSites,
         DropSites,          ReadSites, PageOwned, ReadersSeeAKey, Owning
<1>2. PageOwned' /\ ReadersSeeAKey' /\ CallsMatch' /\ FlagsHeld' /\ Placed'
  BY DEF DataAllocated, Inv, TypeOK, PageOwned, Owning, DropSites, ReadersSeeAKey,
         ReadSites, LockTypeOK, Sites, CallsMatch, CallMatches, FlagsHeld, Protected,
         Placed, Clean
<1> QED
  BY <1>1, <1>2 DEF Inv

LEMMA DataFreedInv ==
  ASSUME NEW p \in Pages, Inv, DataFreed(p)
  PROVE  Inv'
<1>1. TypeOK'
  BY DEF DataFreed, Inv, TypeOK, LockTypeOK, Ops, Sites, Owners, Regions, NewSites,
         DropSites,          ReadSites, PageOwned, ReadersSeeAKey, Owning
<1>2. PageOwned' /\ ReadersSeeAKey' /\ CallsMatch' /\ FlagsHeld' /\ Placed'
  BY DEF DataFreed, Inv, TypeOK, PageOwned, Owning, DropSites, ReadersSeeAKey,
         ReadSites, LockTypeOK, Sites, CallsMatch, CallMatches, FlagsHeld, Protected,
         Placed, Clean
<1> QED
  BY <1>1, <1>2 DEF Inv

LEMMA FlipInv ==
  ASSUME NEW p \in Pages, NEW r \in Regions, Inv, Flip(p, r)
  PROVE  Inv'
<1>1. TypeOK'
  BY DEF Flip, Inv, TypeOK, LockTypeOK, Ops, Sites, Owners, Regions, NewSites,
         DropSites,          ReadSites, PageOwned, ReadersSeeAKey, Owning
<1>2. PageOwned' /\ ReadersSeeAKey' /\ CallsMatch' /\ FlagsHeld' /\ Placed'
  BY DEF Flip, Inv, TypeOK, PageOwned, Owning, DropSites, ReadersSeeAKey, ReadSites,
         LockTypeOK, Sites, CallsMatch, CallMatches, FlagsHeld, Protected, Placed, Clean
<1> QED
  BY <1>1, <1>2 DEF Inv

LEMMA SwapOutInv ==
  ASSUME NEW p \in Pages, Inv, SwapOut(p)
  PROVE  Inv'
<1>1. TypeOK'
  BY DEF SwapOut, Inv, TypeOK, LockTypeOK, Ops, Sites, Owners, Regions, NewSites,
         DropSites,          ReadSites, PageOwned, ReadersSeeAKey, Owning, Material
<1>2. PageOwned' /\ ReadersSeeAKey' /\ CallsMatch' /\ FlagsHeld' /\ Placed'
  BY DEF SwapOut, Inv, TypeOK, PageOwned, Owning, DropSites, ReadersSeeAKey, ReadSites,
         LockTypeOK, Sites, CallsMatch, CallMatches, FlagsHeld, Protected, Placed, Clean
<1> QED
  BY <1>1, <1>2 DEF Inv

LEMMA CoreDumpInv ==
  ASSUME Inv, CoreDump
  PROVE  Inv'
<1>1. TypeOK'
  BY DEF CoreDump, Inv, TypeOK, LockTypeOK, Ops, Sites, Owners, Regions, NewSites,
         DropSites,          ReadSites, PageOwned, ReadersSeeAKey, Owning, Material
<1>2. PageOwned' /\ ReadersSeeAKey' /\ CallsMatch' /\ FlagsHeld' /\ Placed'
  BY DEF CoreDump, Inv, TypeOK, PageOwned, Owning, DropSites, ReadersSeeAKey, ReadSites,
         LockTypeOK, Sites, CallsMatch, CallMatches, FlagsHeld, Protected, Placed, Clean
<1> QED
  BY <1>1, <1>2 DEF Inv

LEMMA StepInv == Inv /\ [Next]_vars => Inv'
<1> SUFFICES ASSUME Inv, [Next]_vars PROVE Inv'
  OBVIOUS
<1>1. CASE Environment
  <2>1. CASE CoreDump
    BY <2>1, CoreDumpInv
  <2>2. ASSUME NEW p \in Pages,
               Forget(p) \/ DataAllocated(p) \/ DataFreed(p) \/ SwapOut(p)
        PROVE  Inv'
    BY <2>2, ForgetInv, DataAllocatedInv, DataFreedInv, SwapOutInv
  <2>3. ASSUME NEW p \in Pages, NEW r \in Regions, Flip(p, r) PROVE Inv'
    BY <2>3, FlipInv
  <2> QED
    BY <1>1, <2>1, <2>2, <2>3 DEF Environment
<1>2. ASSUME NEW t \in Threads, Caller(t) PROVE Inv'
  BY <1>2, NewInv, DropStartsInv, AsBytesInv DEF Caller
<1>3. ASSUME NEW t \in Threads, Progress(t) PROVE Inv'
  BY <1>3, LibCallInv, PageRefusedInv, PageAllocatedInv, LockPageInv,
     PageLockedInv, CopyKeyInv, CopyTagInv, NewReturnsInv, DropWipeInv,
     DropUnlockedInv, PageWipeInv, PageFreeInv DEF Progress
<1>4. ASSUME NEW t \in Threads, Reading(t) PROVE Inv'
  BY <1>4, CheckHashInv, CheckEqInv, CheckWipeInv, CheckPassedInv,
     CheckPanicsInv, ReleaseInv DEF Reading
<1>5. CASE UNCHANGED vars
  <2>1. TypeOK'
    BY <1>5 DEF vars, keyVars, Inv, TypeOK, LockTypeOK
  <2>2. PageOwned' /\ ReadersSeeAKey' /\ CallsMatch'
    BY <1>5 DEF vars, keyVars, Inv, PageOwned, ReadersSeeAKey, CallsMatch, CallMatches
  <2>3. FlagsHeld' /\ Placed'
    BY <1>5 DEF vars, keyVars, Inv, FlagsHeld, Protected, Placed, Clean
  <2> QED
    BY <2>1, <2>2, <2>3 DEF Inv
<1> QED
  BY <1>1, <1>2, <1>3, <1>4, <1>5 DEF Next

\* The invariant TLC also checked on the small instance holds of every one.
THEOREM InvAlways == Spec => []Inv
<1>1. Init => Inv
  BY InitInv
<1>2. Inv /\ [Next]_vars => Inv'
  BY StepInv
<1> QED
  BY <1>1, <1>2, PTL DEF Spec

\* Every variable of new, as_bytes, drop and the lock library keeps its type.
THEOREM TypeCorrect == Spec => []TypeOK
<1>1. Inv => TypeOK
  BY DEF Inv
<1> QED
  BY <1>1, InvAlways, PTL

\* At every moment of every interleaving, under every refusal of the kernel, a
\* page with key material is locked and excluded from core dumps.
THEOREM ResidencyAlways == Spec => []KeyResidency
<1>1. Inv => KeyResidency
  <2> SUFFICES ASSUME Inv, NEW p \in Pages, ~Clean(p) PROVE Protected(p)
    BY DEF KeyResidency, Material, Clean, Protected
  <2> QED
    BY DEF Inv, Placed, FlagsHeld
<1> QED
  BY <1>1, InvAlways, PTL

\* No page the allocator can hand out holds key material, not even one whose
\* lock the kernel refused to release.
THEOREM ErasedAlways == Spec => []FreedPageIsErased
<1>1. Inv => FreedPageIsErased
  <2> SUFFICES ASSUME Inv, NEW p \in Pages, owner[p] \in {"free", "data"}
               PROVE  Clean(p)
    BY DEF FreedPageIsErased, Material, Clean
  <2>1. \A t \in Threads : pc[t] \in {"new_tag", "new_wipe", "drop_wipe"} => page[t] # p
    BY DEF Inv, PageOwned, Owning, DropSites
  <2> QED
    BY <2>1 DEF Inv, Placed
<1> QED
  BY <1>1, InvAlways, PTL

-----------------------------------------------------------------------------
(* What else new, as_bytes and drop owe their callers, on top of Inv. *)

\* Flags on the page are there by a refusal of the kernel only.
Restored(p) == p \in mlocked \/ p \in dontdump => p \in refused

\* Pages nobody has, and those of a thread before the lock and after the unlock.
Releasing ==
  /\ \A p \in Pages : owner[p] \in {"free", "data"} => Restored(p)
  /\ \A t \in Threads :
       /\ pc[t] \in {"new_alloc", "page_wipe", "page_free"} => Restored(page[t])
       /\ pc[t] = "new_lock" /\ at[t] \in {"size", "auxv", "read", "mlock", "err"}
            => Restored(page[t])
       /\ pc[t] = "drop_unlock" /\ at[t] = "ok" => Restored(page[t])
       /\ pc[t] \in {"new_lock", "drop_unlock"} /\ at[t] = "dodump"
            => page[t] \notin mlocked

\* The stack buffer holds a tag only between its derivation and its wipe.
LocalsWiped ==
  \A t \in Threads :
    pc[t] \notin {"new_tag", "new_wipe", "check_eq", "check_wipe"} => local[t] = NoTag

\* A LockedKey that is read is alive, and new gives it the tag of its key.
Tagged(t) ==
  /\ pc[t] \in ReadSites => owner[page[t]] = "key"
  /\ pc[t] \in NewSites => arg[t] \in Keys
  /\ pc[t] = "new_tag" =>
       key[page[t]] = arg[t] /\ local[t] = TagOf(arg[t], FALSE)
  /\ pc[t] = "new_wipe" => key[page[t]] = arg[t] /\ tag[page[t]] = arg[t]

KeysTagged ==
  /\ \A t \in Threads : Tagged(t)
  /\ \A p \in Pages : owner[p] = "key" => key[p] = tag[p]

\* The check says yes only of a key that was intact, and without a flipped bit it
\* says yes.
Verdicts ==
  /\ \A t \in Threads :
       /\ pc[t] = "check_eq" /\ local[t].bad = FALSE => saw[t]
       /\ pc[t] \in {"check_wipe", "check_end"} /\ verdict[t] => saw[t]
       /\ pc[t] = "using" => saw[t]
  /\ faults = 0 =>
       /\ panics = {}
       /\ \A p \in Pages : flipped[p] = {}
       /\ \A t \in Threads :
            /\ pc[t] = "check_eq" => local[t] = TagOf(key[page[t]], FALSE)
            /\ pc[t] \in {"check_wipe", "check_end"} => verdict[t]

Duties == Releasing /\ LocalsWiped /\ KeysTagged /\ Verdicts

\* The Page a thread builds or drops is no other thread's, nor is it read.
LEMMA Mine ==
  ASSUME Inv, Duties, NEW t \in Threads, pc[t] \in Owning
  PROVE  /\ page[t] \in Pages /\ owner[page[t]] = "page"
         /\ \A u \in Threads : u # t /\ pc[u] \in Owning \cup ReadSites =>
              page[u] \in Pages /\ page[u] # page[t]
BY DEF Inv, PageOwned, ReadersSeeAKey, Duties, KeysTagged, Tagged

\* A free, leaked or data page is no thread's.
LEMMA Nobodys ==
  ASSUME Inv, Duties, NEW p \in Pages, owner[p] \notin {"page", "key"}
  PROVE  \A u \in Threads : pc[u] \in Owning \cup ReadSites => page[u] \in Pages /\ page[u] # p
<1> SUFFICES ASSUME NEW u \in Threads, pc[u] \in Owning \cup ReadSites
             PROVE  page[u] \in Pages /\ page[u] # p
  OBVIOUS
<1>1. CASE pc[u] \in Owning
  BY <1>1 DEF Inv, PageOwned
<1>2. CASE pc[u] \in ReadSites
  BY <1>2 DEF Inv, ReadersSeeAKey, Duties, KeysTagged, Tagged
<1> QED
  BY <1>1, <1>2

\* A step on a page that is nobody else's is nothing to the other threads.
LEMMA OthersTagged ==
  ASSUME Inv, Duties, NEW t \in Threads, NEW p \in Pages,
         \A u \in Threads \ {t} : pc[u] \in Owning \cup ReadSites =>
           page[u] \in Pages /\ page[u] # p,
         \A q \in Pages \ {p} : key'[q] = key[q] /\ tag'[q] = tag[q] /\ owner'[q] = owner[q],
         \A u \in Threads \ {t} : /\ pc'[u] = pc[u] /\ page'[u] = page[u]
                                   /\ arg'[u] = arg[u] /\ local'[u] = local[u]
  PROVE  \A u \in Threads \ {t} : Tagged(u)'
<1> SUFFICES ASSUME NEW u \in Threads \ {t} PROVE Tagged(u)'
  OBVIOUS
<1>1. Tagged(u)
  BY DEF Duties, KeysTagged
<1> QED
  BY <1>1 DEF Tagged, Owning

\* No thread has any duty yet.
LEMMA InitDuties == Init => Duties
BY DEF Init, LockInit, Duties, Releasing, Restored, LocalsWiped, KeysTagged, Tagged,
   Verdicts,
  ReadSites, NewSites

\* A step of the library works on the page of t, which nobody else has.
LEMMA LibCallDuties ==
  ASSUME NEW t \in Threads, Inv, Duties, LibCall(t)
  PROVE  Duties'
<1>1. LibStep(t) /\ UNCHANGED keyVars
  BY DEF LibCall
<1>2. \/ rng[t] = {}  /\ pc[t] \notin {"new_lock", "drop_unlock"}
      \/ rng[t] = {page[t]} /\ page[t] \in Pages /\ pc[t] \in {"new_lock", "drop_unlock"}
  BY <1>1 DEF LibStep, LoadCache, AuxvOpens, AuxvNotOpened, AuxvInterrupted, AuxvRead,
      AuxvFails, MlockOk, MlockRefused,
    AdviseOk, AdviseFails, MunlockOk, MunlockRefused, DodumpOk, DodumpFails,
    Inv, CallsMatch, CallMatches, PageOwned, Owning, DropSites
<1>3. /\ \A u \in Threads : u # t /\ pc[u] \in Owning => page[u] \notin rng[t]
      /\ \A p \in Pages : owner[p] # "page" => p \notin rng[t]
  BY <1>2 DEF Inv, PageOwned, Owning, DropSites
<1>4. Releasing'
  <2>1. CASE LoadCache(t)
    BY <1>1, <1>2, <1>3, <2>1
    DEF LoadCache, keyVars, Duties, Releasing, Restored, Inv, TypeOK, LockTypeOK, Sites, Owning,
        DropSites, CallsMatch, CallMatches, kernelVars, Walked, SizeKnown, SizeUnknown, Released
  <2>2. CASE AuxvOpens(t)
    BY <1>1, <1>2, <1>3, <2>2
    DEF AuxvOpens, keyVars, Duties, Releasing, Restored, Inv, TypeOK, LockTypeOK, Sites, Owning,
        DropSites, CallsMatch, CallMatches, kernelVars, Walked, SizeKnown, SizeUnknown, Released
  <2>3. CASE AuxvNotOpened(t)
    BY <1>1, <1>2, <1>3, <2>3
    DEF AuxvNotOpened, keyVars, Duties, Releasing, Restored, Inv, TypeOK, LockTypeOK, Sites, Owning,
        DropSites, CallsMatch, CallMatches, kernelVars, Walked, SizeKnown, SizeUnknown, Released
  <2>4. CASE AuxvInterrupted(t)
    BY <1>1, <1>2, <1>3, <2>4
    DEF AuxvInterrupted, keyVars, Duties, Releasing, Restored, Inv, TypeOK, LockTypeOK, Sites, Owning,
        DropSites, CallsMatch, CallMatches, kernelVars, Walked, SizeKnown, SizeUnknown, Released
  <2>5. CASE AuxvRead(t)
    BY <1>1, <1>2, <1>3, <2>5
    DEF AuxvRead, keyVars, Duties, Releasing, Restored, Inv, TypeOK, LockTypeOK, Sites, Owning,
        DropSites, CallsMatch, CallMatches, kernelVars, Walked, SizeKnown, SizeUnknown, Released
  <2>6. CASE AuxvFails(t)
    BY <1>1, <1>2, <1>3, <2>6
    DEF AuxvFails, keyVars, Duties, Releasing, Restored, Inv, TypeOK, LockTypeOK, Sites, Owning,
        DropSites, CallsMatch, CallMatches, kernelVars, Walked, SizeKnown, SizeUnknown, Released
  <2>7. CASE MlockOk(t)
    BY <1>1, <1>2, <1>3, <2>7
    DEF MlockOk, keyVars, Duties, Releasing, Restored, Inv, TypeOK, LockTypeOK, Sites, Owning,
        DropSites, CallsMatch, CallMatches, kernelVars, Walked, SizeKnown, SizeUnknown, Released
  <2>8. CASE MlockRefused(t)
    BY <1>1, <1>2, <1>3, <2>8
    DEF MlockRefused, keyVars, Duties, Releasing, Restored, Inv, TypeOK, LockTypeOK, Sites, Owning,
        DropSites, CallsMatch, CallMatches, kernelVars, Walked, SizeKnown, SizeUnknown, Released
  <2>9. CASE AdviseOk(t)
    BY <1>1, <1>2, <1>3, <2>9
    DEF AdviseOk, keyVars, Duties, Releasing, Restored, Inv, TypeOK, LockTypeOK, Sites, Owning,
        DropSites, CallsMatch, CallMatches, kernelVars, Walked, SizeKnown, SizeUnknown, Released
  <2>10. CASE AdviseFails(t)
    BY <1>1, <1>2, <1>3, <2>10
    DEF AdviseFails, keyVars, Duties, Releasing, Restored, Inv, TypeOK, LockTypeOK, Sites, Owning,
        DropSites, CallsMatch, CallMatches, kernelVars, Walked, SizeKnown, SizeUnknown, Released
  <2>11. CASE MunlockOk(t)
    BY <1>1, <1>2, <1>3, <2>11
    DEF MunlockOk, keyVars, Duties, Releasing, Restored, Inv, TypeOK, LockTypeOK, Sites, Owning,
        DropSites, CallsMatch, CallMatches, kernelVars, Walked, SizeKnown, SizeUnknown, Released
  <2>12. CASE MunlockRefused(t)
    BY <1>1, <1>2, <1>3, <2>12
    DEF MunlockRefused, keyVars, Duties, Releasing, Restored, Inv, TypeOK, LockTypeOK, Sites, Owning,
        DropSites, CallsMatch, CallMatches, kernelVars, Walked, SizeKnown, SizeUnknown, Released
  <2>13. CASE DodumpOk(t)
    BY <1>1, <1>2, <1>3, <2>13
    DEF DodumpOk, keyVars, Duties, Releasing, Restored, Inv, TypeOK, LockTypeOK, Sites, Owning,
        DropSites, CallsMatch, CallMatches, kernelVars, Walked, SizeKnown, SizeUnknown, Released
  <2>14. CASE DodumpFails(t)
    BY <1>1, <1>2, <1>3, <2>14
    DEF DodumpFails, keyVars, Duties, Releasing, Restored, Inv, TypeOK, LockTypeOK, Sites, Owning,
        DropSites, CallsMatch, CallMatches, kernelVars, Walked, SizeKnown, SizeUnknown, Released
  <2> QED
    BY <1>1, <2>1, <2>2, <2>3, <2>4, <2>5, <2>6, <2>7, <2>8, <2>9,
       <2>10, <2>11, <2>12, <2>13, <2>14 DEF LibStep
<1>5. LocalsWiped' /\ KeysTagged' /\ Verdicts'
  BY <1>1 DEF keyVars, Duties, LocalsWiped, KeysTagged, Tagged, Verdicts
<1> QED
  BY <1>4, <1>5 DEF Duties

LEMMA NewDuties ==
  ASSUME NEW t \in Threads, NEW k \in Keys, Inv, Duties, New(t, k)
  PROVE  Duties'
<1> USE DEF New
<1>1. Releasing'
  BY DEF Inv, TypeOK, LockTypeOK, PageOwned, Owning, DropSites, CallsMatch, CallMatches,
     Duties,
    Releasing, Restored
<1>2. LocalsWiped'
  BY DEF Inv, TypeOK, Duties, LocalsWiped
<1>3. KeysTagged'
  BY DEF Inv, TypeOK, PageOwned, Owning, DropSites, ReadersSeeAKey, ReadSites, NewSites,
    Borrowers, Duties, KeysTagged, Tagged
<1>4. Verdicts'
  BY DEF Inv, TypeOK, PageOwned, Owning, DropSites, ReadersSeeAKey, ReadSites, Duties,
     KeysTagged,
    Tagged, Verdicts
<1> QED
  BY <1>1, <1>2, <1>3, <1>4 DEF Duties

LEMMA PageRefusedDuties ==
  ASSUME NEW t \in Threads, Inv, Duties, PageRefused(t)
  PROVE  Duties'
<1> USE DEF PageRefused
<1>1. Releasing'
  BY DEF Inv, TypeOK, LockTypeOK, PageOwned, Owning, DropSites, CallsMatch, CallMatches,
     Duties,
    Releasing, Restored
<1>2. LocalsWiped'
  BY DEF Inv, TypeOK, Duties, LocalsWiped
<1>3. KeysTagged'
  BY DEF Inv, TypeOK, PageOwned, Owning, DropSites, ReadersSeeAKey, ReadSites, NewSites,
    Borrowers, Duties, KeysTagged, Tagged
<1>4. Verdicts'
  BY DEF Inv, TypeOK, PageOwned, Owning, DropSites, ReadersSeeAKey, ReadSites, Duties,
     KeysTagged,
    Tagged, Verdicts
<1> QED
  BY <1>1, <1>2, <1>3, <1>4 DEF Duties

LEMMA PageAllocatedDuties ==
  ASSUME NEW t \in Threads, NEW p \in Pages, Inv, Duties, PageAllocated(t, p)
  PROVE  Duties'
<1> USE DEF PageAllocated
<1>1. Releasing'
  BY DEF Inv, TypeOK, LockTypeOK, PageOwned, Owning, DropSites, CallsMatch, CallMatches,
     Duties,
    Releasing, Restored
<1>2. LocalsWiped'
  BY DEF Inv, TypeOK, Duties, LocalsWiped
<1>3. KeysTagged'
  <2>1. p \in Pages /\ \A u \in Threads \ {t} :
          pc[u] \in Owning \cup ReadSites => page[u] \in Pages /\ page[u] # p
    BY Nobodys
  <2>2. \A q \in Pages \ {p} : key'[q] = key[q] /\ tag'[q] = tag[q] /\ owner'[q] = owner[q]
    BY <2>1 DEF Inv, TypeOK
  <2>3. \A u \in Threads \ {t} : /\ pc'[u] = pc[u] /\ page'[u] = page[u]
                                /\ arg'[u] = arg[u] /\ local'[u] = local[u]
    BY DEF Inv, TypeOK
  <2>4. Tagged(t)'
    BY <2>1 DEF Inv, TypeOK, ReadSites, NewSites, DropSites, Duties, KeysTagged, Tagged
  <2>5. owner'[p] = "key" => key'[p] = tag'[p]
    BY <2>1 DEF Inv, TypeOK, ReadSites, NewSites, DropSites, Duties, KeysTagged, Tagged
  <2>6. \A u \in Threads \ {t} : Tagged(u)'
    <3> HIDE DEF PageAllocated
    <3> QED
      BY <2>1, <2>2, <2>3, OthersTagged
  <2> QED
    BY <2>2, <2>4, <2>5, <2>6 DEF Duties, KeysTagged
<1>4. Verdicts'
  <2>1. \A u \in Threads : pc[u] \in ReadSites => page[u] \in Pages /\ page[u] # p
    BY Nobodys
  <2> QED
    BY <2>1 DEF Inv, TypeOK, ReadSites, Owning, DropSites, Duties, Verdicts
<1> QED
  BY <1>1, <1>2, <1>3, <1>4 DEF Duties

LEMMA LockPageDuties ==
  ASSUME NEW t \in Threads, Inv, Duties, LockPage(t)
  PROVE  Duties'
<1> USE DEF LockPage
<1>1. Releasing'
  BY DEF Inv, TypeOK, LockTypeOK, PageOwned, Owning, DropSites, CallsMatch, CallMatches,
     Duties,
    Releasing, Restored
<1>2. LocalsWiped'
  BY DEF Inv, TypeOK, Duties, LocalsWiped
<1>3. KeysTagged'
  BY DEF Inv, TypeOK, PageOwned, Owning, DropSites, ReadersSeeAKey, ReadSites, NewSites,
    Borrowers, Duties, KeysTagged, Tagged
<1>4. Verdicts'
  BY DEF Inv, TypeOK, PageOwned, Owning, DropSites, ReadersSeeAKey, ReadSites, Duties,
     KeysTagged,
    Tagged, Verdicts
<1> QED
  BY <1>1, <1>2, <1>3, <1>4 DEF Duties

LEMMA PageLockedDuties ==
  ASSUME NEW t \in Threads, Inv, Duties, PageLocked(t)
  PROVE  Duties'
<1> USE DEF PageLocked
<1>1. Releasing'
  BY DEF Inv, TypeOK, LockTypeOK, PageOwned, Owning, DropSites, CallsMatch, CallMatches,
     Duties,
    Releasing, Restored
<1>2. LocalsWiped'
  BY DEF Inv, TypeOK, Duties, LocalsWiped
<1>3. KeysTagged'
  BY DEF Inv, TypeOK, PageOwned, Owning, DropSites, ReadersSeeAKey, ReadSites, NewSites,
    Borrowers, Duties, KeysTagged, Tagged
<1>4. Verdicts'
  BY DEF Inv, TypeOK, PageOwned, Owning, DropSites, ReadersSeeAKey, ReadSites, Duties,
     KeysTagged,
    Tagged, Verdicts
<1> QED
  BY <1>1, <1>2, <1>3, <1>4 DEF Duties

LEMMA CopyKeyDuties ==
  ASSUME NEW t \in Threads, Inv, Duties, CopyKey(t)
  PROVE  Duties'
<1> USE DEF CopyKey
<1>1. Releasing'
  BY DEF Inv, TypeOK, LockTypeOK, PageOwned, Owning, DropSites, CallsMatch, CallMatches,
     Duties,
    Releasing, Restored
<1>2. LocalsWiped'
  BY DEF Inv, TypeOK, Duties, LocalsWiped
<1>3. KeysTagged'
  <2>1. page[t] \in Pages /\ \A u \in Threads \ {t} :
          pc[u] \in Owning \cup ReadSites => page[u] \in Pages /\ page[u] # page[t]
    BY Mine DEF Owning, DropSites
  <2>2. \A q \in Pages \ {page[t]} : key'[q] = key[q] /\ tag'[q] = tag[q] /\ owner'[q] = owner[q]
    BY <2>1 DEF Inv, TypeOK
  <2>3. \A u \in Threads \ {t} : /\ pc'[u] = pc[u] /\ page'[u] = page[u]
                                /\ arg'[u] = arg[u] /\ local'[u] = local[u]
    BY DEF Inv, TypeOK
  <2>4. Tagged(t)'
    BY <2>1 DEF Inv, TypeOK, ReadSites, NewSites, DropSites, Duties, KeysTagged, Tagged
  <2>5. owner'[page[t]] = "key" => key'[page[t]] = tag'[page[t]]
    BY <2>1 DEF Inv, TypeOK, ReadSites, NewSites, DropSites, Duties, KeysTagged, Tagged,
       PageOwned, Owning
  <2>6. \A u \in Threads \ {t} : Tagged(u)'
    <3> HIDE DEF CopyKey
    <3> QED
      BY <2>1, <2>2, <2>3, OthersTagged
  <2> QED
    BY <2>2, <2>4, <2>5, <2>6 DEF Duties, KeysTagged
<1>4. Verdicts'
  <2>1. \A u \in Threads : pc[u] \in ReadSites => page[u] \in Pages /\ page[u] # page[t]
    BY Mine DEF Owning, DropSites, ReadSites
  <2> QED
    BY <2>1 DEF Inv, TypeOK, ReadSites, Owning, DropSites, Duties, Verdicts
<1> QED
  BY <1>1, <1>2, <1>3, <1>4 DEF Duties

LEMMA CopyTagDuties ==
  ASSUME NEW t \in Threads, Inv, Duties, CopyTag(t)
  PROVE  Duties'
<1> USE DEF CopyTag
<1>1. Releasing'
  BY DEF Inv, TypeOK, LockTypeOK, PageOwned, Owning, DropSites, CallsMatch, CallMatches,
     Duties,
    Releasing, Restored
<1>2. LocalsWiped'
  BY DEF Inv, TypeOK, Duties, LocalsWiped
<1>3. KeysTagged'
  <2>1. page[t] \in Pages /\ \A u \in Threads \ {t} :
          pc[u] \in Owning \cup ReadSites => page[u] \in Pages /\ page[u] # page[t]
    BY Mine DEF Owning, DropSites
  <2>2. \A q \in Pages \ {page[t]} : key'[q] = key[q] /\ tag'[q] = tag[q] /\ owner'[q] = owner[q]
    BY <2>1 DEF Inv, TypeOK
  <2>3. \A u \in Threads \ {t} : /\ pc'[u] = pc[u] /\ page'[u] = page[u]
                                /\ arg'[u] = arg[u] /\ local'[u] = local[u]
    BY DEF Inv, TypeOK
  <2>4. Tagged(t)'
    BY <2>1 DEF TagOf, Inv, TypeOK, ReadSites, NewSites, DropSites, Duties, KeysTagged,
       Tagged
  <2>5. owner'[page[t]] = "key" => key'[page[t]] = tag'[page[t]]
    BY <2>1 DEF Inv, TypeOK, ReadSites, NewSites, DropSites, Duties, KeysTagged, Tagged,
       PageOwned, Owning
  <2>6. \A u \in Threads \ {t} : Tagged(u)'
    <3> HIDE DEF CopyTag
    <3> QED
      BY <2>1, <2>2, <2>3, OthersTagged
  <2> QED
    BY <2>2, <2>4, <2>5, <2>6 DEF Duties, KeysTagged
<1>4. Verdicts'
  BY DEF Inv, TypeOK, PageOwned, Owning, DropSites, ReadersSeeAKey, ReadSites, Duties,
     KeysTagged,
    Tagged, Verdicts
<1> QED
  BY <1>1, <1>2, <1>3, <1>4 DEF Duties

LEMMA NewReturnsDuties ==
  ASSUME NEW t \in Threads, Inv, Duties, NewReturns(t)
  PROVE  Duties'
<1> USE DEF NewReturns
<1>1. Releasing'
  BY DEF Inv, TypeOK, LockTypeOK, PageOwned, Owning, DropSites, CallsMatch, CallMatches,
     Duties,
    Releasing, Restored
<1>2. LocalsWiped'
  BY DEF Inv, TypeOK, Duties, LocalsWiped
<1>3. KeysTagged'
  <2>1. page[t] \in Pages /\ \A u \in Threads \ {t} :
          pc[u] \in Owning \cup ReadSites => page[u] \in Pages /\ page[u] # page[t]
    BY Mine DEF Owning, DropSites
  <2>2. \A q \in Pages \ {page[t]} : key'[q] = key[q] /\ tag'[q] = tag[q] /\ owner'[q] = owner[q]
    BY <2>1 DEF Inv, TypeOK
  <2>3. \A u \in Threads \ {t} : /\ pc'[u] = pc[u] /\ page'[u] = page[u]
                                /\ arg'[u] = arg[u] /\ local'[u] = local[u]
    BY DEF Inv, TypeOK
  <2>4. Tagged(t)'
    BY <2>1 DEF Inv, TypeOK, ReadSites, NewSites, DropSites, Duties, KeysTagged, Tagged
  <2>5. owner'[page[t]] = "key" => key'[page[t]] = tag'[page[t]]
    BY <2>1 DEF Inv, TypeOK, ReadSites, NewSites, DropSites, Duties, KeysTagged, Tagged,
       PageOwned, Owning
  <2>6. \A u \in Threads \ {t} : Tagged(u)'
    <3> HIDE DEF NewReturns
    <3> QED
      BY <2>1, <2>2, <2>3, OthersTagged
  <2> QED
    BY <2>2, <2>4, <2>5, <2>6 DEF Duties, KeysTagged
<1>4. Verdicts'
  BY DEF Inv, TypeOK, PageOwned, Owning, DropSites, ReadersSeeAKey, ReadSites, Duties,
     KeysTagged,
    Tagged, Verdicts
<1> QED
  BY <1>1, <1>2, <1>3, <1>4 DEF Duties

LEMMA DropStartsDuties ==
  ASSUME NEW t \in Threads, NEW p \in Pages, Inv, Duties, DropStarts(t, p)
  PROVE  Duties'
<1> USE DEF DropStarts
<1>1. Releasing'
  BY DEF Inv, TypeOK, LockTypeOK, PageOwned, Owning, DropSites, CallsMatch, CallMatches,
     Duties,
    Releasing, Restored
<1>2. LocalsWiped'
  BY DEF Inv, TypeOK, Duties, LocalsWiped
<1>3. KeysTagged'
  BY DEF Inv, TypeOK, PageOwned, Owning, DropSites, ReadersSeeAKey, ReadSites, NewSites,
    Borrowers, Duties, KeysTagged, Tagged
<1>4. Verdicts'
  BY DEF Inv, TypeOK, PageOwned, Owning, DropSites, ReadersSeeAKey, ReadSites, Duties,
     KeysTagged,
    Tagged, Verdicts
<1> QED
  BY <1>1, <1>2, <1>3, <1>4 DEF Duties

LEMMA DropWipeDuties ==
  ASSUME NEW t \in Threads, Inv, Duties, DropWipe(t)
  PROVE  Duties'
<1> USE DEF DropWipe
<1>1. Releasing'
  BY DEF Inv, TypeOK, LockTypeOK, PageOwned, Owning, DropSites, CallsMatch, CallMatches,
     Duties,
    Releasing, Restored
<1>2. LocalsWiped'
  BY DEF Inv, TypeOK, Duties, LocalsWiped
<1>3. KeysTagged'
  <2>1. page[t] \in Pages /\ \A u \in Threads \ {t} :
          pc[u] \in Owning \cup ReadSites => page[u] \in Pages /\ page[u] # page[t]
    BY Mine DEF Owning, DropSites
  <2>2. \A q \in Pages \ {page[t]} : key'[q] = key[q] /\ tag'[q] = tag[q] /\ owner'[q] = owner[q]
    BY <2>1 DEF Inv, TypeOK
  <2>3. \A u \in Threads \ {t} : /\ pc'[u] = pc[u] /\ page'[u] = page[u]
                                /\ arg'[u] = arg[u] /\ local'[u] = local[u]
    BY DEF Inv, TypeOK
  <2>4. Tagged(t)'
    BY <2>1 DEF Inv, TypeOK, ReadSites, NewSites, DropSites, Duties, KeysTagged, Tagged
  <2>5. owner'[page[t]] = "key" => key'[page[t]] = tag'[page[t]]
    BY <2>1 DEF Inv, TypeOK, ReadSites, NewSites, DropSites, Duties, KeysTagged, Tagged,
       PageOwned, Owning
  <2>6. \A u \in Threads \ {t} : Tagged(u)'
    <3> HIDE DEF DropWipe
    <3> QED
      BY <2>1, <2>2, <2>3, OthersTagged
  <2> QED
    BY <2>2, <2>4, <2>5, <2>6 DEF Duties, KeysTagged
<1>4. Verdicts'
  BY DEF Inv, TypeOK, PageOwned, Owning, DropSites, ReadersSeeAKey, ReadSites, Duties,
     KeysTagged,
    Tagged, Verdicts
<1> QED
  BY <1>1, <1>2, <1>3, <1>4 DEF Duties

LEMMA DropUnlockedDuties ==
  ASSUME NEW t \in Threads, Inv, Duties, DropUnlocked(t)
  PROVE  Duties'
<1> USE DEF DropUnlocked
<1>1. Releasing'
  BY DEF Inv, TypeOK, LockTypeOK, PageOwned, Owning, DropSites, CallsMatch, CallMatches,
     Duties,
    Releasing, Restored
<1>2. LocalsWiped'
  BY DEF Inv, TypeOK, Duties, LocalsWiped
<1>3. KeysTagged'
  BY DEF Inv, TypeOK, PageOwned, Owning, DropSites, ReadersSeeAKey, ReadSites, NewSites,
    Borrowers, Duties, KeysTagged, Tagged
<1>4. Verdicts'
  BY DEF Inv, TypeOK, PageOwned, Owning, DropSites, ReadersSeeAKey, ReadSites, Duties,
     KeysTagged,
    Tagged, Verdicts
<1> QED
  BY <1>1, <1>2, <1>3, <1>4 DEF Duties

LEMMA PageWipeDuties ==
  ASSUME NEW t \in Threads, Inv, Duties, PageWipe(t)
  PROVE  Duties'
<1> USE DEF PageWipe
<1>1. Releasing'
  BY DEF Inv, TypeOK, LockTypeOK, PageOwned, Owning, DropSites, CallsMatch, CallMatches,
     Duties,
    Releasing, Restored
<1>2. LocalsWiped'
  BY DEF Inv, TypeOK, Duties, LocalsWiped
<1>3. KeysTagged'
  <2>1. page[t] \in Pages /\ \A u \in Threads \ {t} :
          pc[u] \in Owning \cup ReadSites => page[u] \in Pages /\ page[u] # page[t]
    BY Mine DEF Owning, DropSites
  <2>2. \A q \in Pages \ {page[t]} : key'[q] = key[q] /\ tag'[q] = tag[q] /\ owner'[q] = owner[q]
    BY <2>1 DEF Inv, TypeOK
  <2>3. \A u \in Threads \ {t} : /\ pc'[u] = pc[u] /\ page'[u] = page[u]
                                /\ arg'[u] = arg[u] /\ local'[u] = local[u]
    BY DEF Inv, TypeOK
  <2>4. Tagged(t)'
    BY <2>1 DEF Inv, TypeOK, ReadSites, NewSites, DropSites, Duties, KeysTagged, Tagged
  <2>5. owner'[page[t]] = "key" => key'[page[t]] = tag'[page[t]]
    BY <2>1 DEF Inv, TypeOK, ReadSites, NewSites, DropSites, Duties, KeysTagged, Tagged,
       PageOwned, Owning
  <2>6. \A u \in Threads \ {t} : Tagged(u)'
    <3> HIDE DEF PageWipe
    <3> QED
      BY <2>1, <2>2, <2>3, OthersTagged
  <2> QED
    BY <2>2, <2>4, <2>5, <2>6 DEF Duties, KeysTagged
<1>4. Verdicts'
  <2>1. \A u \in Threads : pc[u] \in ReadSites => page[u] \in Pages /\ page[u] # page[t]
    BY Mine DEF Owning, DropSites, ReadSites
  <2> QED
    BY <2>1 DEF Inv, TypeOK, ReadSites, Owning, DropSites, Duties, Verdicts
<1> QED
  BY <1>1, <1>2, <1>3, <1>4 DEF Duties

LEMMA PageFreeDuties ==
  ASSUME NEW t \in Threads, Inv, Duties, PageFree(t)
  PROVE  Duties'
<1> USE DEF PageFree
<1>1. Releasing'
  BY DEF Inv, TypeOK, LockTypeOK, PageOwned, Owning, DropSites, CallsMatch, CallMatches,
     Duties,
    Releasing, Restored
<1>2. LocalsWiped'
  BY DEF Inv, TypeOK, Duties, LocalsWiped
<1>3. KeysTagged'
  BY DEF Inv, TypeOK, PageOwned, Owning, DropSites, ReadersSeeAKey, ReadSites, NewSites,
    Borrowers, Duties, KeysTagged, Tagged
<1>4. Verdicts'
  BY DEF Inv, TypeOK, PageOwned, Owning, DropSites, ReadersSeeAKey, ReadSites, Duties,
     KeysTagged,
    Tagged, Verdicts
<1> QED
  BY <1>1, <1>2, <1>3, <1>4 DEF Duties

LEMMA AsBytesDuties ==
  ASSUME NEW t \in Threads, NEW p \in Pages, Inv, Duties, AsBytes(t, p)
  PROVE  Duties'
<1> USE DEF AsBytes
<1>1. Releasing'
  BY DEF Inv, TypeOK, LockTypeOK, PageOwned, Owning, DropSites, CallsMatch, CallMatches,
     Duties,
    Releasing, Restored
<1>2. LocalsWiped'
  BY DEF Inv, TypeOK, Duties, LocalsWiped
<1>3. KeysTagged'
  BY DEF Inv, TypeOK, PageOwned, Owning, DropSites, ReadersSeeAKey, ReadSites, NewSites,
    Borrowers, Duties, KeysTagged, Tagged
<1>4. Verdicts'
  BY DEF Inv, TypeOK, PageOwned, Owning, DropSites, ReadersSeeAKey, ReadSites, Duties,
     KeysTagged,
    Tagged, Verdicts
<1> QED
  BY <1>1, <1>2, <1>3, <1>4 DEF Duties

LEMMA CheckHashDuties ==
  ASSUME NEW t \in Threads, Inv, Duties, CheckHash(t)
  PROVE  Duties'
<1> USE DEF CheckHash
<1>1. Releasing'
  BY DEF Inv, TypeOK, LockTypeOK, PageOwned, Owning, DropSites, CallsMatch, CallMatches,
     Duties,
    Releasing, Restored
<1>2. LocalsWiped'
  BY DEF Inv, TypeOK, Duties, LocalsWiped
<1>3. KeysTagged'
  BY DEF Inv, TypeOK, PageOwned, Owning, DropSites, ReadersSeeAKey, ReadSites, NewSites,
    Borrowers, Duties, KeysTagged, Tagged
<1>4. Verdicts'
  <2>1. page[t] \in Pages
    BY DEF Inv, ReadersSeeAKey, ReadSites
  <2>2. /\ local'[t].bad = ("key" \in flipped[page[t]])
        /\ saw'[t] = ("key" \notin flipped[page[t]])
    BY DEF Inv, TypeOK, TagOf
  <2>3. local'[t].bad = FALSE => saw'[t]
    BY <2>2, Zenon
  <2>4. faults = 0 => local'[t] = TagOf(key[page[t]], FALSE)
    <3> SUFFICES ASSUME faults = 0 PROVE local'[t] = TagOf(key[page[t]], FALSE)
      OBVIOUS
    <3>1. "key" \notin flipped[page[t]]
      BY <2>1 DEF Duties, Verdicts
    <3>2. ("key" \in flipped[page[t]]) = FALSE
      BY <3>1
    <3>3. local'[t] = TagOf(key[page[t]], "key" \in flipped[page[t]])
      BY DEF Inv, TypeOK
    <3> QED
      BY <3>2, <3>3, Zenon
  <2>5. \A u \in Threads \ {t} : local'[u] = local[u] /\ saw'[u] = saw[u] /\ pc'[u] = pc[u]
    BY DEF Inv, TypeOK
  <2>6. pc'[t] = "check_eq"
    BY DEF Inv, TypeOK
  <2>7. /\ pc'[t] = "check_eq" /\ local'[t].bad = FALSE => saw'[t]
        /\ \A u \in Threads \ {t} : pc'[u] = "check_eq" /\ local'[u].bad = FALSE => saw'[u]
    BY <2>3, <2>5 DEF Duties, Verdicts
  <2>8. \A u \in Threads : pc'[u] \in {"check_wipe", "check_end"} /\ verdict[u] => saw'[u]
    BY <2>5, <2>6 DEF Duties, Verdicts
  <2>9. \A u \in Threads : pc'[u] = "using" => saw'[u]
    BY <2>5, <2>6 DEF Duties, Verdicts
  <2>10. faults = 0 => \A u \in Threads : pc'[u] = "check_eq" => local'[u] = TagOf(key[page[u]], FALSE)
    BY <2>4, <2>5 DEF Duties, Verdicts
  <2>11. faults = 0 => /\ panics = {} /\ \A p \in Pages : flipped[p] = {}
                      /\ \A u \in Threads : pc'[u] \in {"check_wipe", "check_end"} => verdict[u]
    BY <2>5, <2>6 DEF Duties, Verdicts
  <2>12. UNCHANGED <<faults, panics, flipped, key, page, verdict>>
    OBVIOUS
  <2> HIDE DEF CheckHash
  <2> QED
    BY <2>7, <2>8, <2>9, <2>10, <2>11, <2>12 DEF Verdicts
<1> QED
  BY <1>1, <1>2, <1>3, <1>4 DEF Duties

LEMMA CheckEqDuties ==
  ASSUME NEW t \in Threads, Inv, Duties, CheckEq(t)
  PROVE  Duties'
<1> USE DEF CheckEq
<1>1. Releasing'
  BY DEF Inv, TypeOK, LockTypeOK, PageOwned, Owning, DropSites, CallsMatch, CallMatches,
     Duties,
    Releasing, Restored
<1>2. LocalsWiped'
  BY DEF Inv, TypeOK, Duties, LocalsWiped
<1>3. KeysTagged'
  BY DEF Inv, TypeOK, PageOwned, Owning, DropSites, ReadersSeeAKey, ReadSites, NewSites,
    Borrowers, Duties, KeysTagged, Tagged
<1>4. Verdicts'
  <2>1. page[t] \in Pages /\ owner[page[t]] = "key" /\ pc[t] = "check_eq"
    BY DEF Inv, ReadersSeeAKey, ReadSites, Duties, KeysTagged, Tagged
  <2>2. verdict'[t] = ("tag" \notin flipped[page[t]] /\ local[t] = TagOf(tag[page[t]], FALSE))
    BY DEF Inv, TypeOK
  <2>3. verdict'[t] => saw[t]
    <3>1. local[t] = TagOf(tag[page[t]], FALSE) => local[t].bad = FALSE
      BY DEF TagOf
    <3> QED
      BY <2>1, <2>2, <3>1 DEF Duties, Verdicts
  <2>4. faults = 0 => verdict'[t]
    <3>1. faults = 0 => local[t] = TagOf(tag[page[t]], FALSE) /\ flipped[page[t]] = {}
      BY <2>1 DEF Duties, Verdicts, KeysTagged
    <3> QED
      BY <2>2, <3>1
  <2>5. \A u \in Threads \ {t} : verdict'[u] = verdict[u] /\ pc'[u] = pc[u]
    BY DEF Inv, TypeOK
  <2>6. pc'[t] = "check_wipe"
    BY DEF Inv, TypeOK
  <2> QED
    BY <2>3, <2>4, <2>5, <2>6 DEF Duties, Verdicts
<1> QED
  BY <1>1, <1>2, <1>3, <1>4 DEF Duties

LEMMA CheckWipeDuties ==
  ASSUME NEW t \in Threads, Inv, Duties, CheckWipe(t)
  PROVE  Duties'
<1> USE DEF CheckWipe
<1>1. Releasing'
  BY DEF Inv, TypeOK, LockTypeOK, PageOwned, Owning, DropSites, CallsMatch, CallMatches,
     Duties,
    Releasing, Restored
<1>2. LocalsWiped'
  BY DEF Inv, TypeOK, Duties, LocalsWiped
<1>3. KeysTagged'
  BY DEF Inv, TypeOK, PageOwned, Owning, DropSites, ReadersSeeAKey, ReadSites, NewSites,
    Borrowers, Duties, KeysTagged, Tagged
<1>4. Verdicts'
  BY DEF Inv, TypeOK, PageOwned, Owning, DropSites, ReadersSeeAKey, ReadSites, Duties,
     KeysTagged,
    Tagged, Verdicts
<1> QED
  BY <1>1, <1>2, <1>3, <1>4 DEF Duties

LEMMA CheckPassedDuties ==
  ASSUME NEW t \in Threads, Inv, Duties, CheckPassed(t)
  PROVE  Duties'
<1> USE DEF CheckPassed
<1>1. Releasing'
  BY DEF Inv, TypeOK, LockTypeOK, PageOwned, Owning, DropSites, CallsMatch, CallMatches,
     Duties,
    Releasing, Restored
<1>2. LocalsWiped'
  BY DEF Inv, TypeOK, Duties, LocalsWiped
<1>3. KeysTagged'
  BY DEF Inv, TypeOK, PageOwned, Owning, DropSites, ReadersSeeAKey, ReadSites, NewSites,
    Borrowers, Duties, KeysTagged, Tagged
<1>4. Verdicts'
  <2>1. saw[t]
    BY DEF Duties, Verdicts
  <2>2. pc'[t] = "using" /\ \A u \in Threads \ {t} : pc'[u] = pc[u]
    BY DEF Inv, TypeOK
  <2> QED
    BY <2>1, <2>2 DEF Duties, Verdicts
<1> QED
  BY <1>1, <1>2, <1>3, <1>4 DEF Duties

LEMMA CheckPanicsDuties ==
  ASSUME NEW t \in Threads, Inv, Duties, CheckPanics(t)
  PROVE  Duties'
<1> USE DEF CheckPanics
<1>1. Releasing'
  BY DEF Inv, TypeOK, LockTypeOK, PageOwned, Owning, DropSites, CallsMatch, CallMatches,
     Duties,
    Releasing, Restored
<1>2. LocalsWiped'
  BY DEF Inv, TypeOK, Duties, LocalsWiped
<1>3. KeysTagged'
  BY DEF Inv, TypeOK, PageOwned, Owning, DropSites, ReadersSeeAKey, ReadSites, NewSites,
    Borrowers, Duties, KeysTagged, Tagged
<1>4. Verdicts'
  BY DEF Inv, TypeOK, PageOwned, Owning, DropSites, ReadersSeeAKey, ReadSites, Duties,
     KeysTagged,
    Tagged, Verdicts
<1> QED
  BY <1>1, <1>2, <1>3, <1>4 DEF Duties

LEMMA ReleaseDuties ==
  ASSUME NEW t \in Threads, Inv, Duties, Release(t)
  PROVE  Duties'
<1> USE DEF Release
<1>1. Releasing'
  BY DEF Inv, TypeOK, LockTypeOK, PageOwned, Owning, DropSites, CallsMatch, CallMatches,
     Duties,
    Releasing, Restored
<1>2. LocalsWiped'
  BY DEF Inv, TypeOK, Duties, LocalsWiped
<1>3. KeysTagged'
  BY DEF Inv, TypeOK, PageOwned, Owning, DropSites, ReadersSeeAKey, ReadSites, NewSites,
    Borrowers, Duties, KeysTagged, Tagged
<1>4. Verdicts'
  BY DEF Inv, TypeOK, PageOwned, Owning, DropSites, ReadersSeeAKey, ReadSites, Duties,
     KeysTagged,
    Tagged, Verdicts
<1> QED
  BY <1>1, <1>2, <1>3, <1>4 DEF Duties

LEMMA ForgetDuties ==
  ASSUME NEW p \in Pages, Inv, Duties, Forget(p)
  PROVE  Duties'
<1> USE DEF Forget
<1>1. Releasing'
  BY DEF Inv, TypeOK, LockTypeOK, PageOwned, Owning, DropSites, CallsMatch, CallMatches,
     Duties,
    Releasing, Restored
<1>2. LocalsWiped'
  BY DEF Inv, TypeOK, Duties, LocalsWiped
<1>3. KeysTagged'
  BY DEF Inv, TypeOK, PageOwned, Owning, DropSites, ReadersSeeAKey, ReadSites, NewSites,
    Borrowers, Duties, KeysTagged, Tagged
<1>4. Verdicts'
  BY DEF Inv, TypeOK, PageOwned, Owning, DropSites, ReadersSeeAKey, ReadSites, Duties,
     KeysTagged,
    Tagged, Verdicts
<1> QED
  BY <1>1, <1>2, <1>3, <1>4 DEF Duties

LEMMA DataAllocatedDuties ==
  ASSUME NEW p \in Pages, Inv, Duties, DataAllocated(p)
  PROVE  Duties'
<1> USE DEF DataAllocated
<1>1. Releasing'
  BY DEF Inv, TypeOK, LockTypeOK, PageOwned, Owning, DropSites, CallsMatch, CallMatches,
     Duties,
    Releasing, Restored
<1>2. LocalsWiped'
  BY DEF Inv, TypeOK, Duties, LocalsWiped
<1>3. KeysTagged'
  BY DEF Inv, TypeOK, PageOwned, Owning, DropSites, ReadersSeeAKey, ReadSites, NewSites,
    Borrowers, Duties, KeysTagged, Tagged
<1>4. Verdicts'
  BY DEF Inv, TypeOK, PageOwned, Owning, DropSites, ReadersSeeAKey, ReadSites, Duties,
     KeysTagged,
    Tagged, Verdicts
<1> QED
  BY <1>1, <1>2, <1>3, <1>4 DEF Duties

LEMMA DataFreedDuties ==
  ASSUME NEW p \in Pages, Inv, Duties, DataFreed(p)
  PROVE  Duties'
<1> USE DEF DataFreed
<1>1. Releasing'
  BY DEF Inv, TypeOK, LockTypeOK, PageOwned, Owning, DropSites, CallsMatch, CallMatches,
     Duties,
    Releasing, Restored
<1>2. LocalsWiped'
  BY DEF Inv, TypeOK, Duties, LocalsWiped
<1>3. KeysTagged'
  BY DEF Inv, TypeOK, PageOwned, Owning, DropSites, ReadersSeeAKey, ReadSites, NewSites,
    Borrowers, Duties, KeysTagged, Tagged
<1>4. Verdicts'
  BY DEF Inv, TypeOK, PageOwned, Owning, DropSites, ReadersSeeAKey, ReadSites, Duties,
     KeysTagged,
    Tagged, Verdicts
<1> QED
  BY <1>1, <1>2, <1>3, <1>4 DEF Duties

LEMMA FlipDuties ==
  ASSUME NEW p \in Pages, NEW r \in Regions, Inv, Duties, Flip(p, r)
  PROVE  Duties'
<1> USE DEF Flip
<1>1. Releasing'
  BY DEF Inv, TypeOK, LockTypeOK, PageOwned, Owning, DropSites, CallsMatch, CallMatches,
     Duties,
    Releasing, Restored
<1>2. LocalsWiped'
  BY DEF Inv, TypeOK, Duties, LocalsWiped
<1>3. KeysTagged'
  BY DEF Inv, TypeOK, PageOwned, Owning, DropSites, ReadersSeeAKey, ReadSites, NewSites,
    Borrowers, Duties, KeysTagged, Tagged
<1>4. Verdicts'
  <2>1. faults' # 0
    BY DEF Inv, TypeOK
  <2> QED
    BY <2>1 DEF Duties, Verdicts
<1> QED
  BY <1>1, <1>2, <1>3, <1>4 DEF Duties

LEMMA SwapOutDuties ==
  ASSUME NEW p \in Pages, Inv, Duties, SwapOut(p)
  PROVE  Duties'
<1> USE DEF SwapOut
<1>1. Releasing'
  BY DEF Inv, TypeOK, LockTypeOK, PageOwned, Owning, DropSites, CallsMatch, CallMatches,
     Duties,
    Releasing, Restored
<1>2. LocalsWiped'
  BY DEF Inv, TypeOK, Duties, LocalsWiped
<1>3. KeysTagged'
  BY DEF Inv, TypeOK, PageOwned, Owning, DropSites, ReadersSeeAKey, ReadSites, NewSites,
    Borrowers, Duties, KeysTagged, Tagged
<1>4. Verdicts'
  BY DEF Inv, TypeOK, PageOwned, Owning, DropSites, ReadersSeeAKey, ReadSites, Duties,
     KeysTagged,
    Tagged, Verdicts
<1> QED
  BY <1>1, <1>2, <1>3, <1>4 DEF Duties

LEMMA CoreDumpDuties ==
  ASSUME Inv, Duties, CoreDump
  PROVE  Duties'
<1> USE DEF CoreDump
<1>1. Releasing'
  BY DEF Inv, TypeOK, LockTypeOK, PageOwned, Owning, DropSites, CallsMatch, CallMatches,
     Duties,
    Releasing, Restored
<1>2. LocalsWiped'
  BY DEF Inv, TypeOK, Duties, LocalsWiped
<1>3. KeysTagged'
  BY DEF Inv, TypeOK, PageOwned, Owning, DropSites, ReadersSeeAKey, ReadSites, NewSites,
    Borrowers, Duties, KeysTagged, Tagged
<1>4. Verdicts'
  BY DEF Inv, TypeOK, PageOwned, Owning, DropSites, ReadersSeeAKey, ReadSites, Duties,
     KeysTagged,
    Tagged, Verdicts
<1> QED
  BY <1>1, <1>2, <1>3, <1>4 DEF Duties


\* Every step, and every stutter, keeps the duties.
LEMMA StepDuties == Inv /\ Duties /\ [Next]_vars => Duties'
<1> SUFFICES ASSUME Inv, Duties, [Next]_vars PROVE Duties'
  OBVIOUS
<1>1. CASE Environment
  <2>1. CASE CoreDump
    BY <2>1, CoreDumpDuties
  <2>2. ASSUME NEW p \in Pages,
               Forget(p) \/ DataAllocated(p) \/ DataFreed(p) \/ SwapOut(p)
        PROVE  Duties'
    BY <2>2, ForgetDuties, DataAllocatedDuties, DataFreedDuties, SwapOutDuties
  <2>3. ASSUME NEW p \in Pages, NEW r \in Regions, Flip(p, r) PROVE Duties'
    BY <2>3, FlipDuties
  <2> QED
    BY <1>1, <2>1, <2>2, <2>3 DEF Environment
<1>2. ASSUME NEW t \in Threads, Caller(t) PROVE Duties'
  BY <1>2, NewDuties, DropStartsDuties, AsBytesDuties DEF Caller
<1>3. ASSUME NEW t \in Threads, Progress(t) PROVE Duties'
  BY <1>3, LibCallDuties, PageRefusedDuties, PageAllocatedDuties, LockPageDuties,
     PageLockedDuties, CopyKeyDuties, CopyTagDuties, NewReturnsDuties, DropWipeDuties,
     DropUnlockedDuties, PageWipeDuties, PageFreeDuties DEF Progress
<1>4. ASSUME NEW t \in Threads, Reading(t) PROVE Duties'
  BY <1>4, CheckHashDuties, CheckEqDuties, CheckWipeDuties, CheckPassedDuties,
     CheckPanicsDuties, ReleaseDuties DEF Reading
<1>5. CASE UNCHANGED vars
  BY <1>5 DEF vars, keyVars, Duties, Releasing, Restored, LocalsWiped, KeysTagged,
     Tagged, Verdicts
<1> QED
  BY <1>1, <1>2, <1>3, <1>4, <1>5 DEF Next

\* The second invariant, inductive relative to the first.
THEOREM DutiesAlways == Spec => []Duties
<1>1. Init => Duties
  BY InitDuties
<1>2. Inv /\ Duties /\ [Next]_vars => Duties'
  BY StepDuties
<1> QED
  BY <1>1, <1>2, InvAlways, PTL DEF Spec

\* A page back in the allocator is neither locked nor excluded from dumps, whatever
\* happened to the LockedKey it was part of, unless the kernel refused to release it.
THEOREM RestoredAlways == Spec => []ReleasedPageRestored
<1>1. TypeOK /\ Duties => ReleasedPageRestored
  BY DEF TypeOK, LockTypeOK, Owners, Duties, Releasing, Restored, ReleasedPageRestored
<1> QED
  BY <1>1, TypeCorrect, DutiesAlways, PTL

\* Nobody gets a reference to a key whose bits had flipped when it was hashed, and
\* nobody panics before a bit flipped.
THEOREM FailStopAlways == Spec => []FailStop
<1>1. TypeOK /\ Duties => FailStop
  <2> SUFFICES ASSUME TypeOK, Duties PROVE FailStop
    OBVIOUS
  <2>1. \A t \in Threads : pc[t] = "using" => saw[t]
    BY DEF Duties, Verdicts
  <2>2. panics # {} => faults # 0
    BY DEF Duties, Verdicts
  <2>3. faults \in 0..MaxFaults
    BY DEF TypeOK
  <2> QED
    BY <2>1, <2>2, <2>3 DEF FailStop
<1> QED
  BY <1>1, TypeCorrect, DutiesAlways, PTL

\* The tag buffers of new and of check_integrity are wiped on every path out.
THEOREM TagsWipedAlways == Spec => []NoTagResidue
<1>1. Duties => NoTagResidue
  BY DEF Duties, LocalsWiped, NoTagResidue
<1> QED
  BY <1>1, DutiesAlways, PTL

-----------------------------------------------------------------------------
(* LockedKey implements KeyVault: every step is one of its steps, or none. *)

Handle == [p \in Pages |-> IF owner[p] \in {"key", "forgotten"} THEN key[p] ELSE NoKey]

Hidden == UNCHANGED <<key, Handle, exposed>>

\* A step that changes neither key bytes, nor handles, nor what got out, is none of
\* the vault's.
LEMMA HiddenStutters == ASSUME Hidden PROVE UNCHANGED Vault!vvars
BY DEF Hidden, Handle, Vault!vvars

\* The invariant protects every page with key material.
LEMMA ResidencyNow == Inv => KeyResidency
<1> SUFFICES ASSUME Inv, NEW p \in Pages, ~Clean(p) PROVE Protected(p)
  BY DEF KeyResidency, Material, Clean, Protected
<1> QED
  BY DEF Inv, Placed, FlagsHeld

\* A page that is no LockedKey and whose owner is not writing it has no key bytes.
LEMMA EmptyPages ==
  ASSUME Inv, NEW p \in Pages
  PROVE  /\ owner[p] \in {"free", "data"} => key[p] = NoKey
         /\ \A t \in Threads :
              /\ pc[t] \in {"new_copy", "page_wipe"} /\ page[t] = p => key[p] = NoKey
              /\ pc[t] \in Owning /\ page[t] = p => owner[p] = "page"
<1>1. \A t \in Threads : pc[t] \in Owning /\ page[t] = p => owner[p] = "page"
  BY DEF Inv, PageOwned
<1>2. owner[p] \in {"free", "data"} => Clean(p)
  BY <1>1 DEF Inv, Placed, Owning, DropSites
<1>3. ASSUME NEW t \in Threads, pc[t] \in {"new_copy", "page_wipe"}, page[t] = p
      PROVE  Clean(p)
  BY <1>1, <1>3 DEF Inv, PageOwned, Placed, Owning, DropSites
<1> QED
  BY <1>1, <1>2, <1>3 DEF Clean

\* Allocation of other data, swapping, dumps and bit flips are none of the vault's steps.
LEMMA EnvironmentRefines ==
  ASSUME Inv, Environment
  PROVE  Hidden
<1>1. CASE CoreDump
  BY <1>1, ResidencyNow DEF CoreDump, KeyResidency, Hidden, Handle
<1>2. ASSUME NEW p \in Pages, Forget(p) PROVE Hidden
  BY <1>2 DEF Forget, Inv, TypeOK, Hidden, Handle
<1>3. ASSUME NEW p \in Pages, DataAllocated(p) \/ DataFreed(p) PROVE Hidden
  BY <1>3 DEF DataAllocated, DataFreed, Inv, TypeOK, Hidden, Handle
<1>4. ASSUME NEW p \in Pages, SwapOut(p) PROVE Hidden
  BY <1>4, ResidencyNow DEF SwapOut, KeyResidency, Hidden, Handle
<1>5. ASSUME NEW p \in Pages, NEW r \in Regions, Flip(p, r) PROVE Hidden
  BY <1>5 DEF Flip, Hidden, Handle
<1> QED
  BY <1>1, <1>2, <1>3, <1>4, <1>5 DEF Environment

\* Dropping a LockedKey ends it; the other calls begin without a trace.
LEMMA CallerRefines ==
  ASSUME Inv, NEW t \in Threads, Caller(t)
  PROVE  Hidden \/ Vault!Next
<1>1. ASSUME NEW k \in Keys, New(t, k) PROVE Hidden
  BY <1>1 DEF New, Hidden, Handle
<1>2. ASSUME NEW p \in Pages, AsBytes(t, p) PROVE Hidden
  BY <1>2 DEF AsBytes, Hidden, Handle
<1>3. ASSUME NEW p \in Pages, DropStarts(t, p) PROVE Hidden \/ Vault!Next
  <2>1. UNCHANGED <<key, exposed>> /\ owner[p] = "key" /\ owner' = [owner EXCEPT ![p] = "page"]
    BY <1>3 DEF DropStarts
  <2>2. Handle' = [Handle EXCEPT ![p] = NoKey]
    BY <2>1 DEF Handle, Inv, TypeOK
  <2>3. CASE Handle[p] = NoKey
    BY <2>1, <2>2, <2>3 DEF Hidden, Handle
  <2>4. CASE Handle[p] # NoKey
    BY <2>1, <2>2, <2>4 DEF Handle, Vault!Next, Vault!Retire
  <2> QED
    BY <2>3, <2>4
<1> QED
  BY <1>1, <1>2, <1>3 DEF Caller

\* new stores the key in an empty page and hands it out; drop erases what it ended.
LEMMA ProgressRefines ==
  ASSUME Inv, Duties, NEW t \in Threads, Progress(t)
  PROVE  Hidden \/ Vault!Next
<1>1. CASE LibCall(t) \/ PageRefused(t) \/ LockPage(t) \/ PageLocked(t) \/ CopyTag(t)
           \/ DropUnlocked(t)
  BY <1>1 DEF LibCall, keyVars, PageRefused, LockPage, PageLocked, CopyTag, DropUnlocked,
    Hidden, Handle
<1>2. ASSUME NEW p \in Pages, PageAllocated(t, p) PROVE Hidden
  <2>1. key[p] = NoKey
    BY <1>2, EmptyPages DEF PageAllocated
  <2> QED
    BY <1>2, <2>1 DEF PageAllocated, Inv, TypeOK, Hidden, Handle
<1>3. CASE CopyKey(t)
  <2>1. /\ page[t] \in Pages /\ owner[page[t]] = "page" /\ key[page[t]] = NoKey
        /\ arg[t] \in Keys
    BY <1>3, Mine, EmptyPages DEF CopyKey, Owning, NewSites, Duties, KeysTagged, Tagged
  <2>2. Handle[page[t]] = NoKey /\ Handle' = Handle
    BY <1>3, <2>1 DEF CopyKey, Handle, Inv, TypeOK
  <2>3. key' = [key EXCEPT ![page[t]] = arg[t]] /\ exposed' = exposed
    BY <1>3 DEF CopyKey
  <2> QED
    BY <2>1, <2>2, <2>3 DEF Handle, Vault!Next, Vault!Store
<1>4. CASE NewReturns(t)
  <2>1. /\ page[t] \in Pages /\ owner[page[t]] = "page" /\ key[page[t]] \in Keys
    BY <1>4, Mine DEF NewReturns, Owning, NewSites, Duties, KeysTagged, Tagged
  <2>2. owner' = [owner EXCEPT ![page[t]] = "key"] /\ UNCHANGED <<key, exposed>>
    BY <1>4 DEF NewReturns
  <2>3. Handle[page[t]] = NoKey /\ Handle' = [Handle EXCEPT ![page[t]] = key[page[t]]]
    BY <2>1, <2>2 DEF Handle, Inv, TypeOK
  <2> QED
    BY <2>1, <2>2, <2>3 DEF Handle, Vault!Next, Vault!Publish
<1>5. CASE DropWipe(t)
  <2>1. page[t] \in Pages /\ owner[page[t]] = "page"
    BY <1>5, Mine DEF DropWipe, Owning, DropSites
  <2>2. key' = [key EXCEPT ![page[t]] = NoKey] /\ UNCHANGED <<owner, exposed>>
    BY <1>5 DEF DropWipe
  <2>3. Handle[page[t]] = NoKey /\ Handle' = Handle
    BY <2>1, <2>2 DEF Handle, Inv, TypeOK
  <2>4. CASE key[page[t]] = NoKey
    <3>1. key' = key
      BY <2>1, <2>2, <2>4 DEF Inv, TypeOK
    <3> QED
      BY <2>2, <2>3, <3>1 DEF Hidden
  <2>5. CASE key[page[t]] # NoKey
    BY <2>1, <2>2, <2>3, <2>5 DEF Handle, Vault!Next, Vault!Erase
  <2> QED
    BY <2>4, <2>5
<1>6. CASE PageWipe(t)
  <2>1. page[t] \in Pages /\ key[page[t]] = NoKey
    BY <1>6, Mine, EmptyPages DEF PageWipe, Owning, DropSites
  <2>2. key' = key /\ UNCHANGED <<owner, exposed>>
    BY <1>6, <2>1 DEF PageWipe, Inv, TypeOK
  <2> QED
    BY <2>2 DEF Hidden, Handle
<1>7. CASE PageFree(t)
  <2>1. page[t] \in Pages /\ owner[page[t]] = "page"
    BY <1>7, Mine DEF PageFree, Owning, DropSites
  <2> QED
    BY <1>7, <2>1 DEF PageFree, Inv, TypeOK, Hidden, Handle
<1> QED
  BY <1>1, <1>2, <1>3, <1>4, <1>5, <1>6, <1>7 DEF Progress

\* Every step is one of the vault's, or none.
LEMMA StepRefines == Inv /\ Duties /\ [Next]_vars => [Vault!Next]_(Vault!vvars)
<1> SUFFICES ASSUME Inv, Duties, [Next]_vars PROVE Hidden \/ Vault!Next
  BY HiddenStutters
<1>1. ASSUME NEW t \in Threads, Reading(t) PROVE Hidden
  BY <1>1 DEF Reading, CheckHash, CheckEq, CheckWipe, CheckPassed, CheckPanics, Release,
    Hidden, Handle
<1>2. CASE UNCHANGED vars
  BY <1>2 DEF vars, keyVars, Hidden, Handle
<1> QED
  BY <1>1, <1>2, EnvironmentRefines, CallerRefines, ProgressRefines DEF Next

\* The safety half of ImplementsVault: key bytes enter memory only on behalf of a
\* LockedKey, what new returns is the key it was given, only what no LockedKey stands
\* for is erased, and nothing of it gets out of memory.
THEOREM VaultAlways == Spec => Vault!Safety
<1>1. Init => Vault!Init
  BY DEF Init, Vault!Init
<1>2. Inv /\ Duties /\ [Next]_vars => [Vault!Next]_(Vault!vvars)
  BY StepRefines
<1> QED
  BY <1>1, <1>2, InvAlways, DutiesAlways, PTL DEF Spec, Vault!Safety
=============================================================================
