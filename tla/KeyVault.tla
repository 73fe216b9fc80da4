------------------------------ MODULE KeyVault ------------------------------
(***************************************************************************)
(* What a LockedKey promises about the bytes of a key, with nothing said   *)
(* of pages, flags or system calls: key material is in memory only on      *)
(* behalf of a LockedKey that is being built, is alive or is being torn    *)
(* down, and it never gets out of memory.                                  *)
(***************************************************************************)
CONSTANTS Pages, Keys, NoKey

VARIABLES
  vault,     \* [Pages -> the key whose bytes are there, or NoKey]
  handle,    \* [Pages -> the key of the LockedKey value there, or NoKey]
  exposed    \* keys that reached the swap device or a core dump

vvars == <<vault, handle, exposed>>

Init ==
  /\ vault = [p \in Pages |-> NoKey]
  /\ handle = [p \in Pages |-> NoKey]
  /\ exposed = {}

\* Key bytes enter memory that holds none, and belong to no LockedKey yet.
Store(p, k) ==
  /\ vault[p] = NoKey /\ handle[p] = NoKey
  /\ vault' = [vault EXCEPT ![p] = k]
  /\ UNCHANGED <<handle, exposed>>

\* LockedKey::new returns: the caller holds the key that was stored.
Publish(p) ==
  /\ vault[p] # NoKey /\ handle[p] = NoKey
  /\ handle' = [handle EXCEPT ![p] = vault[p]]
  /\ UNCHANGED <<vault, exposed>>

Retire(p) ==
  /\ handle[p] # NoKey
  /\ handle' = [handle EXCEPT ![p] = NoKey]
  /\ UNCHANGED <<vault, exposed>>

\* Only memory no LockedKey stands for is erased.
Erase(p) ==
  /\ vault[p] # NoKey /\ handle[p] = NoKey
  /\ vault' = [vault EXCEPT ![p] = NoKey]
  /\ UNCHANGED <<handle, exposed>>

Next == \E p \in Pages :
  Publish(p) \/ Retire(p) \/ Erase(p) \/ \E k \in Keys : Store(p, k)

Safety == Init /\ [][Next]_vvars

\* Bytes without a LockedKey do not stay: they get one, or they go.
Spec ==
  /\ Safety
  /\ \A p \in Pages : WF_vvars(Publish(p) \/ Erase(p))
=============================================================================
