------------------------------- MODULE MCAead -------------------------------
(* Lengths 1 and 2 are within MAX_MSG_SIZE = 2, length 3 is past it; m1 and *)
(* m2 have the same length, so damage can turn one into the other.          *)
EXTENDS Aead, TLC

CONSTANTS k1, k2, k3, n1, a1, a2, a3, aLong, m1, m2, mLong

MCKeys == {k1, k2, k3}
MCNonces == {n1}
MCAads == {a1, a2, a3, aLong}
MCMsgs == {m1, m2, mLong}
MCMsgLen == m1 :> 2 @@ m2 :> 2 @@ mLong :> 3
MCAadLen == a1 :> 1 @@ a2 :> 1 @@ a3 :> 1 @@ aLong :> 3

MCLimits == {1, 2}

\* One message in flight, in every build.
OneMessage ==
  [builds |-> {{}, {"hardened"}, {"hardened", "dual-mac"}, {"hardened", "dual-mac", "ultra"}},
   keys |-> {k1, k2}, aads |-> {a1, a2, aLong}, msgs |-> MCMsgs, sent |-> 1]

\* Two messages in flight, under one key and nonce, and no lengths past the limits.
TwoMessages ==
  [builds |-> {{"hardened"}, {"hardened", "dual-mac", "ultra"}},
   keys |-> {k3}, aads |-> {a3}, msgs |-> {m1, m2}, sent |-> 2]

MCPlans == {OneMessage, TwoMessages}

Symmetry == Permutations({k1, k2}) \cup Permutations({m1, m2})
              \cup Permutations({a1, a2})
=============================================================================
