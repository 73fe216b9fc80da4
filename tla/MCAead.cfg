SPECIFICATION Spec
CONSTANTS
  k1 = k1
  k2 = k2
  k3 = k3
  n1 = n1
  a1 = a1
  a2 = a2
  a3 = a3
  aLong = aLong
  m1 = m1
  m2 = m2
  mLong = mLong
  Zero = Zero
  Keys <- MCKeys
  Nonces <- MCNonces
  Aads <- MCAads
  Msgs <- MCMsgs
  MsgLen <- MCMsgLen
  AadLen <- MCAadLen
  MaxMsgSize = 2
  Limits <- MCLimits
  Plans <- MCPlans
INVARIANTS
  TypeOK
  Authentic
  FailureLeavesNothing
  NoResidue
  RoundTrip
  UltraSendsTheTag
  KeystreamNotReused
SYMMETRY Symmetry
