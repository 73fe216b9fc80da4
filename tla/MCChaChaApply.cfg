SPECIFICATION Spec
CONSTANTS
  t1 = t1
  t2 = t2
  Threads = {t1, t2}
  BlockLen = 2
  Values = 16
  MaxMsg = 32
  Cpus <- MCCpus
  Targets = {"x86_64", "neon", "other"}
  Calls <- MCCalls
INVARIANTS
  KeystreamInPlace
  KeystreamWiped
  SubkeysAgree
  KernelIsSupported
