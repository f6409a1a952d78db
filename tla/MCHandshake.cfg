\* Every choice of two keys per daemon, one packet per end, an interrupt at either.
SPECIFICATION FairSpec
CONSTANTS
  Key = {k1, k2}
  Packets = 1
  None = None
INVARIANTS
  TypeOK
  InStep
  MutualTrust
  NoDeadlock
PROPERTIES
  Resolved
CHECK_DEADLOCK FALSE
