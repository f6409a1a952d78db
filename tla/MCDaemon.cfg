\* Every command line; two connections, two interrupts at any time.
SPECIFICATION DaemonFairSpec
CONSTANTS
  Peer = {p1, p2}
  MaxWait = 2
  MaxInterrupts = 2
INVARIANTS
  TypeOK
  DaemonTypeOK
  FreedExactlyOnce
  DeviceWhileListening
  
PROPERTIES
  
  
  ClientEnds
CHECK_DEADLOCK FALSE
