\* The peer that is freed when its threads say they are dead.
SPECIFICATION Spec
CONSTANTS
  Peer = {p1}
  MaxWait = 2
  MaxInterrupts = 1
INVARIANTS
  FreedAfterExit
CHECK_DEADLOCK FALSE
