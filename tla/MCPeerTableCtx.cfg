\* The decryption context of a reused slot.
SPECIFICATION Spec
CONSTANTS
  Conn = {c1, c2, c3}
  MaxSlots = 3
  Fd = {f1, f2, f3}
  None = None
INVARIANTS
  FreedOnce
CHECK_DEADLOCK FALSE
