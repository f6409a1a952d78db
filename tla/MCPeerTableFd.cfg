\* The descriptor a dying connection closes.
SPECIFICATION Spec
CONSTANTS
  Conn = {c1, c2}
  MaxSlots = 2
  Fd = {f1, f2}
  None = None
PROPERTIES
  ClosesOwnSocket
CHECK_DEADLOCK FALSE
