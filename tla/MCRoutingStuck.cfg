\* Four clients and one packet between two of them.
SPECIFICATION Spec
CONSTANTS
  s = s
  c1 = c1
  c2 = c2
  c3 = c3
  c4 = c4
  none = none
  Server = s
  Clients <- FourClients
  Packets <- OnePacket
  Warm = {s, c1, c2, c3, c4}
  Known <- FourthKnown
  Capacity = 1
  None = none
INVARIANTS
  NeverStuck
CHECK_DEADLOCK FALSE
