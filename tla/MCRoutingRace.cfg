\* The routes of a server whose host sends its first packet.
SPECIFICATION Spec
CONSTANTS
  s = s
  c1 = c1
  c2 = c2
  c3 = c3
  c4 = c4
  none = none
  Server = s
  Clients <- TwoClients
  Packets <- FivePairs
  Warm = {}
  Known <- NobodyKnown
  Capacity = 1
  None = none
INVARIANTS
  RoutesBelong
CHECK_DEADLOCK FALSE
