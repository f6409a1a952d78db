\* Two clients, five pairs of hosts; the server and c1 have talked before.
SPECIFICATION FairSpec
CONSTANTS
  s = s
  c1 = c1
  c2 = c2
  c3 = c3
  c4 = c4
  none = none
  Server = s
  Clients <- TwoClients
  Packets <- FiveOthers
  Warm = {s, c1}
  Known <- FirstKnows
  Capacity = 1
  None = none
INVARIANTS
  TypeOK
  RoutesBelong
  Delivered

  
CHECK_DEADLOCK FALSE
