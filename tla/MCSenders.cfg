\* Two connections, two threads that send to them.
SPECIFICATION SendersFairSpec
CONSTANTS
  Conn = {c1, c2}
  MaxSlots = 2
  Fd = {f1, f2}
  None = None
  Sender = {t1, t2}
INVARIANTS
  TypeOK
  SlotExclusive
  SendableIsOwn
  RoutesAreOwn
  ObjectsAccounted
  PoolBounded
  
  SendersTypeOK
  ContextLost
  SocketLost
  
PROPERTIES
  LiveSlotIntact
  ImplementsDirectory
  SlotsReleased
CHECK_DEADLOCK FALSE
