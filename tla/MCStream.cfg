\* Two threads send two packets and a CLOSE.
SPECIFICATION FairSpec
CONSTANTS
  p1 = p1
  p2 = p2
  close = close
  Sender = {t1, t2}
  Frame = {p1, p2, close}
  type <- Types
  data_len <- Lengths
  BlockSize = 2
  FRAME_PAYLOAD_MAXSIZE = 4
  Capacity = 6
  SenderLittle = TRUE
  ReceiverLittle = TRUE
  None = None
INVARIANTS
  TypeOK
  
  ReceivedInOrder
  NothingMissing
PROPERTIES
  FramesArrive
CHECK_DEADLOCK FALSE
