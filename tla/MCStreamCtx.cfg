\* Two threads encrypt for the same peer.
SPECIFICATION Spec
CONSTANTS
  p1 = p1
  p2 = p2
  close = close
  Sender = {t1, t2}
  Frame = {p1, p2, close}
  type <- Types
  data_len <- Lengths
  BlockSize = 2
  FRAME_PAYLOAD_MAXSIZE = 4
  Capacity = 6
  SenderLittle = TRUE
  ReceiverLittle = TRUE
  None = None
INVARIANTS
  PacketsIntact
CHECK_DEADLOCK FALSE
