CONSTANTS
  Senders = {s1, s2}
  SendLens <- MCSendLens
  TxBuffer = 3
  HwFifo = 2
  MaxFrames = 3
SPECIFICATION FairSpec
INVARIANTS
  TypeOK
  BusReleased
  SuccessMeansSent
  BusInOrder
PROPERTIES
  SendReturns
\* The number of frames is bounded, and rs485_init may fail.
CHECK_DEADLOCK FALSE
