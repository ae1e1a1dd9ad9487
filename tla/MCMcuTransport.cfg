CONSTANTS
  RingSize = 3
  FifoChunk = 2
  PullChunk = 2
  SemLimit = 2
  MaxTraffic = 5
  Registrars = {r1}
  Callbacks = {c1}
  Senders = {s1, s2}
  SendLens <- MCSendLens
  NULL = NULL
SPECIFICATION FairSpec
INVARIANTS
  TypeOK
  NoLostWakeup
  NoTornCallback
  BytesAccounted
  OneStaleCall
  FramesContiguous
PROPERTIES
  DropsGetReported
  ChannelSpec
\* Arrivals and sends are bounded, so a behaviour may end.
CHECK_DEADLOCK FALSE
