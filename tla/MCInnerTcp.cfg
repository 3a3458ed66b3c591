SPECIFICATION LiveSpec
CONSTANTS
  Senders = {s1}
  IoThreads = {i1, i2}
  MaxMessages = 3
  BatchSize = 2
  RetryLockTimes = 2
INVARIANTS
  OneWriter
  ConnectionInv
  PeerGetsPrefix
  NothingVanishes
PROPERTIES
  QueuedIsWritten
  ClosedIsRemoved
\* Once the messages are sent, or the connection has failed, nothing is left to do.
CHECK_DEADLOCK FALSE
