SPECIFICATION FairSpec
CONSTANTS
  Threads = {t1, t2, t3}
  Messages = {m1, m2, m3, d}
  Destroys = {d}
  RetryLockTimes = 3
  NoMsg = NoMsg
INVARIANTS
  SerialHandling
  FifoOnce
  MailboxInv
  NothingVanishes
PROPERTIES
  ImplementsSerialActor
  DrainReachesAll
\* Once every message has been dealt with, the threads stay idle.
CHECK_DEADLOCK FALSE
