SPECIFICATION FairSpec
CONSTANTS
  p1 = p1
  p2 = p2
  p3 = p3
  p4 = p4
  Procs = {p1, p2, p3}
  NoProc = NoProc
  Address <- OwnAddress
  MaxLeaves = 1
  WaitSettled = FALSE
  LeadingMayLeave = FALSE
  StartsAfter <- GivenOrder
INVARIANTS
  TypeOK
  OneLeading
  UniqueIds
  OwnEntry
PROPERTIES
  IdIsStable
  JoinCompletes
\* The bounds on processes and leaves end every behaviour.
CHECK_DEADLOCK FALSE
