SPECIFICATION Spec
CONSTANTS
  p1 = p1
  p2 = p2
  p3 = p3
  p4 = p4
  Procs = {p1, p2, p3, p4}
  NoProc = NoProc
  Address <- OwnAddress
  MaxLeaves = 2
  WaitSettled = TRUE
  LeadingMayLeave = TRUE
  StartsAfter <- AnyOrder
SYMMETRY ProcSymmetry
INVARIANTS
  UnifiedState
  LeaversInactive
  LeadingExists
\* The bounds on processes and leaves end every behaviour.
CHECK_DEADLOCK FALSE
