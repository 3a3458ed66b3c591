SPECIFICATION Spec
CONSTANTS
  MemberCount = 3
  Partitions = 3
  Replicas = 2
  MaxChanges = 4
  MaxBusy = 0
CHECK_DEADLOCK FALSE
INVARIANT
  MigratedIsReady
