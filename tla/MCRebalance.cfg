SPECIFICATION Spec
CONSTANTS
  MemberCount = 4
  Partitions = 5
  Replicas = 2
  MaxChanges = 5
  MaxBusy = 1
CHECK_DEADLOCK FALSE
INVARIANTS
  FullyReplicated
  Balanced
PROPERTIES
  DeltaIsFaithful
  NewHoldersMigrate
  ReadyCopyKept
