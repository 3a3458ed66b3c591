SPECIFICATION ServingSpec
CONSTANTS
  MemberCount = 3
  Partitions = 1
  Replicas = 2
  s1 = s1
  s2 = s2
  Stores <- OneStore
  MaxChanges = 2
  MaxHurried = 2
  MaxPending = 3
CHECK_DEADLOCK FALSE
CONSTRAINTS
  Promising
  Near
INVARIANTS
  TypeOK
  TablesAgree
