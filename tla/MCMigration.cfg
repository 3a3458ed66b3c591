SPECIFICATION FairSpec
CONSTANTS
  MemberCount = 3
  Partitions = 1
  Replicas = 2
  s1 = s1
  s2 = s2
  Stores <- TwoStores
  MaxChanges = 5
  MaxHurried = 0
  MaxPending = 20
CHECK_DEADLOCK FALSE

  
  
  
PROPERTY
  MigrationsEnd
