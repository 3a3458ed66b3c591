\* The same with the last RDD repartitioned: it may answer before rows that are
\* on their way to another member have come.
SPECIFICATION Spec
CONSTANTS
  S = S
  D = D
  E = E
  a1 = a1
  a2 = a2
  a3 = a3
  Members <- MCMembers
  Partitions <- MCPartitions
  Primary <- MCPrimary
  HashOf <- MCHashOf
  Rdds = {S, D, E}
  Home <- MCHome
  Upstream <- Chain
  Actions = {a1, a2, a3}
  Target <- MCTarget
  Plans <- GroupedPlans
CHECK_DEADLOCK FALSE
INVARIANTS
  GroupedComplete
