\* A store, an RDD derived from it and one derived from that, two members with
\* a partition each, in the plans of MCRdd.  The system is idle in the end.
SPECIFICATION Spec
CONSTANTS
  S = S
  D = D
  E = E
  a1 = a1
  a2 = a2
  a3 = a3
  Members <- MCMembers
  Partitions <- MCPartitions
  Primary <- MCPrimary
  HashOf <- MCHashOf
  Rdds = {S, D, E}
  Home <- MCHome
  Upstream <- Chain
  Actions = {a1, a2, a3}
  Target <- MCTarget
  Plans <- MCPlans
CHECK_DEADLOCK FALSE
INVARIANTS
  AnswersComplete
  AnsweredOnce
PROPERTIES
  AnswersEnd
  
