SPECIFICATION Spec
CONSTANTS
  k1 = k1
  k2 = k2
  w1 = w1
  w2 = w2
  w3 = w3
  Keys <- TwoKeys
  Writes <- TwoWrites
  BatchSize = 2
CHECK_DEADLOCK FALSE
INVARIANT
  SameSize
