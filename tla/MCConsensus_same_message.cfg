SPECIFICATION Spec
CONSTANTS
  n1 = n1
  n2 = n2
  n3 = n3
  t1 = t1
  t2 = t2
  s1 = s1
  s2 = s2
  Nodes = {n1, n2}
  Transfers = {t1}
  Stamps = {s1, s2}
  minValidators = 2
  MaxEmits = 1
  MaxLost = 0
  MaxDuplicated = 0
  MaxRestarts = 0
CHECK_DEADLOCK FALSE
INVARIANTS
  SameMessage
