SPECIFICATION Spec
CONSTANTS
  l1 = l1
  l2 = l2
  l3 = l3
  s1 = s1
  s2 = s2
  s3 = s3
  Listeners <- ThreeListeners
  Numbers <- ThreeNumbers
SYMMETRY Symmetry
INVARIANTS TypeOK PoolIndices
PROPERTY LeaksOnlyAtDrop
CHECK_DEADLOCK FALSE
