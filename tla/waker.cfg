SPECIFICATION FairSpec
CONSTANTS
  t1 = t1
  w1 = w1
  w2 = w2
  w3 = w3
  Tasks <- OneTask
  Threads <- ThreeThreads
INVARIANTS TypeOK CellExclusive AssertionsHold NoLostWake
PROPERTY ResultSeen
