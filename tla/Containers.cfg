SPECIFICATION Spec
CONSTANTS
  Lists = {l1, l2}
  Nodes = {n1, n2, n3}
  Arrays = {a1, a2}
  Values = {v1, v2}
  Default = v1
  MaxLen = 3
  MaxDepth = 3
  Keys = {0, 1, 2, 3, 5}
  MinBuckets = 2
  MaxInBucket = 1
  Threads = {t1, t2}
  MaxGeneration = 3
INVARIANTS
  RingIsContent
  ElementsAreItems
  CopyIsSource
  LookupsRight
  TableIsWhole
PROPERTY ClearEnds
CHECK_DEADLOCK FALSE
