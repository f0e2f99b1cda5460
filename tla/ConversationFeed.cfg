CONSTANTS
  Device = {d1, d2}
  Conv = {c1, c2}
  Opened = {c1}
  Turn = {t1, t2}
  MaxFrames = 2
  CacheMax = 1
  CompactEvery = 2
  MaxChunks = 1
  MaxSeq = 3
  MaxWire = 1
  MaxEvents = 5
  None = None
SPECIFICATION Spec
INVARIANTS
  NothingFallsBetween
  LossIsReported
  TurnsAreBracketed
PROPERTIES
  ImplementsFeed
SYMMETRY Symmetry
CHECK_DEADLOCK FALSE
