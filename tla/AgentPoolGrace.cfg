CONSTANTS
  Keys = {k1, k2}
  Callers = {c1, c2}
  Workers = {w1, w2, w3}
  MaxWorkers = 1
  MaxAttempts = 2
  None = None
SPECIFICATION Spec
PROPERTIES
  CancelHitsOnlyItsTurn
