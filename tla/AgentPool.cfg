CONSTANTS
  Keys = {k1, k2, k3}
  Callers = {c1, c2}
  Workers = {w1, w2, w3}
  MaxWorkers = 1
  MaxAttempts = 2
  None = None
SPECIFICATION Spec
SYMMETRY Symmetry
INVARIANTS
  NoLeakedSession
  OneSessionPerKey
  ParkedTurnHasSession
  TurnsSerialized
  OverflowBounded
PROPERTIES
  StreamingNotReclaimed
