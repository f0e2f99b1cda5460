CONSTANTS
  Turns = {t1, t2}
  Adapters = {a1, a2, a3}
  MaxAttempts = 2
  MaxFrames = 1
  MaxRestarts = 1
  None = None
SPECIFICATION Spec
INVARIANTS
  IndexAgrees
  StopReachesAttempt
  RepairBeforeSuccessor
  StopLeavesOneAttempt
SYMMETRY Symmetry
