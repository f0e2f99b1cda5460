CONSTANTS
  Turns = {t1, t2}
  Adapters = {a1, a2, a3}
  MaxAttempts = 2
  MaxFrames = 0
  MaxRestarts = 0
  None = None
SPECIFICATION LiveSpec
PROPERTIES
  EveryTurnEnds
