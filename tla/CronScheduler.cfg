CONSTANTS
  r1 = r1
  o1 = o1
  o2 = o2
  first = first
  second = second
  Recurring = {r1}
  OneShots = {o1}
  Matches <- MCMatches
  DueAt <- MCDueAt
  Early <- MCEarly
  Ticks = {first, second}
  Boot = first
  MissedAfter = 1
  CatchUpCap = 3
  MaxActive = 2
  Horizon = 4
  MaxBoots = 2
  MaxEdits = 2
  None = None
SPECIFICATION Spec
INVARIANTS
  CatchUpNeverCollides
PROPERTIES
  CatchUpSkipsRecorded
  OncePerMinute
  OneShotRefiresInFlight
CHECK_DEADLOCK FALSE
