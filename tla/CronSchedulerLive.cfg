CONSTANTS
  r1 = r1
  o1 = o1
  o2 = o2
  first = first
  second = second
  Recurring = {}
  OneShots = {o1, o2}
  Matches <- MCMatches
  DueAt <- MCDueAt
  Early <- MCEarly
  Ticks = {first, second}
  Boot = first
  MissedAfter = 1
  CatchUpCap = 3
  MaxActive = 2
  Horizon = 4
  MaxBoots = 2
  MaxEdits = 1
  None = None
SPECIFICATION LiveSpec
PROPERTIES
  OneShotSettles
CHECK_DEADLOCK FALSE
