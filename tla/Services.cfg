CONSTANTS
  n1 = n1  n2 = n2  n3 = n3  n4 = n4  n5 = n5  none = none
  Sub = {n1}  RingMax = 2  SynthBase = 90  MaxFrames = 3  MaxTools = 2
  MaxAttempts = 2  MaxBreaks = 2
  Conv = {n1, n2}  Run = {n3, n4}  Tool = {n5}  ConvOf <- MCConvOf
  MaxCalls = 2  MaxDecisions = 2  None = none
  Proc = {n1, n2}  MaxOps = 2  NoProc = none
  GoalConv = {n1, n2}  Loop = {n3, n4}  NoLoop = none  Budget = 2
  TurnTokens = {0, 1}  MaxIter = 3  MaxCommands = 3
  Listed = {n1, n2}  Asker = {n3, n4}  MaxWrites = 2
  Source = {n1, n2}  MaxStamp = 6  MaxRestore = 1  MaxFaults = 1
  Turn = {n1, n2}  RestTurn = {n2}  Adapter = {n4, n5}  Retain = 1
  MaxMessages = 3  MaxMishaps = 2
  KnownTool = {n1, n2}  Rules <- MCRules  ForkOn = TRUE  PerTurn = 1
  PerHour = 2  MaxEdits = 2  MaxTurns = 3
  MaxValue = 61  Days = 3  Clock = {0, 719, 720, 1439}  Past = {0, 59}
  LastMessage = 2  MaxStamps = 3  MaxLosses = 2
  Text = {n1, n2}  ToolCall = {n3}  MaxIn = 5
  Symbol = {n1, n2, n3, n4}  OpenTag <- MCOpen  CloseTag <- MCClose
  MaxPiece = 3  MaxText = 7
SPECIFICATION ServicesSpec
VIEW OwnState
INVARIANTS
  TypesOK
  EachFrameOnce
  FollowersHaveAll
  VerdictsHold
  ListedIffParked
  StopReachesTheTurn
  ClientsSeeTheStory
  RulesDecide
  FreshIsCurrent
  AttributionHolds
  RequestsSeeWrites
  SchedulesAreAsNoted
  TimesStay
  OneScheduler
CHECK_DEADLOCK FALSE
