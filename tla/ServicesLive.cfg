CONSTANTS
  n1 = n1  n2 = n2  n3 = n3  n4 = n4  n5 = n5  none = none
  Conv = {n1, n2}  Run = {n3, n4}  Tool = {n5}  ConvOf <- MCConvOf
  MaxCalls = 2  MaxDecisions = 1  None = none
  Task = {a, b}
  External = {b}
  MaxInstance = 2
  Caller = {n1, n2}  ToolCall = {n3}  Overlapping = TRUE  MaxRecords = 2
  MaxHits = 1
SPECIFICATION ServicesLiveSpec
INVARIANTS
  LiveWorkerIsNotWrittenOff
PROPERTIES
  SubscriptionsEnd
  ParkedIsAnswered
  ImplementsConsent
  NoPhantom
  CallsAreSettled
CHECK_DEADLOCK FALSE
