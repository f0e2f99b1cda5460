CONSTANTS
  Caller = {u1, u2}
  ToolCall = {c1}
  Overlapping = TRUE
  MaxRecords = 4
  MaxHits = 1
SPECIFICATION TranscriptLiveSpec
PROPERTY Recovers
CHECK_DEADLOCK FALSE
