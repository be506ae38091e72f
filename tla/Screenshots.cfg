CONSTANTS
  x = x
  y = y
  List <- Both
  Codes = {"200", "404"}
  Retries = 1
  JobRetries = 1
  MaxRuns = 2
  MaxCaptures = 3
  Bounds <- MCBounds
SPECIFICATION FairShotSpec
INVARIANTS OneAtATime NoneForgotten CapturesAreFew OneStatusTag TagIsStatusCode
PROPERTY RunEnds
CHECK_DEADLOCK FALSE
