SPECIFICATION FairSpec
CONSTANTS
  r1 = r1
  r2 = r2
  Results <- Two
  Slice = 1
INVARIANTS OptionsOutliveWorkers SavedIsReported NoneSkippedSilently
PROPERTY ParentEnds
CHECK_DEADLOCK FALSE
