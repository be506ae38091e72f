SPECIFICATION Spec
CONSTANTS
  r1 = r1
  r2 = r2
  Results <- Two
  Slice = 1
INVARIANT ErrorsReported
CHECK_DEADLOCK FALSE
