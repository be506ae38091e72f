CONSTANTS
  i1 = i1
  i2 = i2
  t1 = t1
  t2 = t2
  none = none
  job = job
  web = web
  NoTask = none
  Issues = {i1, i2}
  Tasks = {t1, t2}
  Actors = {job, web}
  MaxFound = 2
  Settings <- MCSettings
SPECIFICATION Spec
SYMMETRY Symmetry
INVARIANTS CountsMatch OneEntryPerFinding
PROPERTIES DecisionsStand ScanIsMirrored TallyIsTrue
