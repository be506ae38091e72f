CONSTANTS
  t1 = t1
  t2 = t2
  web = web
  job = job
  Tasks = {t1, t2}
  Actors = {web, job}
  MayDo <- Overlapping
SPECIFICATION Spec
INVARIANT InSync
PROPERTY RepairedByRebuild
