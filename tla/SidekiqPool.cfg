CONSTANTS
  r1 = r1
  r2 = r2
  a1 = a1
  a2 = a2
  b1 = b1
  p1 = p1
  p2 = p2
  p3 = p3
  Runs = {r1, r2}
  Tasks = {a1, a2, b1}
  Parts = {p1, p2, p3}
  RunOf <- MCRunOf
  TaskOf <- MCTaskOf
  QueueOf <- Standard
  Threads = 4
  RunnerLimit = 2
  WorkerLimit = 1
SPECIFICATION FairPoolSpec
INVARIANT NeverStuck
PROPERTY RunsEnd
CHECK_DEADLOCK FALSE
