CONSTANTS
  t1 = t1
  t2 = t2
  k1 = k1
  k2 = k2
  u1 = u1
  s1 = s1
  q1 = q1
  q2 = q2
  a1 = a1
  p1 = p1
  shot = shot
  None = None
  Threads = {t1, t2}
  Tasks = {k1, k2}
  Urls = {u1}
  Jobs = {s1, q1, q2, a1, p1, shot}
  Unset = {q2}
  Escaping = {s1, q1, a1}
  KindOf <- MCKindOf
  TaskOf <- MCTaskOf
  ParentOf <- MCParentOf
SPECIFICATION Spec
INVARIANT ForeignExplained
 
CHECK_DEADLOCK FALSE
