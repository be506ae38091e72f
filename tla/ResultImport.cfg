CONSTANTS
  a = a
  b = b
  c = c
  k1 = k1
  k2 = k2
  own = own
  shared = shared
  u1 = u1
  u2 = u2
  bad = bad
  Nil = Nil
  Imports = {a, b, c}
  Tasks = {k1, k2}
  Tags = {own, shared}
  Urls = {u1, bad}
  Invalid = {bad}
  TaskOf <- MCTaskOf
  TagsOf <- MCTagsOf
  MaxLength = 1
  MaxIds = 2
  MayDelete = TRUE
SPECIFICATION Spec
INVARIANTS ImportedIsThere OrphansExplained TaggedOnceUnlessRaced
CHECK_DEADLOCK FALSE
