SPECIFICATION FairSpec
CONSTANTS
  t1 = t1
  t2 = t2
  Tasks <- Pair
  GroupOf <- PairGroups
  CustomQueue <- OnCustomQueue
INVARIANTS GroupBarrier AccountedFor NothingForgotten AtMostOnce
PROPERTIES GroupsInOrder RunEnds
CHECK_DEADLOCK FALSE
