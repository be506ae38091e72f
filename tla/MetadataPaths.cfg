CONSTANTS
  Trees <- MCTrees
  Paths <- MCPaths
  Values <- MCValues
  MaxRequests = 2
SPECIFICATION PathSpec
PROPERTIES NothingElseChanges ReadBack
VIEW Tree
CHECK_DEADLOCK FALSE
