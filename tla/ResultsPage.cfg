CONSTANTS
  x = x
  y = y
  z = z
  Results = {x, y, z}
  PerPage = 2
  MaxBound = 2
  MaxCopies = 2
  MaxPosts = 2
SPECIFICATION Spec
SYMMETRY Symmetry
INVARIANT HeadersTellTruth
PROPERTIES PostIsWhatPageSays TagsOnceFromFreshPage
