\* Repositories with a file that is not UTF-8.
SPECIFICATION Spec
CONSTANTS
  Clones <- OtherEncodings
  LaterClones <- ChangedClones
  Matched <- Names
  MaxFile = 3
  MaxRepoChunks = 11
  Neighbour <- OneNeighbour
  MaxPasses = 2
  MaxRows = 3
  Limits = {1, 4}
  TopK = 1
  MaxFollowed = 3
  AlsoFollowed <- RowsOfTwoAreas
  Scores = {2, 5}
  MaxPoints = 1
  MaxWaits = 1
INVARIANTS CapIsKept
CHECK_DEADLOCK FALSE
