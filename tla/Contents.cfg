\* Small repositories, of which one or four areas are wanted; those of one or two chunks are
\* followed to the report, and may be ingested a second time; one of two areas at any time.
SPECIFICATION Spec
CONSTANTS
  Clones <- SmallClones
  LaterClones <- ChangedClones
  Matched <- Names
  MaxFile = 3
  MaxRepoChunks = 11
  Neighbour <- OneNeighbour
  MaxPasses = 2
  MaxRows = 3
  Limits = {1, 4}
  TopK = 1
  MaxFollowed = 3
  AlsoFollowed <- RowsOfTwoAreas
  Scores = {2, 5}
  MaxPoints = 1
  MaxWaits = 1
INVARIANTS TypeOK IndexIsTheSource FillsTheLimit CoversTheCode QuestionsAreApart CitesWhatItShows RevisitsGradedCode ScoresAreOfGraded
PROPERTIES KeepsUnchanged
CHECK_DEADLOCK FALSE
