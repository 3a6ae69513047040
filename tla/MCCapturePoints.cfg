SPECIFICATION FairSpec
CONSTANTS
  Entity = {e1, e2, e3}
  MaxMoves = 3
INVARIANTS
  RowsWereMembers
  StablePointsAreReported
PROPERTIES
  WalkEnds
