SPECIFICATION FairSpec
CONSTANTS
  Requests = {r1, r2}
  Reports <- MCReports
  Radii <- MCRadii
  NaN = NaN
  None = None
  MaxMoves = 3
INVARIANTS
  NothingIsDisplaced
  PictureIsFaithful
  PictureIsCurrent
PROPERTIES
  ScreenCatchesUp
