SPECIFICATION Spec
CONSTANTS
  Entity = {e1, e2, e3}
  MaxMoves = 3
INVARIANTS
  MissingPointIsHarmless
