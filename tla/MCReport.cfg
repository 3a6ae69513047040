SPECIFICATION ReportSpec
CONSTANTS
  Entity = {e1, e2}
  MaxMoves = 2
  Slots = 2
  Obj = {o1, o2}
  Players <- MCPlayers
  NoObj = NoObj
SYMMETRY Symmetry
INVARIANTS
  QuietReportIsSnapshot
  NoGhostRows
  OneMoveKeepsRowsApart
  SteadyPlayersAreListed
