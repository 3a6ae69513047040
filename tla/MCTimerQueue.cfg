SPECIFICATION FairSpec
CONSTANTS
  Conn = {c1, c2}
  Tick = 2
  IntRange = 4
  NoHandler = NoHandler
  NoKey = NoKey
INVARIANTS
  KeysDesignateOwnEntry
  HandlersAreOwned
PROPERTIES
  ImplementsDeadlines
  DeadlineFires
