SPECIFICATION FairSpec
CONSTANTS
  MaxChunks = 4
INVARIANTS
  NoDanglingCallback
  OneAnswerAtATime
  WaitingIsBounded
  AnswersOwed
  LeakIsClosed
PROPERTIES
  ConnectionEnds
CHECK_DEADLOCK FALSE
