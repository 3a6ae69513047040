SPECIFICATION RequestSpec
CONSTANTS
  MaxHeaderSize = 60
  ULLONG_MAX = 31
  MAX_KEY_VALUE_PAIRS_COUNT = 3
  Conversations <- SomeConversations
  Mistaken <- SomeMistaken
  WrongBytes = {"CR", "LF", " ", "/", "@", "?", "&", "1", ":", "u", "FF"}
  Keys <- SomeKeys
  PieceLengths = {1, 2, 5, 200}
INVARIANTS
  AssertsHold
  RequestsArriveAsSent
PROPERTIES
  PiecesMakeNoDifference
VIEW View
CHECK_DEADLOCK FALSE
