SPECIFICATION FairSpec
CONSTANTS
  Frames <- SomeFrames
  Texts <- SomeTexts
  BufferSize = 2
  Size7 = 2
  Size16 = 4
  MaxFrames = 2
  MaxSends = 1
INVARIANTS
  DeletedIsLeftAlone
  FramesLeaveInOrder
  WholeMessagesArrive
PROPERTIES
  GoneIsNoticed
CHECK_DEADLOCK FALSE
