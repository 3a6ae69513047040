SPECIFICATION Spec
CONSTANTS
  Texts <- SomeTexts
  Scalars <- SomeScalars
  Vectors <- SomeVectors
  Paths <- SomePaths
  Printed <- ShortForms
  NotFinite <- NanTexts
  FirstCapacity = 2
  MaxGrowth = 3
  RemainRange = 4
  MaxSets = 2
INVARIANTS
  DumpReadsBack
  ReaderTakesJson
PROPERTIES
  OthersStay
CHECK_DEADLOCK FALSE
