SPECIFICATION Spec
CONSTANTS
  Space = 32
  MinPtr = 8
  MaxPtr = 20
  Word = 1
  WeaponName <- GunNames
  Memories <- MCMemories
  Off <- MCOff
INVARIANTS
  EscapeNeedsBadBase
  WhatIsKnownIsReported
