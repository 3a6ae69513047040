SPECIFICATION Spec
CONSTANTS
  Rules <- SomeRules
  Signatures <- SomeSignatures
  Urls <- SomeUrls
  MaxIntDigits = 2
  MaxUintDigits = 2
  MaxRules = 2
INVARIANTS
  FirstRuleIsFound
  HandlersGetTheUrlsValues
CHECK_DEADLOCK FALSE
