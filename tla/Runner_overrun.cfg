SPECIFICATION Spec
CONSTANTS
  r1 = r1
  s1 = s1
  s2 = s2
  NULL = NULL
  AnyType = AnyType
  Rules = {r1}
  Scenarios = {s1}
  RuleOf <- RuleMap
  MaxCopies = 2
  MaxCycles = 16
  MaxRetries = 3
  Timeout = 1
  Punctual = FALSE
INVARIANTS
  TypeOK
  EveryScenarioAccounted
  OnlyExecutionsRepeat
CHECK_DEADLOCK FALSE
