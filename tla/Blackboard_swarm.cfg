SPECIFICATION Spec
CONSTANTS
  t1 = t1
  t2 = t2
  t3 = t3
  a1 = a1
  a2 = a2
  flow = flow
  exec = exec
  AnyType = AnyType
  NULL = NULL
  Tasks <- Tasks2
  Agents <- Agents2
  TypeOf <- TypeMap
  Serves <- ServeMap
  MaxRetries = 3
  Timeout = 1
  Punctual = FALSE
INVARIANTS
  ClaimBudget
PROPERTIES
  ExhaustedIsNotHandedOut
  OnlyStaleClaimsRevert
