SPECIFICATION Spec
CONSTANTS
  t1 = t1
  t2 = t2
  t3 = t3
  a1 = a1
  a2 = a2
  flow = flow
  exec = exec
  AnyType = AnyType
  NULL = NULL
  Tasks = {t1, t2, t3}
  Agents = {a1, a2}
  TypeOf <- TypeMap
  Serves <- ServeMap
  MaxRetries = 2
  BatchSize = 10
INVARIANTS
  TypeOK
  AtMostOneEntry
  HolderIsOnRecord
PROPERTIES
  ImplementsTaskBoard
CHECK_DEADLOCK FALSE
