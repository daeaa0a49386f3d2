SPECIFICATION LiveSpec
CONSTANTS
  t1 = t1
  t2 = t2
  t3 = t3
  a1 = a1
  a2 = a2
  flow = flow
  exec = exec
  AnyType = AnyType
  NULL = NULL
  Tasks = {t1, t2}
  Agents = {a1}
  TypeOf <- TypeMap
  Serves <- ServeMap
  MaxRetries = 3
  BatchSize = 10
PROPERTY
  PostedIsTaken
CHECK_DEADLOCK FALSE
