SPECIFICATION Spec
CONSTANTS
  Backends = {"memory", "docker"}
  MaxRequests = 2
  MaxRuns = 1
  MaxSteps = 1
  Conns = {"c1", "c2"}
  QueueSize = 2
INVARIANTS
  TypeOK
  OneStory
  RecordMatchesStory
  StreamHasNoGap
  LeakIsBounded
PROPERTIES
  EveryRunEnds
  StayingReaderHearsAll
CHECK_DEADLOCK FALSE
