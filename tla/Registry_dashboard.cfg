SPECIFICATION Spec
CONSTANTS
  Backends = {"memory", "docker"}
  MaxRequests = 1
  MaxRuns = 1
  MaxSteps = 1
  Conns = {"c1"}
  QueueSize = 2
INVARIANTS
  EveryEventIsRouted
CHECK_DEADLOCK FALSE
