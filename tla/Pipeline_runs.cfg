SPECIFICATION Spec
CONSTANTS
  Runs = {"r1", "r2"}
  Weights <- MCWeights
  CaseLists <- MCCaseLists
INVARIANTS
  VerdictIsOnOwnShipment
  OverweightIsCaught
  StoreFollowsApi
  RunsAreIsolated
  RequestsHaveGround
PROPERTIES
  EveryRunEnds
CHECK_DEADLOCK FALSE
