SPECIFICATION Spec
CONSTANTS
  RuleOrder <- MCRuleOrder
  MaxIterations = 3
  MaxScenarios = 2
  MaxRetries = 1
  RuleCap = 2
  RunCap = 3
  Bills = {0, 2}
  MaxBill = 2
  Estimates = {0, 1, 3}
  MaxEstimate = 3
  OtherIds = {"SCN_LLM"}
  Answers <- MCAnswers
  Reviews <- MCReviews
INVARIANTS
  TypeOK
  CapsHold
  SpentIsBounded
  AtMostOneRefinement
  EachScenarioOnce
  FeedbackMatchesResults
PROPERTIES
  LoopEnds
CHECK_DEADLOCK FALSE
