SPECIFICATION Spec
CONSTANTS
  r1 = r1
  r2 = r2
  low = low
  high = high
  NULL = NULL
  Backends = {"sqlite"}
  Rules = {r1, r2}
  MaxVersion = 2
  Texts = {low, high}
  Contradicting <- Contradictions
  Seeds = {r1}
  SeedText <- SeedTexts
  Clients = {"c1"}
  MaxRequests = 6
INVARIANT
  OneApprovedVersion
CHECK_DEADLOCK FALSE
