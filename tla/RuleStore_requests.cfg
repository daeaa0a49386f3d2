SPECIFICATION Spec
CONSTANTS
  r1 = r1
  r2 = r2
  low = low
  high = high
  NULL = NULL
  Backends = {"sqlite", "postgres"}
  Rules = {r1, r2}
  MaxVersion = 2
  Texts = {low, high}
  Contradicting <- Contradictions
  Seeds = {r2}
  SeedText <- SeedTexts
  Clients = {"c1", "c2"}
  MaxRequests = 5
INVARIANTS
  TypeOK
  SerialOneApproved
  RejectionHolds
  StatusesAgree
PROPERTIES
  ConflictsAreMarked
  NothingIsReplaced
CHECK_DEADLOCK FALSE
