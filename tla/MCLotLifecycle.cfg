SPECIFICATION Spec
CONSTANTS
  Handlers = {h1, h2}
  Requests = {"create", "confirm", "inspect", "audit", "accept", "settle"}
  Producers = {p1}
  Weights = {1, 2}
  MaxVersion = 1
  Capacity = 2
  Runs = {r1}
  Results = {"pass", "review_required"}
  Disputes = {d1}
  MaxSettlements = 2
  MaxAttempts = 2
  MaxRounds = 1
  FaultKinds = {"receipt", "network", "api", "worker", "query"}
  MaxFaults = 1
INVARIANTS
  TypeOK
  BookedIsPaid
  SettledLotIsPaid
  PaymentWasAccepted
  VerdictWasReported
  SettledMatches
PROPERTIES
  CompletedJobIsAttested
SYMMETRY Interchangeable
CHECK_DEADLOCK FALSE
