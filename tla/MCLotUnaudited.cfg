SPECIFICATION Spec
CONSTANTS
  Handlers = {h1}
  Requests = {"create", "confirm", "decline", "resolve", "inspect", "reweigh", "audit", "accept", "settle", "payout"}
  Producers = {p1, p2}
  Weights = {1, 2}
  MaxVersion = 2
  Capacity = 1
  Runs = {r1}
  Results = {"pass", "review_required"}
  Disputes = {d1}
  MaxSettlements = 1
  MaxAttempts = 2
  MaxRounds = 3
  FaultKinds = {}
  MaxFaults = 0
INVARIANTS
  AcceptedVersionWasAudited
CHECK_DEADLOCK FALSE
