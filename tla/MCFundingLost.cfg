SPECIFICATION FairSpec
CONSTANTS
  Sessions = {s1}
  Handlers = {h1}
  MaxAttempts = 2
  MaxStalls = 1
  FaultKinds = {"crash"}
  MaxFaults = 1
  MaxBuyerUsdc = 2
PROPERTIES
  PaymentResolved
CHECK_DEADLOCK FALSE
