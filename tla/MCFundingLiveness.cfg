SPECIFICATION FairSpec
CONSTANTS
  Sessions = {s1, s2}
  Handlers = {h1}
  MaxAttempts = 2
  MaxStalls = 1
  FaultKinds = {"crash", "delivery", "worker"}
  MaxFaults = 0
  MaxBuyerUsdc = 2
PROPERTIES
  PaymentResolved
CHECK_DEADLOCK FALSE
