SPECIFICATION Spec
CONSTANTS
  Sessions = {s1, s2}
  Handlers = {h1, h2}
  MaxAttempts = 2
  MaxStalls = 1
  FaultKinds = {"crash", "delivery", "worker"}
  MaxFaults = 1
  MaxBuyerUsdc = 2
INVARIANTS
  TypeOK
  BooksBackedByEscrow
  DepositsArePaidFor
  OneDepositPerPayment
PROPERTIES
  FundedOutlivesRetries
SYMMETRY Interchangeable
CHECK_DEADLOCK FALSE
