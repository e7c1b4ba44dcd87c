SPECIFICATION Spec
CONSTANTS
  operator = operator
  buyer = buyer
  producer = producer
  coop = coop
  Core = Core
  ZeroAddress = ZeroAddress
  Orders = {o1}
  Lots = {l1, l2}
  Accounts = {operator, buyer, producer, coop}
  Admin = operator
  DeploymentGrants <- MCGrants
  Grantable = {}
  DeploymentTreasury = coop
  Treasuries = {}
  Associations = {coop, Core}
  Producers = {producer}
  InitialUsdc <- MCUsdc
  TransferAmounts = {}
  PaymentRefs = {r1, r2}
  Amounts = {2}
  Targets = {3}
  Weights = {1, 2}
  Splits <- MCSplits
  MaxVersion = 2
  UintMod = 11
INVARIANTS
  TypeOK
  WeightAccounting
  WithinTarget
  HoldsCurrentWeight
  AcceptedIsAudited
  Solvent
  FundsConserved
  RemainderRecoverable
  PayableLotSettles
SYMMETRY Interchangeable
PROPERTIES
  ImplementsEscrowLedger
  AcceptedTermsFrozen
CHECK_DEADLOCK FALSE
