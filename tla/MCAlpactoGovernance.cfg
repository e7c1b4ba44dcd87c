SPECIFICATION Spec
CONSTANTS
  operator = operator
  buyer = buyer
  producer = producer
  coop = coop
  Core = Core
  ZeroAddress = ZeroAddress
  Orders = {o1, o2}
  Lots = {l1}
  Accounts = {operator, buyer, producer, coop}
  Admin = operator
  DeploymentGrants <- GovernanceGrants
  Grantable <- GovernanceGrantable
  DeploymentTreasury = ZeroAddress
  Treasuries = {Core, ZeroAddress}
  Associations = {coop}
  Producers = {producer}
  InitialUsdc <- GovernanceUsdc
  TransferAmounts = {1}
  PaymentRefs = {r1, r2}
  Amounts = {1}
  Targets = {1}
  Weights = {1}
  Splits <- GovernanceSplits
  MaxVersion = 1
  UintMod = 7
INVARIANTS
  Solvent
  AcceptedShareHasTreasury
  PayableLotSettles
SYMMETRY GovernanceInterchangeable
CHECK_DEADLOCK FALSE
