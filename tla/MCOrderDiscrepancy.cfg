SPECIFICATION Spec
CONSTANTS
  GramsPerKg = 10
  BpsDenom = 100
  UsdcScale = 400
  MicrosScale = 4
  CentavosPerSol = 10
  UnitsPerUsdCent = 4
  DefaultRate = 15
  Policies <- MCPolicies
  Categories = {"FINE", "DEAR"}
  FundingCategory = "FINE"
  Targets = {7, 19}
  Lots = {l1, l2, l3}
  Weights = {6, 7, 13}
  Readings <- MCReadings
  Documents <- MCDocuments
  MaxFunding = 700
  MaxDeposits = 2
INVARIANT DiscrepancyReviewed
CHECK_DEADLOCK FALSE
