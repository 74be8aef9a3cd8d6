CONSTANTS
  a1 = a1
  a2 = a2
  a3 = a3
  Appliances = {a1, a2, a3}
  ClassOf <- MCClassOf
  Defaults <- MCDefaults
  Configs <- PlainConfig
  Headers <- PlainHeaders
  Lags <- MCLags
  RawClasses = {"P1_HIGH", "P2_MEDIUM"}
  Demands = {1}
  RetryAfters = {1}
  MaxLag = 1
  DemandCap = 2
  UsedCap = 3
  Fleet = 3
  MaxQueue = 3
  AgingWeight = 10
  PollTimeout = 3
SPECIFICATION SchedulingSpec
INVARIANT BudgetsBoundDispatch
PROPERTY ServedInOrder
SYMMETRY Symmetry
