CONSTANTS
  Defaults <- MCDefaults
  Configs <- Steady
  Headers <- NoHeaders
  Lags = {}
  RetryAfters = {}
  RawClasses = {"P1_HIGH"}
  Demands = {1}
  MaxLag = 1
  DemandCap = 1
  UsedCap = 4
  Fleet = 2
  Appliances = {a1, a2}
  Limit = 4
  Period = 2
  Punishment = 2
  Expiry = 1
  Orderly = TRUE
  Faults = {"legacy", "crash", "restart"}
SYMMETRY Symmetry
VIEW Figures
SPECIFICATION UpstreamSpec
INVARIANTS
  NeverOvercommits
  LockdownOutlastsPenalty
  ImpliedUseIsForeign
