CONSTANTS
  Defaults <- MCDefaults
  Configs <- Steady
  Headers <- NoHeaders
  Lags = {}
  RetryAfters = {}
  RawClasses = {"P1_HIGH"}
  Demands = {1}
  MaxLag = 0
  DemandCap = 1
  UsedCap = 4
  Fleet = 2
  Appliances = {a1, a2}
  Limit = 4
  Period = 2
  Punishment = 2
  Expiry = 1
  Orderly = FALSE
  Faults = {}
SYMMETRY Symmetry
VIEW Figures
SPECIFICATION UpstreamSpec
PROPERTY GrantsAreCovered
