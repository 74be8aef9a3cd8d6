CONSTANTS
  Defaults <- MCDefaults
  Configs <- OneSlot
  Headers <- UsedUp
  Lags <- NowStamped
  RawClasses = {"P1_HIGH"}
  Demands = {1}
  RetryAfters = {1}
  MaxLag = 0
  DemandCap = 1
  UsedCap = 2
  Fleet = 2
  Appliances = {a1, a2}
  Conns = {c1, c2}
  Tokens = {1, 2, 3, 4, 5, 6}
  MaxQueue = 1
  AgingWeight = 120
  PollTimeout = 1
  Expiry = 0
  NotifyCap = 1
  MaxPending = 1
  Prompt = TRUE
SYMMETRY Symmetry
SPECIFICATION EngineSpec
PROPERTY HandedTokenIsLive
