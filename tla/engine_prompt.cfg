CONSTANTS
  Defaults <- MCDefaults
  Configs <- OneSlot
  Headers <- UsedUpOrNew
  Lags <- NowStamped
  RawClasses = {"P1_HIGH"}
  Demands = {1}
  RetryAfters = {1}
  MaxLag = 0
  DemandCap = 1
  UsedCap = 2
  Fleet = 2
  Appliances = {a1, a2}
  Conns = {c1, c2}
  Tokens = {1, 2, 3, 4, 5, 6}
  MaxQueue = 2
  AgingWeight = 120
  PollTimeout = 2
  Expiry = 0
  NotifyCap = 1
  MaxPending = 1
  Prompt = TRUE
SYMMETRY Symmetry
SPECIFICATION LatencySpec
INVARIANTS
  EngineTypeOK
  SlotAccounting
  WaitXorHold
  NoHandlerOrphaned
  TicketAgeBound
  ServedWithinAPeriod
PROPERTIES
  TicketEndsByReportOrExpiry
  QuotaSpec
  KeepsLeases
