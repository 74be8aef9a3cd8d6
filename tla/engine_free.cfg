CONSTANTS
  Defaults <- MCDefaults
  Configs <- OneSlot
  Headers <- UsedUpOrNew
  Lags <- NowStamped
  RawClasses = {"P1_HIGH"}
  Demands = {1}
  RetryAfters = {}
  MaxLag = 0
  DemandCap = 1
  UsedCap = 2
  Fleet = 2
  Appliances = {a1, a2}
  Conns = {c1, c2}
  Tokens = {1, 2, 3, 4, 5}
  MaxQueue = 1
  AgingWeight = 120
  PollTimeout = 2
  Expiry = 1
  NotifyCap = 1
  MaxPending = 0
  Prompt = FALSE
SYMMETRY Symmetry
VIEW UpToUuids
SPECIFICATION EngineSpec
INVARIANTS
  SlotAccounting
  WaitersAttached
  QueueBound
