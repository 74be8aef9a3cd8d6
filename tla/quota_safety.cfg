CONSTANTS
  Defaults <- MCDefaults
  Configs <- PenaltyConfigs
  Headers <- PenaltyHeaders
  Lags <- MCLags
  RawClasses = {"P1_HIGH", "other"}
  Demands = {2}
  RetryAfters = {0, 1, 2}
  MaxLag = 1
  DemandCap = 2
  UsedCap = 4
  Fleet = 2
SPECIFICATION LedgerSpec
INVARIANTS
  QuotaTypeOK
  LimitWithinBounds
  SustainedWithinLimit
  PenaltyHoldsBudget
  SplitExact
  TicketsWithinAllowance
PROPERTIES
  NoGrantDuringLockdown
  ResumesAtFullAllowance
  ViewsDoNotOverlap
