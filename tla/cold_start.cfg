CONSTANTS
  Defaults <- MCDefaults
  Configs <- PlainConfig
  Headers <- PlainHeaders
  Lags <- PromptLags
  RawClasses = {"P1_HIGH"}
  Demands = {2}
  RetryAfters = {1}
  MaxLag = 0
  DemandCap = 2
  UsedCap = 3
  Fleet = 2
SPECIFICATION QuotaSpec
INVARIANT OneBootstrapRequest
