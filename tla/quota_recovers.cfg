CONSTANTS
  Defaults <- MCDefaults
  Configs <- PlainConfig
  Headers <- PlainHeaders
  Lags <- SkewedLags
  RawClasses = {"P1_HIGH"}
  Demands = {2}
  RetryAfters = {0, 2}
  MaxLag = 1
  DemandCap = 2
  UsedCap = 3
  Fleet = 2
SPECIFICATION QuotaFairSpec
PROPERTY RecoversAlone
