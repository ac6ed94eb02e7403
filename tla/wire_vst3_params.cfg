SPECIFICATION WireSpec
CONSTANTS
  Vst3 = TRUE
  PathLength = 3
  MaxRequests = 2
  ParamIds <- MCIdsVst3
  Values <- MCValues
  SetValues <- MCSetValuesVst3
  ToFloat <- MCToFloat
  Initial <- MCInitialVst3
  Blocks <- MCBlocksVst3
INVARIANT HostInSync
CHECK_DEADLOCK FALSE
