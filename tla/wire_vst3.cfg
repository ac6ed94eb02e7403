SPECIFICATION WireSpec
CONSTANTS
  Vst3 = TRUE
  PathLength = 3
  MaxRequests = 3
  ParamIds <- MCIdsVst3
  Values <- MCValues
  SetValues <- MCSetValuesVst3
  ToFloat <- MCToFloat
  Initial <- MCInitialVst3
  Blocks <- MCBlocksVst3
INVARIANT PageInSync
CHECK_DEADLOCK FALSE
