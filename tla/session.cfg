SPECIFICATION FairSpec
CONSTANTS
  ParamIds = {gain, mix}
  Values <- MCValues
  ToFloat <- MCToFloat
  Initial <- MCInitial
  Blocks <- MCBlocks
  SetValues <- MCSetValues
  MaxBlocks = 3
  MaxCalls = 2
  MaxSets = 1
INVARIANTS TypeOK LoadFirst NoBlockLost ResolverHasAnswer ReadYourWrites
PROPERTIES PlaysInOrder GetParamSettles BlockReturns
CHECK_DEADLOCK FALSE
