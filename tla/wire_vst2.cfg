SPECIFICATION WireFairSpec
CONSTANTS
  Vst3 = FALSE
  PathLength = 3
  MaxRequests = 2
  ParamIds <- MCIds
  Values <- MCValues
  SetValues <- MCSetValues
  ToFloat <- MCToFloat
  Initial <- MCInitial
  Blocks <- MCBlocks
INVARIANTS WireTypeOK HostInSync PageInSync NothingHeldBack
PROPERTIES LinkImplemented
CHECK_DEADLOCK FALSE
