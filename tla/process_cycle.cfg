SPECIFICATION Spec
CONSTANTS
  Vst3HostData <- Vst3Data
  Vst3Output <- Vst3Outputs
  ClapHostData <- ClapData
  ClapOutput <- ClapOutputs
  InChannels <- Stereo
  OutChannels <- Stereo
  MaxCycles = 2
  Null = Null
  Default = Default
INVARIANTS PluginSeesThisCycle HostGetsThisCycle
CHECK_DEADLOCK FALSE
