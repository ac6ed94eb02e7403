SPECIFICATION Spec
CONSTANTS
  uiThread = uiThread
  audioThread = audioThread
  v1 = v1
  v2 = v2
  NoThread = NoThread
  Absent = Absent
  Default = Default
  Interfaces <- BridgeInterfaces
  Variants <- BridgeVariants
  RequestLevel <- BridgeRequestLevel
  AnswerShows <- BridgeAnswerShows
  Cyclic <- PerBlock
  Described <- AlwaysDescribed
  Threads <- ThreadSet
  Values <- ValueSet
  MaxCalls = 2
INVARIANTS NothingStale LinesPaired ProcessingIsQuiet FailuresShowNoData
SYMMETRY Sym
CHECK_DEADLOCK FALSE
