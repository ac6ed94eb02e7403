SPECIFICATION Spec
CONSTANTS
  ObjectsOf <- FewOrMost
  Classes <- ClassTable
  Sizes = {0, 1, 2}
  MaxInodes = 2
  MaxMaps = 4
  Bytes = {1, 2}
  MaxLength = 3
  MaxOps = 4
  Places = {h1, h2, h3}
  Pids = {p1, p2}
  None = None
INVARIANTS ProxyMimics ClassesCreatedAsListed HalvesShareAudio ReadsAsHostStream StateArrives OwnedUntilAssigned
CHECK_DEADLOCK FALSE
