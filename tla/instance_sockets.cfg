SPECIFICATION Spec
CONSTANTS
  Instances = {a, b}
  NoInstance = NoInstance
INVARIANTS InstanceInv ConnectFindsListener ReceivingHasSocket InstanceComesUp RemovalEnds
SYMMETRY Sym
CHECK_DEADLOCK FALSE
