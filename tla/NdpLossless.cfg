SPECIFICATION FairSpec
CONSTANTS
  Paths = {0, 1, 2}
  FromPath = 0
  HotPath = 1
  DetourPath = 2
  NPackets = 6
  Cwnd = 3
  Routing = "flowcut"
  FlowcutMode = 0
  MaxTrims = 0
  UintMax = 15
CHECK_DEADLOCK FALSE
INVARIANTS
  TypeOK
  InOrder
  LosslessInv
PROPERTIES
  SwitchOnlyWhenDrained
  FlowCompletes
  DrainEnds
  ImplementsInOrderDelivery
