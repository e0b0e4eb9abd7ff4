SPECIFICATION FairSpec
CONSTANTS
  Paths = {0, 1, 2}
  FromPath = 0
  HotPath = 1
  DetourPath = 2
  NPackets = 3
  Cwnd = 2
  Routing = "flowlet"
  FlowcutMode = 2
  MaxTrims = 2
  UintMax = 15
CHECK_DEADLOCK FALSE
INVARIANTS
  OneLiveCopy
  CompletesOnce
PROPERTIES
  NackedIsResent
  FlowCompletes
