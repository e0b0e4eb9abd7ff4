SPECIFICATION FairSpec
CONSTANTS
  Paths = {0, 1, 2}
  FromPath = 0
  HotPath = 1
  DetourPath = 2
  NPackets = 3
  Cwnd = 2
  Routing = "flowcut"
  FlowcutMode = 0
  MaxTrims = 1
  UintMax = 15
CHECK_DEADLOCK FALSE
PROPERTIES
  NackedIsResent
