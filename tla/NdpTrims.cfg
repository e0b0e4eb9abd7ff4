SPECIFICATION Spec
CONSTANTS
  Paths = {0, 1, 2}
  FromPath = 0
  HotPath = 1
  DetourPath = 2
  NPackets = 4
  Cwnd = 2
  Routing = "flowcut"
  FlowcutMode = 1
  MaxTrims = 2
  UintMax = 15
CHECK_DEADLOCK FALSE
INVARIANTS
  FlightConservation
  CreditConservation
  OneLiveCopy
  OneFlowcutInFlight
PROPERTIES
  SwitchOnlyWhenDrained
