SPECIFICATION Spec
CONSTANTS
  TorS = TorS
  TorD = TorD
  AggS1 = AggS1
  AggS2 = AggS2
  AggD1 = AggD1
  AggD2 = AggD2
  Core1 = Core1
  Core2 = Core2
  Core3 = Core3
  Switches = {TorS, TorD, AggS1}
  Source = Source
  NoNode = NoNode
  Paths = {1}
  Hops <- OnePathHops
  HotPath = 0
  DetourPath = 1
  NPackets = 2
  PacketSize = 4160
  AckedSize = 4160
  Routing = "flowcut"
  MaxTrims = 1
  MaxReuse = 1
INVARIANTS
  NeverAborts
CHECK_DEADLOCK FALSE
