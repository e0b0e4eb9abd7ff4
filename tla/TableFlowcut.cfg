SPECIFICATION Spec
CONSTANTS
  TorS = TorS
  TorD = TorD
  AggS1 = AggS1
  AggS2 = AggS2
  AggD1 = AggD1
  AggD2 = AggD2
  Core1 = Core1
  Core2 = Core2
  Core3 = Core3
  Switches = {TorS, TorD, AggS1, AggS2, AggD1, AggD2, Core1, Core2, Core3}
  Source = Source
  NoNode = NoNode
  Paths = {1, 2, 3}
  Hops <- ThreeTierHops
  HotPath = 3
  DetourPath = 1
  NPackets = 3
  PacketSize = 4160
  AckedSize = 4160
  Routing = "flowcut"
  MaxTrims = 0
  MaxReuse = 0
INVARIANTS
  TypeOK
  NeverAborts
  InFlightIsOutstanding
  AcksRetrace
  TableInv
CHECK_DEADLOCK FALSE
