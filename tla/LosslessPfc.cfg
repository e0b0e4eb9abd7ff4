SPECIFICATION Spec
CONSTANTS
  Hosts = {h}
  Uplinks = {s}
  Outputs = {o}
  Prios = {0, 2}
  NoPacket = NoPacket
  PacketSize = 2
  High = 3
  Low = 2
  MaxWire = 1
  MaxBacklog = 2
  MaxDrain = 1
  MaxExpired = 1
INVARIANTS
  TypeOK
  HostKeepsItsPackets
  IngressCountsTheQueues
  NoLostWakeUp
  HeadroomSuffices
PROPERTIES
  PausedSendersGoOn
