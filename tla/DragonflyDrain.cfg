SPECIFICATION Spec
CONSTANTS
  Routers <- MCRouters
  Hosts <- MCHosts
  Router <- MCRouter
  Hops <- MCHops
  Port0 <- MCPort0
  Messages = {1, 2}
  From <- MCFrom
  To <- MCTo
  Length <- MCLength
  flowcut_mode = 0
  flowcut_value = 2
  MPRSize = 2
  BufferSize = 2
CHECK_DEADLOCK FALSE
INVARIANT StopIsOnItsWay
