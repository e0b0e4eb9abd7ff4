SPECIFICATION Spec
CONSTANTS
  InitialSize = 3
  NoItem = NoItem
  NFlows = 3
  Priority <- TwoPriorities
  Pulls = {p1}
  DrainTime = 2
  MaxQueued = 3
INVARIANTS
  TypeOK
  QueuesAgree
  SomeTimerIsSet
  TimersBounded
PROPERTIES
  PacedUntilCompletion
  ImplementsFairPulls
  PullsGetOut
