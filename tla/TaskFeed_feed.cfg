SPECIFICATION FairSpec
CONSTANTS
  Handlers = {h1}
  Runners = {r1}
  Rx = rx
  Clients = {c1}
  MaxTasks = 2
  MaxEvents = 1
INVARIANTS
  OneTaskAtATime
  CleanFeed
  CleanCounter
PROPERTIES
  BusyEnds
CHECK_DEADLOCK FALSE
