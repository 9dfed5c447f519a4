SPECIFICATION FairSpec
CONSTANTS
  Callers = {c1}
  Devices = {d1}
  Ops = {"SET_GROUP"}
  Values = {v0}
  Waits = {TRUE, FALSE}
  MaxAttempts = 2
  MaxCalls = 2
  MaxStates = 1
PROPERTIES
  ImplementsContract
  EveryCallReturns
CHECK_DEADLOCK FALSE
