SPECIFICATION Spec
CONSTANTS
  Callers = {c1, c2}
  Devices = {d1}
  Ops = {"CONFIG", "SET_GROUP"}
  Values = {v0, v1}
  Waits = {TRUE, FALSE}
  MaxAttempts = 1
  MaxCalls = 1
  MaxStates = 1
SYMMETRY Interchangeable
INVARIANTS
  RegistryMatchesWaiters
  CleanSuccess
  CleanMirror
PROPERTIES
  NoSilentLoss
CHECK_DEADLOCK FALSE
