SPECIFICATION Spec
CONSTANTS
  d1 = d1
  Devices = {d1}
  Home = home
  g1 = g1
  g2 = g2
  UserGroups = {g1, g2}
  Reserved = {}
  w1 = w1
  Workers = {w1}
  r1 = r1
  Routes = {r1}
  Foreign = {}
  Attempts = 2
  MaxTasks = 2
  MaxDeletes = 1
  MaxFaults = 0
PROPERTIES
  DeletionReachesNodes
CHECK_DEADLOCK FALSE
