SPECIFICATION Spec
CONSTANTS
  GroupIdMax = 254
  MaxActions = 3
  MaxEntries = 2
  MaxChildren = 1
  m1 = m1
  Macs = {m1}
  NoMac = nomac
  Home = home
  UserGroups = {g1, g2}
  Labels = {l1}
  Drafts <- AllDrafts
  MaxIds = 2
  MaxFaults = 2
  MaxDeletes = 2
INVARIANTS
  TypeOK
  Addressable
  CleanCache
  CleanReferences
PROPERTIES
  NoIdReused
SYMMETRY UserGroupsMayBeSwapped
