SPECIFICATION Spec
CONSTANTS
  d1 = d1
  d2 = d2
  d3 = d3
  Devices <- MCDevices
  SsidOf <- MCSsidOf
  Candidates <- MCCandidates
  Jobs <- MCJobs
  Retries = 2
  Locked <- MCLocked
  MaxJobs = 2
  MaxFaults = 3
INVARIANTS
  ApsClosed
  RadioRestored
PROPERTIES
  OkMeansDone
  OnlyTheExpected
  EveryRunEnds
CHECK_DEADLOCK FALSE
