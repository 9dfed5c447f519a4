SPECIFICATION FairSpec
CONSTANTS
  Senders = {s1, s2}
  MaxSends = 1
  MaxNoise = 1
INVARIANTS
  NoStaleRegistration
  CleanAttribution
PROPERTIES
  ImplementsContract
  EverySendReturns
  UnplugIsNoticed
CHECK_DEADLOCK FALSE
