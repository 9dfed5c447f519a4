SPECIFICATION Spec
CONSTANTS
  Senders = {s1, s2}
  MaxSends = 1
  MaxNoise = 0
INVARIANT
  OverlapAttribution
CHECK_DEADLOCK FALSE
