SPECIFICATION Spec
CONSTANTS
  UserFlags = {"offset_mode"}
  NoDevice = nodevice
  NoRef = noref
  BadParams = bad
  d0 = d0
  d1 = d1
  d2 = d2
  d3 = d3
  stranger = stranger
  p1 = p1
  fx = fx
  Runs = {r1, r2}
  Scenes <- ManyScenes
  Devices = {d0, d1, d2, d3}
  GroupOf <- DeviceGroups
  AllPresets <- OnePreset
  MaxFaults = 1
INVARIANTS
  OffsetsReachParticipants
  ChildrenStayInside
  ReportMatchesWire
CHECK_DEADLOCK FALSE
