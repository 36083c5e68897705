CONSTANTS
  Rules <- OneRule
  Devices <- OneDevice
  Callers = {loop}
  Loop = loop
  RuleRows <- ForRows
  NoRule = NoRule
  Values <- TwoValues
  NoSample = NoSample
  MaxFor = 2
  MaxResend = 0
  Allowed = {"sample", "crash"}
  MaxEvents = 2
  MaxIncidents = 2
SPECIFICATION FairSpec
PROPERTIES
  NoIncidentOpenForever
