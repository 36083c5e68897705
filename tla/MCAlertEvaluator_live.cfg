CONSTANTS
  Rules <- OneRule
  Devices <- OneDevice
  Callers = {loop, request}
  Loop = loop
  RuleRows <- ResendRows
  NoRule = NoRule
  Values <- TwoValues
  NoSample = NoSample
  MaxFor = 1
  MaxResend = 2
  Allowed = {"sample", "rule", "device", "dbfail", "crash"}
  MaxEvents = 3
  MaxIncidents = 3
SPECIFICATION FairSpec
PROPERTIES
  AlertsFollowState
