CONSTANTS
  Rules <- OneRule
  Devices <- OneDevice
  Callers = {loop, request}
  Loop = loop
  RuleRows <- OnceRows
  NoRule = NoRule
  Values <- TwoValues
  NoSample = NoSample
  MaxFor = 1
  MaxResend = 0
  Allowed = {"sample", "rule", "device", "hub", "live", "dbfail", "crash"}
  MaxEvents = 4
  MaxIncidents = 3
SPECIFICATION Spec
INVARIANTS
  TypeOK
  IncidentsTracked
  OneIncidentPerEpisode
PROPERTIES
  FiresOnlyAfterFor
  ImplementsLifecycle
