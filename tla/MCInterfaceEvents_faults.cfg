CONSTANTS
  Devices = {d1}
  PortNumbers = {1}
  Limit = 1
  Allowed = {"port", "walk", "prior", "save", "refresh", "scan", "record", "crash", "init"}
  MaxEvents = 3
  MaxId = 4
SPECIFICATION FairSpec
INVARIANTS
  TypeOK
  TransitionsTellHistory
PROPERTIES
  TransitionIsReported
