CONSTANTS
  Devices = {d1, d2}
  PortNumbers = {1}
  Limit = 2
  Allowed = {"port", "save", "scan", "record", "crash", "init"}
  MaxEvents = 2
  MaxId = 1
SPECIFICATION Spec
SYMMETRY Symmetry
INVARIANTS
  EventsOnceInOrder
  NoPromptRowSkipped
