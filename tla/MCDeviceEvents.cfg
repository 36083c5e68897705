CONSTANTS
  Devices = {d1, d2}
  Lookback = 2
  Allowed = {"link", "toggle", "insert", "query", "rows", "record", "crash"}
  MaxEvents = 2
  MaxTime = 3
SPECIFICATION FairSpec
INVARIANTS
  TypeOK
  TransitionsNoted
PROPERTIES
  TransitionIsNoted
