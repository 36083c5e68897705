CONSTANTS
  Devices = {d1}
  Lookback = 9
  Allowed = {"link"}
  MaxEvents = 1
  MaxTime = 3
SPECIFICATION Spec
INVARIANTS
  NoTransitionMissed
