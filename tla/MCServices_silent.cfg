CONSTANTS
  Services = {"lldp"}
  Callers = {c1, c2}
  Times = {0, 2, 5}
  Window = 2
  MaxCalls = 4
  a1 = a1
  a2 = a2
  w1 = w1
  w2 = w2
  d1 = d1
  r1 = r1
  r2 = r2
  o1 = o1
  u1 = u1
  u2 = u2
  h1 = h1
  h2 = h2
  c1 = c1
  c2 = c2
  None = None
  Junk = Junk
  Addrs = {a1, a2}
  Devices = {d1}
  Unknown = Unknown
  Gone = Gone
  Workers = {w1, w2}
  QueueSize = 1
  Rate = 1
  Burst = 1
  LogEvery = 1
  LastTick = 1
  MaxLines = 4
  Oids <- TwoOids
  Patterns <- ThreePatterns
  Accepted = {"public"}
  NoRule = NoRule
  MaxArcs = 3
  MaxRules = 3
  MaxTraps = 1
  Top <- CounterTops
  MaxStep = 2
  MaxCarried = 2
  NoRate = NoRate
  Intervals = {0}
  Graces <- TwoGraces
  DefaultInterval = 1
  LastTime = 2
  NotYet = NotYet
  Olts = {o1}
  Onus = {u1, u2}
  Ports = {1, 2}
  VendorOf <- OwnVendor
  Mapped = {o1}
  Healths = {"good", "weak"}
  Absent = Absent
  Conns = {k1, k2, k3}
  Nested = {t1, t2, t3}
  Plain = {p1, p2}
  Requests = {t1, p1}
  Nobody = Nobody
  Clients = {c1, c2}
  SessionTTL = 1
  PendingTTL = 1
  LastHour = 1
  MaxIssued = 2
  MaxSecret = 1
  Groups = {1}
  Browsers = {c1, c2}
  Buffer = 1
  MaxLatest = 1
  Pushers = {c1, c2}
  Texts = {1}
  Torn = 0
  MaxVersions = 2
  MaxStores = 4
  Nodes = {h1, h2, d1}
  Cables <- OneCable
  KnownLinks <- LinksThere
  Starters = {c1, c2}
  MaxCycles = 2
  MaxChanges = 1
  Hosts = {h1, h2}
  Importers = {c1, c2}
  MaxScans = 2
  MaxJobs = 1
  MaxRequests = 3
  Levels = {1, 2}
  Thresholds = {2, 3}
  Lookback = 2
  AtRest = AtRest
  LastHostTime = 3
  NotifiedRules = {r1, r2}
  NotifiedDevices = {d1}
  CriticalRules = {r1}
  ChannelSettings <- AllSettings
  NoName = NoName
  MaxNotices = 3
  Given <- Config
  GivenLinks <- ConfigLinks
  NewNames <- NewDevice
  NoBundle = NoBundle
  LastId = 18
  MaxRestores = 2
  MaxEdits = 1
  NoValue = NoValue
  MaxEvents = 2
  Boxes = {1, 2}
  PortNames = {"e1", "e10"}
  Contained <- PartOf
  Orders <- OneOrder
  LinkGroups = {1}
  CablePairs <- OnePair
  MaxLinks = 2
  MaxFlips = 1
  Sampled = {"device"}
  FeedIds = {2}
  FeedLookback = 0
  MaxFeedTime = 1
  MaxReadings = 2
  MaxAlerts = 1
  MaxFeeds = 1
  MaxMoves = 1
  Real = {h1, h2}
  Stranger = Stranger
  Sketches <- OneOrTwoDrawn
  Visitors = {c1, c2}
  MaxCanvasId = 5
  MaxNeighbors = 2
  MaxPasses = 2
  MaxDraws = 1
INIT Begin
NEXT Step
CHECK_DEADLOCK FALSE
INVARIANTS
  LinksKeptWhileSilent
