SPECIFICATION RecordSpec
CONSTANTS
  chain = chain
  endpoint = endpoint
  bypass = bypass
  other = other
  Resource = {chain, endpoint, bypass, other}
  Kind <- KindOf
  Class <- ClassOf
  Base <- BaseOf
  MaxOps = 4
  ByteCap = 3
  CompactAt = 2
  MaxGen = 10
  MaxFaults = 2
  r1 = r1
  r2 = r2
  p1 = p1
  p2 = p2
  Route = {r1, r2}
  Path = {p1, p2}
  DrainBound = 4
  MaxPasses = 2
  QueueRoom = 3
  MaxGeneration = 6
  MaxChanges = 2
  MaxOwn = 2
  Events <- MCEvents
  max_events = 5
  MaxReported = 6
  MaxDropped = 1
  MaxElapsed = 0
  Estimator <- MCEstimator
  Gate <- MCGate
  Outcomes <- MCOutcomes
  Rivals <- MCRivals
  MaxCount = 4
  MaxWindows = 4
  MaxHealthClock = 4
  min_rate = 1
  max_rate = 3
  reference_rate = 6
  ewma = 2
  k_frac = 2
  JitterPercent = {100, 115}
  BurstMin = 2
  BurstMax = 3
  SliceMin = 1
  SliceMax = 3
  DeliveredFloor = 2
  RttHealthFloor = 10
  StallLo = 1
  StallHi = 3
  Packets = {4}
  PeerBytes = {4}
  Rtts = {1, 2}
  FreezeSamples = 3
  Runs = {u1, u2}
  Total = 1
  ValidRun <- validate_trace
  MaxTracePowerLosses = 1
SYMMETRY Alike
INVARIANTS JournalSound TraceSound ObservationSound
PROPERTIES RefinesLog TraceNeverReplaced
CHECK_DEADLOCK FALSE
