SPECIFICATION StoreSpec
CONSTANTS
  t1 = t1
  t2 = t2
  t3 = t3
  c1 = c1
  c2 = c2
  s1 = s1
  s2 = s2
  Token = {t1, t2, t3}
  Until <- UntilSpread
  Window = 1
  Slot = {s1, s2}
  Conn = {c1, c2}
  Budget = 1
  MaxTime = 3
  MaxGen = 2
  MaxFaults = 2
  k0 = k0
  k1 = k1
  k2 = k2
  k2x = k2x
  p00 = p00
  p01 = p01
  p01x = p01x
  p10 = p10
  p11 = p11
  p11x = p11x
  keyA = keyA
  keyB = keyB
  pinX = pinX
  pinY = pinY
  svc = svc
  KeysetOf <- Keysets
  PolicyOf <- Policies
  Genesis = Genesis
  NoState = NoState
  NoPolicy = NoPolicy
  Nobody = Nobody
  Skew = 1
  PolicyTTL = 6
  KeysetTTL = 7
  Overlap = 2
  Client = {c1, c2}
  MaxPolicyTime = 3
  MaxPolicyFaults = 1
  Families <- MCFamilies
  Boxes <- MCBoxes
  Deadlines <- MCDeadlines
SYMMETRY Alike
INVARIANTS ReplaySound PolicySound ClientFailsClosed
PROPERTIES ReplayAdvances PolicyAdvances BarrierOutlivesStartup
CHECK_DEADLOCK FALSE
