SPECIFICATION FairSocketSpec
CONSTANTS
  s1 = s1
  s2 = s2
  t1 = t1
  t2 = t2
  a = a
  b = b
  g1 = g1
  g2 = g2
  o1 = o1
  k1 = k1
  p1 = p1
  Socket = {s1, s2}
  Elsewhere = {s2}
  Token = {t1, t2}
  Slot = {a}
  Group = {g1, g2}
  TokenOf <- Strangers
  GroupOf <- OwnGroups
  Oauth = {o1}
  Relay = {}
  Plain = {p1}
  MaxConc = 2
  MaxSess = 1
  MaxAcquire = 2
  BillQueue = 1
  MaxTurns = 2
  TurnsOf <- TwoAndOne
  MaxUsage = 1
INVARIANT BilledTurnByTurn
INVARIANT HalfIsNeverNormal
INVARIANT ChainStaysInGroup
INVARIANT SeatsExact
PROPERTY TearsDown
CHECK_DEADLOCK FALSE
