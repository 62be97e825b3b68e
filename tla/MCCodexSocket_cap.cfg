SPECIFICATION SocketSpec
CONSTANTS
  s1 = s1
  s2 = s2
  t1 = t1
  t2 = t2
  a = a
  b = b
  g1 = g1
  g2 = g2
  o1 = o1
  k1 = k1
  p1 = p1
  Socket = {s1, s2}
  Elsewhere = {}
  Token = {t1}
  TokenOf <- BothOne
  Slot = {a, b}
  Group = {g1}
  GroupOf <- OneGroup
  Oauth = {o1}
  Relay = {k1}
  Plain = {}
  MaxConc = 2
  MaxSess = 1
  MaxAcquire = 2
  BillQueue = 1
  MaxTurns = 1
  TurnsOf <- OneEach
  MaxUsage = 0
INVARIANT SessionsCapped
CHECK_DEADLOCK FALSE
