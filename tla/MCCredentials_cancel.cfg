SPECIFICATION CredSpec
CONSTANTS
  r1 = r1
  r2 = r2
  o1 = o1
  k1 = k1
  k2 = k2
  Request = {r1, r2}
  Sub = {o1}
  Key = {k1, k2}
  Lenient = {k2}
  Asked = {"sol-high", "mars"}
  Names <- Spellings
  Tier <- Plans
  Offers <- Catalogs
  HardAfter = 3
  BreakAfter = 2
  MaxBearer = 2
  MaxFaults = 2
  MaxEvents = 2
PROPERTY CancelLeavesUntouched
CHECK_DEADLOCK FALSE
SYMMETRY Alike
