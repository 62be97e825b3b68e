SPECIFICATION RelaySpec
CONSTANTS
  c1 = c1
  c2 = c2
  OAuth = {c1}
  Key <- NoKeys
  NoCred = NoCred
  MaxAttempts = 2
  MaxSheds = 1
  MaxRead = 5
INVARIANT BreakStaysOpen
CHECK_DEADLOCK FALSE
