SPECIFICATION FailoverSpec
CONSTANTS
  o1 = o1
  o2 = o2
  k1 = k1
  NoCred = NoCred
  OAuth = {o1, o2}
  Key = {k1}
  MaxAttempts = 5
  MaxSheds = 1
INVARIANT LeavingBlamesNobody
CHECK_DEADLOCK FALSE
