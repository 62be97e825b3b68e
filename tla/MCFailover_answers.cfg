SPECIFICATION FailoverSpec
CONSTANTS
  o1 = o1
  o2 = o2
  k1 = k1
  NoCred = NoCred
  OAuth = {o1, o2}
  Key = {k1}
  MaxAttempts = 5
  MaxSheds = 1
INVARIANT FailoverTypeOK
INVARIANT OneVoice
INVARIANT ChargedExactly
INVARIANT AskedWithinBounds
INVARIANT NotGivenUpEarly
INVARIANT RefusalIsReplayed
INVARIANT AnsweredOrLeft
PROPERTY Ends
CHECK_DEADLOCK FALSE
