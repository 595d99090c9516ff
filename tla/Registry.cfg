SPECIFICATION Spec
CONSTANTS
  Caller = {c1, c2}
  Key = {5000, 5001}
  MaxClients = 3
  OutputSize = 2
  InputSize = 2
  HeaderBytes = 4
INVARIANT NoneLeftRunning
INVARIANT IntervalRestored
INVARIANT SizesAreFound
PROPERTY FailedStartKeepsOld
PROPERTY RequestsReturn
CHECK_DEADLOCK FALSE
