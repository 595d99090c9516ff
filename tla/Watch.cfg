CONSTANTS
  p = p
  d = d
  Key <- MCKey
  ProgramKey <- MCProgramKey
  DeviceKey <- MCDeviceKey
  Stream = {s1}
  MaxLen = 2
  MinInterval = 2
  MaxLag = 1
  MaxTime = 2
  MaxSeq = 4
  MaxOwed = 3
  MaxGeneration = 2
SPECIFICATION Spec
INVARIANT EdgesReachStream
INVARIANT LevelsAgree
INVARIANT EdgesSpaced
PROPERTY ViewFollows
PROPERTY SampleClockMonotone
