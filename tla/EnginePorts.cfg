CONSTANTS
  c = "c"
  d = "d"
  l = "l"
  v = "v"
  Request <- MCRequest
  Id = {"c", "d", "l"}
  Name = {"v"}
  NoName = "-"
  DeviceResult <- MCResult
  Reading = {"0", "1"}
  PortCount = 2
  ResultSize = 4
  Depth = 4
  Text <- MCText
  Part <- MCPart
  Strip <- MCStrip
SPECIFICATION Spec
PROPERTY PortsAreReadable
CHECK_DEADLOCK FALSE
