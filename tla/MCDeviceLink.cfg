CONSTANTS
  d1 = d1
  d2 = d2
  p1 = p1
  p2 = p2
  Devices = {d1, d2}
  Ports = {p1, p2}
  Named = {d1}
  Threshold = 1
  MaxMagic = 1
  MaxMoves = 3
  MaxFaults = 1
  MaxReports = 1
SPECIFICATION FairSpec
INVARIANTS PortsAgree PanicsOnlyAfterReset
PROPERTIES Converges
CHECK_DEADLOCK FALSE
