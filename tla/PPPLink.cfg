CONSTANTS
  TableLen = 1
  MaxRefusals = 1
  MaxFaults = 0
  MaxDrops = 0
SPECIFICATION Spec
PROPERTY OkMeansLink
CHECK_DEADLOCK FALSE
