\* stop leaves channels of a 12 channel board pulsing.
SPECIFICATION Spec
CONSTANTS
  Confs <- OnlyTwelve
  LiteralNames <- MCLiteralNames
  StatusValues <- MCStatusValues
  MaxFaults = 0
INVARIANT
  StopEndsPulsing
