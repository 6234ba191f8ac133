\* A conf that failed leaves its pulse mode behind.
SPECIFICATION Spec
CONSTANTS
  Confs <- BothModes
  LiteralNames <- MCLiteralNames
  StatusValues <- MCStatusValues
  MaxFaults = 1
INVARIANT
  OnePulseMode
