\* A 12 channel board, whose channel 7 is fed by channel 6.
SPECIFICATION FairSpec
CONSTANTS
  Confs <- TwelveChannels
  LiteralNames <- MCLiteralNames
  StatusValues <- MCStatusValues
  MaxFaults = 1
INVARIANTS
  TypeOK
  PulsesAsConfigured
PROPERTY
  CommandsEnd
