\* A 5 channel board: commands that fail, are repeated, or find the board as an
\* ended process left it.
SPECIFICATION Spec
CONSTANTS
  Confs <- FiveChannels
  LiteralNames <- MCLiteralNames
  StatusValues <- MCStatusValues
  MaxFaults = 2
INVARIANTS
  PulsesAsConfigured
  StopEndsPulsing
  ConfiguredAsAsked
  TimingKept
PROPERTY
  ImplementsPdtsSync
