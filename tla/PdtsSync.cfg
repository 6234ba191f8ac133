\* Safety of the synchronisation, with failures and restarts at every step.
SPECIFICATION FairSpec
CONSTANTS
  Targets <- MCTargets
  StatusValues <- MCStatusValues
INVARIANTS
  TypeOK
  ClockFromReleasedEndpoint
  SyncedToTarget
  NoNeedlessReset
PROPERTIES
  ImplementsTimingBoard
  CallEnds
