\* The call that logs that it gives up goes on waiting.
SPECIFICATION FairSpec
CONSTANTS
  Targets <- LiveTargets
  StatusValues <- LiveStatusValues
PROPERTY
  GivesUpAfterFiveTries
