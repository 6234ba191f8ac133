\* The emulator thread and its user, over a buffer of two events.
SPECIFICATION FairSpec
CONSTANTS
  EventWords = 3
  Capacity = 6
INVARIANTS
  TypeOK
  StoppedIsEmpty
  PurgeNeverWaits
PROPERTY
  CallsEnd
