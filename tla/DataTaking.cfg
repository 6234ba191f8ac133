\* Starts and Stops that may throw, over a socket that gives one word at a time.
SPECIFICATION FairSpec
CONSTANTS
  MaxEvents = 3
  MaxBody = 2
  MaxFaults = 1
  WordBase = 4
  Period = 75
  Offsets <- MCOffsets
INVARIANTS
  TypeOK
  NoEventCutOff
  WholeEvents
PROPERTIES
  InOrderFromThisRun
  StampsTellTheTime
  CallsEnd
