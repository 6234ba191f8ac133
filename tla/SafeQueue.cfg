\* Two producers, three consumers, any calls.
SPECIFICATION FairSpec
CONSTANTS
  Producers = {p1, p2}
  Consumers = {c1, c2, c3}
  Items = {a, b}
  Calls = {"pop", "try_pop", "purge"}
  Capacity = 2
  Pending = Pending
  Nothing = Nothing
INVARIANTS
  TypeOK
  NoLostWakeup
PROPERTIES
  ImplementsFifo
  SleepersServed
