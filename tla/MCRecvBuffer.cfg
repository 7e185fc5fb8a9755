\* Two producers, two consumers and a ring of three slots.
SPECIFICATION FairSpec
CONSTANTS
  Producers = {p1, p2}
  Consumers = {c1, c2}
  Q_LEN = 3
  IntSize = 2
  Tags = {x, y}
  Junk = Junk
  Nobody = Nobody
INVARIANTS
  TypeOK
  NoLostWakeup
PROPERTIES
  FullGivesOldest
  ImplementsQueue
\* The process may end.
CHECK_DEADLOCK FALSE
