\* Two hosts; of the two texts one reads as an address and does not resolve.
SPECIFICATION FairSpec
CONSTANTS
  Hosts = {h1, h2}
  Texts = {plain, named}
  Hostlike = {named}
  Server = Server
  Unknown = Unknown
  MaxSent = 4
INVARIANTS
  TypeOK
  DiesByMistake
PROPERTIES
  LearnsOwnAddress
  WaiterReturns
\* A host may wait for a datagram that was lost.
CHECK_DEADLOCK FALSE
