\* A reader, a sender, and a third connection that reuses address or descriptor.
SPECIFICATION FairSpec
CONSTANTS
  c1 = c1
  c2 = c2
  c3 = c3
  a = a
  b = b
  Conns = {c1, c2, c3}
  Readers = {c1, c3}
  Senders = {c2}
  Addrs = {a, b}
  Addr <- MCAddr
  Unset = Unset
  None = None
  FDs = {1, 2, 3}
INVARIANTS
  TypeOK
  RegistryExact
  OwnDescriptor
  RelayedToAddressee
PROPERTIES
  RequestAnswered
  EndedIsForgotten
\* All connections are over, or the process is.
CHECK_DEADLOCK FALSE
