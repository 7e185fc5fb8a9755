\* Two connections that overlap or not, and a failed accept.
SPECIFICATION FairSpec
CONSTANTS
  Conns = {c1, c2}
  Invalid = Invalid
  MaxThreads = 3
INVARIANTS
  TypeOK
  AnsweredOnce
  LoneIsAnswered
PROPERTIES
  NewestIsServed
  NewestIsClosed
\* All connections are over, or wait on one that is.
CHECK_DEADLOCK FALSE
