\* A short read completes a file with a chunk that was not received.
SPECIFICATION ShortSpec
CONSTANTS
  LastChunk = 2
  Readers = {r1}
  NotFound = NotFound
  NoFile = NoFile
INVARIANTS
  CompletedIsWhole
\* Over a garbled part the program has no defined next step.
CHECK_DEADLOCK FALSE
