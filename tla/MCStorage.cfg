\* Saves, completions and reads without failures.
SPECIFICATION FairSpec
CONSTANTS
  LastChunk = 3
  Readers = {r1, r2}
  NotFound = NotFound
  NoFile = NoFile
INVARIANTS
  TypeOK
  ExtensionTells
  AckedIsServed
  FlagsInRange
  ListedIsServed
PROPERTIES
  ImplementsStore
