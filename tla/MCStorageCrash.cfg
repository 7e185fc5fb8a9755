\* The process may end at any point of a save.
SPECIFICATION CrashSpec
CONSTANTS
  LastChunk = 4
  Readers = {r1}
  NotFound = NotFound
  NoFile = NoFile
INVARIANTS
  AckedOnDisk
PROPERTIES
  DeletedOnlyWhenWhole
