\* A file of two chunks, downloaded once.
SPECIFICATION Spec
CONSTANTS
  LastChunk = 2
  MaxDownloads = 1
  Wanted = Wanted
  Peer = Peer
INVARIANTS
  ServedDownloadCompletes
CHECK_DEADLOCK FALSE
