\* A file of two chunks, downloaded twice.
SPECIFICATION FairSpec
CONSTANTS
  LastChunk = 2
  MaxDownloads = 2
  Wanted = Wanted
  Peer = Peer
INVARIANTS
  LoneDownloadCompletes
PROPERTIES
  ImplementsDownload
CHECK_DEADLOCK FALSE
