SPECIFICATION FairSpec
CONSTANTS
  f = f
  g = g
  s1 = s1
  s2 = s2
  Files = {f, g}
  Sources = {s1, s2}
  Chunks <- MCChunks
  Announced <- MCAnnounced
  Has <- MCHas
  MaxDownloads = 2
INVARIANTS
  TypeOK
  IndexInRange
  HealthyDownloadCompletes
  CompleteIsWhole
PROPERTIES
  DownloadsEnd
