\* A downloaded chunk is reported and not listed.
SPECIFICATION Spec
CONSTANTS
  p1 = p1
  p2 = p2
  f1 = f1
  f2 = f2
  a1 = a1
  a2 = a2
  Peers <- MCPeers
  Files = {f1, f2}
  IPs <- MCIPs
  Chunks <- MCChunks
  PrivateIP <- MCPrivateIP
  SourceIP <- MCPrivateIP
  MaxSent = 3
INVARIANTS
  InformedIsListed
