SPECIFICATION DeliverSpec
CONSTANTS
  s1 = s1
  s2 = s2
  i1 = i1
  i2 = i2
  Streams = {s1, s2}
  Cap = 1
  ChunkSizes = {1}
  CancelOnDisconnect = FALSE
  PeerMay = {}
  AllocMayFail = TRUE
  MaxSamples = 2
  Lanes = 1
  Items = {i1, i2}
INVARIANTS
  InOrder
  NoWorkAsleep
  QueuedKeepsAlive
SYMMETRY Symmetric
VIEW View
