SPECIFICATION FairSpec
CONSTANTS
  s1 = s1
  Streams = {s1}
  Cap = 3
  ChunkSizes = {1, 2}
  CancelOnDisconnect = TRUE
  PeerMay = {"stalls", "gone"}
  AllocMayFail = TRUE
  MaxSamples = 6
INVARIANTS
  SpanUntouched
  NoUseAfterFree
  DisconnectIsReal
PROPERTIES
  ImplementsByteStream
  EveryStreamEnds
