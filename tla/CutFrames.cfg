SPECIFICATION Spec
CONSTANTS
  BufSize = 16
  PayloadMax = 8
  ChunkSizes = {1, 2, 5, 256}
  Streams <- CutStreams
INVARIANTS
  TypeOK
  NothingIsHeldBack
PROPERTIES
  FramesAreDelivered
