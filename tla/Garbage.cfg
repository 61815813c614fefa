SPECIFICATION Spec
CONSTANTS
  BufSize = 16
  PayloadMax = 8
  ChunkSizes = {1, 3, 256}
  Streams <- GarbageStreams
INVARIANTS
  NothingIsHeldBack
