SPECIFICATION FairSpec
CONSTANTS
  Signals = {s1}
  Addresses = {a0}
  Address0 = a0
  Broadcast = broadcast
  UNKNOWN = unknown
  HalfRange = 2
  Timeout = 2
  MaxAge = 2
  LineMax = 1
  ReadErrors = TRUE
  WriteErrors = TRUE
  Overlap = TRUE
  Late = TRUE
  Lossy = TRUE
  Garbled = FALSE
  Exchange = TRUE
PROPERTIES
  EveryCommandIsSettled
