SPECIFICATION Spec
CONSTANTS
  Signals = {s1}
  Addresses = {a0, a1}
  Address0 = a0
  Broadcast = broadcast
  UNKNOWN = unknown
  HalfRange = 2
  Timeout = 2
  MaxAge = 3
  LineMax = 2
  ReadErrors = TRUE
  WriteErrors = TRUE
  Overlap = TRUE
  Late = TRUE
  Lossy = TRUE
  Garbled = TRUE
  Exchange = TRUE
VIEW AllButBanner
INVARIANTS
  TypeOK
  PortStateAgrees
  PendingOutputIsShown
PROPERTIES
  TimeoutIsExact
