SPECIFICATION ToldSpec
CONSTANTS
  Signals = {s1, s2}
  Addresses = {a0, a1}
  Address0 = a0
  Broadcast = broadcast
  UNKNOWN = unknown
  HalfRange = 2
  Timeout = 2
  MaxAge = 2
  LineMax = 2
  ReadErrors = FALSE
  WriteErrors = FALSE
  Overlap = TRUE
  Late = FALSE
  Lossy = FALSE
  Garbled = FALSE
  Exchange = TRUE
VIEW AllButBanner
INVARIANTS
  KnownAddressIsConfirmed
