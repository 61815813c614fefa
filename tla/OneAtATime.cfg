SPECIFICATION ToldSpec
CONSTANTS
  Signals = {s1, s2}
  Addresses = {a0, a1}
  Address0 = a0
  Broadcast = broadcast
  UNKNOWN = unknown
  HalfRange = 2
  Timeout = 2
  MaxAge = 2
  LineMax = 1
  ReadErrors = FALSE
  WriteErrors = TRUE
  Overlap = FALSE
  Late = FALSE
  Lossy = TRUE
  Garbled = FALSE
  Exchange = TRUE
SYMMETRY SignalSymmetry
VIEW AllButBanner
INVARIANTS
  ToldTypeOK
  OutputIsHeard
  SignalIsHeard
  AddressIsHeard
  IdleIsQuiet
  IdleMatchesUnit
PROPERTIES
  KeepsPromise
