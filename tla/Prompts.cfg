SPECIFICATION WindowSpec
CONSTANTS
  Signals <- SignalRange
  Addresses <- AddressRange
  Address0 = 0
  Broadcast = broadcast
  UNKNOWN = unknown
  HalfRange = 1
  Timeout = 1
  MaxAge = 1
  LineMax = 1
  ReadErrors = FALSE
  WriteErrors = FALSE
  Overlap = TRUE
  Late = FALSE
  Lossy = TRUE
  Garbled = FALSE
  Exchange = TRUE
  FreqMin = 2
  FreqMax = 3
  AddrMin = 0
  AddrMax = 0
  WordSize = 8
  Entries <- SomeEntries
  AddrEntries = {1}
  Steps = {1}
VIEW AllButBanner
INVARIANTS
  WindowTypeOK
  LabelsShowState
  CheckShowsOutput
  FrequencyIsGuarded
PROPERTIES
  ChangedFrequencyIsConfirmed
