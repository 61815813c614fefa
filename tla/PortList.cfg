SPECIFICATION Spec
CONSTANTS
  COM1 = COM1
  COM10 = COM10
  COM2 = COM2
  Names <- ComPorts
  Begins <- ComBegins
  NoPort = NoPort
  NotString = NotString
  MaxPorts = 2
  MaxValues = 3
INVARIANTS
  ListTypeOK
  SteadyPortsAreListed
  NoPortTwice
PROPERTIES
  UndisturbedListIsExact
  SelectionIsCarriedOver
  RefreshEnds
