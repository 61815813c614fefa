SPECIFICATION Spec
CONSTANTS
  Asked <- AskedSettings
  Held <- HeldPayloads
INVARIANTS
  ReportAgreesWithAck
  ReapplyingChangesNothing
