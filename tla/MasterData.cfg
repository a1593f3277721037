SPECIFICATION Spec
CONSTANTS
  NoCarrier = NoCarrier
  Scenarios <- MCScenarios
  MaxMishaps = 1
INVARIANTS
  OneDocumentPerId
  UnlinkedExplained
  HubKept
  CarrierUpToDate
CHECK_DEADLOCK FALSE
