SPECIFICATION Spec
CONSTANTS
  Doc <- MCDoc
  Scenarios <- MCScenarios
  Consumer = {c1, c2}
  Messages <- MCMessages
  Finishers = {"delivered-success"}
  Size = 2
  Chunk = 2
  Limit = 2
  Rounds = 2
  MaxRuns = 3
  MaxLive = 2
  MaxMishaps = 1
INVARIANTS
  EventsKept
  PackagesKept
  RunAdvances
  SaleKept
CHECK_DEADLOCK FALSE
