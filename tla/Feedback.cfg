SPECIFICATION FairSpec
CONSTANTS
  Partition <- MCPartition
  Name = {"intelipost", "carrier"}
  Log <- MCLog
  Asked <- MCAsked
  MaxMishaps = 1
  MaxRestarts = 1
  NoOrder = NoOrder
INVARIANTS
  ListedAsReported
  OrderKept
PROPERTY ReportsHandled
CHECK_DEADLOCK FALSE
