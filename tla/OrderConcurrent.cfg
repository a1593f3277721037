SPECIFICATION Spec
CONSTANTS
  k1 = k1
  k2 = k2
  s1 = s1
  h1 = h1
  h2 = h2
  pod1 = pod1
  NoSale = NoSale
  NoOrder = NoOrder
  NoCall = NoCall
  SyntheticId = "69"
  Key <- MCKey
  Sale <- MCSale
  Pod <- MCPod
  Micro <- MCMicro
  MicroFinisher <- MCMicroFinisher
  StatusId <- MCStatusId
  Instant <- MCInstant
  Handler <- MCTwoHandlers
  Message <- Overlapping
  MaxDeliveries = 4
INVARIANTS
  HistoryDistinct
  HistorySorted
PROPERTIES
  NoTakeover
  OnlyStaleWritesLose
CHECK_DEADLOCK FALSE
