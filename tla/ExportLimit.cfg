SPECIFICATION Spec
CONSTANTS
  o1 = o1
  o2 = o2
  o3 = o3
  o4 = o4
  Header = Header
  LimitLine = LimitLine
  NoFile = NoFile
  NoReport = NoReport
  Req <- MCOneReq
  Order <- MCOrder
  Late <- MCNoLate
  Requests <- Twice
  Listings <- Full
  Chunk = 2
  SheetLimit = 2
  ReportLimit = 4
  MaxMishaps = 0
INVARIANTS
  LimitLineTruthful
CHECK_DEADLOCK FALSE
