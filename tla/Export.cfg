SPECIFICATION FairSpec
CONSTANTS
  o1 = o1
  o2 = o2
  o3 = o3
  o4 = o4
  Header = Header
  LimitLine = LimitLine
  NoFile = NoFile
  NoReport = NoReport
  Req <- MCReq
  Order <- MCOrder
  Late <- MCLate
  Requests <- Twice
  Listings <- MCListings
  Chunk = 2
  SheetLimit = 2
  ReportLimit = 4
  MaxMishaps = 1
INVARIANTS
  ExactReport
  MissedOnlyByInserts
  SheetsWithinLimit
  FileHasReason
  SilenceExplained
PROPERTIES
  TmpEmptied
CHECK_DEADLOCK FALSE
