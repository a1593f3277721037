SPECIFICATION FairSpec
CONSTANTS
  a = a
  b = b
  s1 = s1
  w1 = w1
  w2 = w2
  x1 = x1
  x2 = x2
  NoWork = NoWork
  NoSend = NoSend
  Invoice <- MCInvoices
  Sale <- MCSale
  SaleOf <- MCSaleOf
  Setups <- OneEnabled
  Worker <- MCOneWorker
  Sender <- MCOneSender
  Limit = 1
  Resends = 1
  MaxMishaps = 0
PROPERTIES
  IntegratedEventually
