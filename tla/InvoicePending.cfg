SPECIFICATION Spec
CONSTANTS
  a = a
  b = b
  s1 = s1
  w1 = w1
  w2 = w2
  x1 = x1
  x2 = x2
  NoWork = NoWork
  NoSend = NoSend
  Invoice <- MCInvoices
  Sale <- MCSale
  SaleOf <- MCSaleOf
  Setups <- AllSetups
  Worker <- MCOneWorker
  Sender <- MCOneSender
  Limit = 1
  Resends = 2
  MaxMishaps = 0
INVARIANTS
  PendingWhenOrderMissing
