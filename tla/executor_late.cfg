SPECIFICATION Spec
CONSTANTS
  p1 = p1
  p2 = p2
  p3 = p3
  p4 = p4
  o1 = o1
  w1 = w1
  w2 = w2
  NoJob = NoJob
  Payments <- FourPayments
  OrderOf <- SharedOrder
  Route <- FourRoutes
  Offered = {p1}
  Workers = {w1}
  MaxAttempts = 3
  MaxSeq = 4
  MaxHttp = 1
  FirstActs <- Sends
  LateLanding = TRUE
  LookupFaults = FALSE
  Crashes = FALSE
  OrderCheck = FALSE
  ContactCap = FALSE
  Modes <- LiveMode
PROPERTY NoCreateOverLanded
