SPECIFICATION Spec
CONSTANTS
  p1 = p1
  p2 = p2
  p3 = p3
  p4 = p4
  o1 = o1
  w1 = w1
  w2 = w2
  NoJob = NoJob
  Payments <- OnePayment
  OrderOf <- OneOrder
  Route <- LinkRoute
  Offered = {p1}
  Workers = {w1, w2}
  MaxAttempts = 1
  MaxSeq = 2
  MaxHttp = 1
  FirstActs <- Sends
  LateLanding = FALSE
  LookupFaults = TRUE
  Crashes = TRUE
  OrderCheck = TRUE
  ContactCap = FALSE
  Modes <- BothModes
INVARIANT TypeOK
INVARIANT SentHasLink
INVARIANT StopRule
SYMMETRY WorkerSymmetry
CHECK_DEADLOCK FALSE
