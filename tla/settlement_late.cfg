SPECIFICATION SSpec
CONSTANTS
  p1 = p1
  p2 = p2
  o1 = o1
  w1 = w1
  w2 = w2
  NoJob = NoJob
  Payments <- OnePayment
  OrderOf <- OneOrder
  Route <- LinkRoute
  Offered = {}
  Workers = {w1, w2}
  Duties <- Apart
  MaxAttempts = 2
  MaxSeq = 5
  MaxHttp = 1
  FirstActs <- Sends
  LateLanding = TRUE
  LookupFaults = TRUE
  Crashes = FALSE
  OrderCheck = FALSE
  ContactCap = TRUE
  Modes <- BothModes
  Ordered <- OnePayment
  CancelFaults = TRUE
  PollFaults = TRUE
INVARIANT RecoveredIsPaid
INVARIANT OutcomeOncePerProcess
