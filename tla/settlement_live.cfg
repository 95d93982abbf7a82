SPECIFICATION SFairSpec
CONSTANTS
  p1 = p1
  p2 = p2
  o1 = o1
  w1 = w1
  w2 = w2
  NoJob = NoJob
  Payments <- OnePayment
  OrderOf <- OneOrder
  Route <- LinkRoute
  Offered = {p1}
  Workers = {w1}
  Duties <- InTurn
  MaxAttempts = 2
  MaxSeq = 3
  MaxHttp = 1
  FirstActs <- Sends
  LateLanding = FALSE
  LookupFaults = TRUE
  Crashes = FALSE
  OrderCheck = FALSE
  ContactCap = TRUE
  Modes <- BothModes
  Ordered <- OnePayment
  CancelFaults = TRUE
  PollFaults = TRUE
PROPERTY EveryJobSettles
PROPERTY EveryLinkCloses
PROPERTY ExpiryEarnsNextAttempt
PROPERTY ImplementsPromise
