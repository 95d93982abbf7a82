SPECIFICATION SSpec
CONSTANTS
  p1 = p1
  p2 = p2
  o1 = o1
  w1 = w1
  w2 = w2
  NoJob = NoJob
  Payments <- TwoPayments
  OrderOf <- SharedOrder
  Route <- BothLinks
  Offered = {}
  Workers = {w1}
  Duties <- InTurn
  MaxAttempts = 2
  MaxSeq = 3
  MaxHttp = 1
  FirstActs <- Sends
  LateLanding = FALSE
  LookupFaults = TRUE
  Crashes = FALSE
  OrderCheck = FALSE
  ContactCap = FALSE
  Modes <- LiveMode
  Ordered <- TwoPayments
  CancelFaults = TRUE
  PollFaults = TRUE
INVARIANT NothingIsForgotten
INVARIANT SettlementTypeOK
INVARIANT NoSilentLiveLink
INVARIANT PaidOrderNothingPending
PROPERTY NothingGoesOutAfterPaid
