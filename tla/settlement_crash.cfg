SPECIFICATION SSpec
CONSTANTS
  p1 = p1
  p2 = p2
  o1 = o1
  w1 = w1
  w2 = w2
  NoJob = NoJob
  Payments <- TwoPayments
  OrderOf <- SharedOrder
  Route <- LinkAndToken
  Offered = {p1}
  Workers = {w1}
  Duties <- InTurn
  MaxAttempts = 2
  MaxSeq = 3
  MaxHttp = 2
  FirstActs <- AllActs
  LateLanding = FALSE
  LookupFaults = TRUE
  Crashes = TRUE
  OrderCheck = TRUE
  ContactCap = TRUE
  Modes <- LiveMode
  Ordered <- TwoPayments
  CancelFaults = TRUE
  PollFaults = TRUE
INVARIANT ReportsAgree
INVARIANT OneLiveLink
PROPERTY ClosedStaysClosed
PROPERTY PaidOrderNeverSends
