SPECIFICATION CFairSpec
CONSTANTS
  p1 = p1
  p2 = p2
  w1 = w1
  MonthStarts <- TwoMonths
  SalaryWindowDay = 2
  Payments <- Both
  Class <- Funds
  Delay <- Delays
  Contact <- OneCustomer
  Media <- Reachable
  Subscriptions <- Second
  Limit <- Two
  Window = 24
  ExpiryHours = 26
  Settings <- Modes
  Workers = {w1}
  FetchFaults = TRUE
  NotifyFaults = FALSE
  MaxCrashes = 1
  Start = 9
  Arrival <- Arrivals
  TickHours = 12
  Horizon = 45
INVARIANT CadenceTypeOK
INVARIANT RemindsOpenLinks
INVARIANT ClosedLinkIsQuiet
INVARIANT RemindersKeepQuiet
INVARIANT ScheduledForOpenLink
PROPERTY RemindersWithinCap
PROPERTY EveryReminderSettles
CHECK_DEADLOCK FALSE
