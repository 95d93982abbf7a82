SPECIFICATION OSpec
CONSTANTS
  p1 = p1
  serve = serve
  person = person
  MonthStarts <- TwoMonths
  SalaryWindowDay = 2
  Payments <- One
  Class <- Abandoned
  Delay <- AtOnce
  Contact <- Customer
  Media <- Sms
  Subscriptions = {}
  Limit <- TwoContacts
  Window = 168
  ExpiryHours = 26
  Settings <- LiveOnly
  Workers = {serve, person}
  Operators = {person}
  FetchFaults = TRUE
  NotifyFaults = TRUE
  CancelFaults = TRUE
  Forced = {TRUE, FALSE}
  MaxResends = 1
  MaxOutcomes = 3
  MaxCrashes = 1
  Start = 9
  Arrival <- Morning
  TickHours = 12
  Horizon = 33
 
INVARIANT OneNotifyPerClaim
 
INVARIANT CancelledIsTrue
CHECK_DEADLOCK FALSE
