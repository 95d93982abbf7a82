SPECIFICATION IFairSpec
CONSTANTS
  None = None
  p1 = p1
  p2 = p2
  p3 = p3
  m1 = m1
  c1 = c1
  serve = serve
  cli = cli
  web = web
  shell = shell
  Merchants = {m1}
  Processes = {serve, cli}
  Clerks = {web, shell}
  Host <- MCHost
  Tuned = {"NETWORK_TIMEOUT"}
  Evidence <- MCEvidence
  Thresholds = {10, 30}
  HandEdits <- MCHandEdits
  MaxEdits = 1
  MaxWrites = 3
  Payments = {p1}
  Events <- MCOneEvent
  Error <- MCError
  Merchant <- MCMerchant
  Customer <- MCCustomer
  Token = {p1}
  Large = {}
  Threshold = 2
  Window = 2
  Guesses <- MCGuesses
  MaxDeliveries = 1
  MaxFailures = 1
  MaxTime = 0
INVARIANTS
  SoonerDecisionIsBacked
  TrailUndoes
PROPERTIES
  EveryEventHasAJob
CHECK_DEADLOCK FALSE
