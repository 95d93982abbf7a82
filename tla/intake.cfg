SPECIFICATION ISpec
CONSTANTS
  None = None
  p1 = p1
  p2 = p2
  p3 = p3
  m1 = m1
  c1 = c1
  serve = serve
  cli = cli
  web = web
  shell = shell
  Merchants = {m1}
  Processes = {serve, cli}
  Clerks = {}
  Host <- MCHost
  Tuned = {"NETWORK_TIMEOUT"}
  Evidence <- MCEvidence
  Thresholds = {10, 30}
  HandEdits <- MCHandEdits
  MaxEdits = 1
  MaxWrites = 0
  Payments = {p2, p3}
  Events <- MCEvents
  Error <- MCError
  Merchant <- MCMerchant
  Customer <- MCCustomer
  Token = {p2}
  Large = {}
  Threshold = 2
  Window = 2
  Guesses <- MCGuesses
  MaxDeliveries = 1
  MaxFailures = 0
  MaxTime = 2
INVARIANTS
  IntakeTypeOK
  RiskIsNeverAutomatic
  DecisionsOnlyTighten
  
SYMMETRY ProcessSymmetry
CHECK_DEADLOCK FALSE
