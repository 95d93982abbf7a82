SPECIFICATION DSpec
CONSTANTS
  None = None
  j1 = j1
  j2 = j2
  j3 = j3
  w1 = w1
  w2 = w2
  Processes = {w1, w2}
  Jobs = {j1, j2, j3}
  Ask <- MCAsk
  Sizes <- MCSizes
  CutAmounts <- MCCutAmounts
  OfferSize = 75
  Messages <- MCMessages
  Settings <- MCSettings
  MaxDrafts = 3
INVARIANTS
  DraftingTypeOK
  MessageKeepsTheRules
  ReplayRepeats
CHECK_DEADLOCK FALSE
