SPECIFICATION FairSpec
CONSTANTS
  Charger = charger
  Refunders = {r1, r2}
  Attempts = 2
  Threshold = 2
INVARIANTS
  FinalFailureIsExhausted
  TrialIsAlone
  InductiveInv
PROPERTIES
  TrialCloses

  Recovers
