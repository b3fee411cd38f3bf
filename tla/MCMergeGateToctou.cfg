CONSTANTS
  Heads = {h1, h2}
  Bases = {b1}
  Attempts = {a1}
  BaseAdvancedPolicy = "queue"
  None = None
  MaxEvidence = 5
  MaxRacingEvidence = 5
SPECIFICATION ScopedSpec
SYMMETRY Symmetry
CONSTRAINT EvidenceBounded
INVARIANT MergedHeadWasDecided
CHECK_DEADLOCK FALSE
