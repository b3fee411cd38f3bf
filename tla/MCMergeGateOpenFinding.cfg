CONSTANTS
  Heads = {h1, h2}
  Bases = {b1}
  Attempts = {a1}
  BaseAdvancedPolicy = "queue"
  None = None
  MaxEvidence = 7
  MaxRacingEvidence = 7
SPECIFICATION ScopedSpec
SYMMETRY Symmetry
CONSTRAINT EvidenceBounded
PROPERTY NoMergeVerdictOverOpenFinding
CHECK_DEADLOCK FALSE
