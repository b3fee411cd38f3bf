CONSTANTS
  Heads = {h1, h2}
  Bases = {b1, b2}
  Attempts = {a1, a2}
  BaseAdvancedPolicy = "queue"
  None = None
  MaxEvidence = 6
  MaxRacingEvidence = 6
SPECIFICATION ScopedSpec
SYMMETRY Symmetry
CONSTRAINT EvidenceBounded
INVARIANTS
  TypeOK
  CountedFindingsClosed
  ClearedPairHasEvidence
  AuditNamesTheOneMerge
PROPERTY ImplementsPolicy
CHECK_DEADLOCK FALSE
