CONSTANTS
  Ids = {r1}
  Callers = {c1, c2}
  Dispatchers = {d1, d2}
  MaxAttempts = 2
  MaxCalls = 3
  MaxRefusals = 1
  NoRecord = NoRecord
SPECIFICATION AgentSpec
SYMMETRY Symmetry
PROPERTY FinishedRunStays
CHECK_DEADLOCK FALSE
