CONSTANTS
  Calls = {c1, c2}
  Runs = {r1}
  Heads = {h1, h2}
  MaxVersion = 0
  None = None
SPECIFICATION PullSpec
INVARIANTS
  AnswerIsForItsHead
CHECK_DEADLOCK FALSE
