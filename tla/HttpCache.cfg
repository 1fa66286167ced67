SPECIFICATION Spec
CONSTANTS
  Gets = {g1, g2}
  Ages = {0, 1}
  DefaultTtl = 2
  Latency = 2
  MaxClock = 6
INVARIANTS AnswerIsRecent ErrorsAreAskedAgain
CHECK_DEADLOCK FALSE
