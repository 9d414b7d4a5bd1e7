SPECIFICATION FairSpec
CONSTANTS
  None = None
  Keys = {k1}
  Attempts = {a1, a2}
  Bodies = {h1}
  Clients = {c1}
  NStmts = 2
  Aborts = TRUE
  Direct = FALSE
  MaxRuns = 2
  MaxEpoch = 1
PROPERTIES
  StoredAnswerStable
  NotPoisoned
