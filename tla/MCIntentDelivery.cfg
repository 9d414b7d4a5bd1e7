SPECIFICATION WriterSpec
CONSTANTS
  None = None
  Keys = {k1, k2}
  Attempts = {a1, a2}
  Bodies = {h1}
  Clients = {c1, c2}
  NStmts = 2
  Aborts = FALSE
  Direct = FALSE
  MaxRuns = 2
  MaxEpoch = 1
  Intent = h1
  Gate = TRUE
SYMMETRY Symmetry
INVARIANTS
  SavedIsSaved
  RetriesReplay
CHECK_DEADLOCK FALSE
