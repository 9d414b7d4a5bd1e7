SPECIFICATION Spec
CONSTANTS
  None = None
  Keys = {k1}
  Attempts = {a1, a2}
  Bodies = {h1, h2}
  Clients = {c1, c2}
  NStmts = 2
  Aborts = FALSE
  Direct = FALSE
  MaxRuns = 3
  MaxEpoch = 1
SYMMETRY Symmetry
INVARIANTS
  TypeOK
  AtMostOnce
  CommitTogether
  AnswerMeansApplied
PROPERTIES
  StoredAnswerStable
  FreshClaimKept
  OnceOnly
