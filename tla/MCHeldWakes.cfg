SPECIFICATION FairSpec
CONSTANTS
  Employees = {e1, e2}
  Holds = {h1, h2}
  Events = {n1, n2}
  None = None
  MaxTrouble = 2
INVARIANTS Discharged
PROPERTIES HeldIsReleased
