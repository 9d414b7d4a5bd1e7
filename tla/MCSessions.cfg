SPECIFICATION FairSpec
CONSTANTS
  Employees = {e1, e2}
  Calls = {c1, c2}
  Txs = {x1, x2}
  Faults = {"abort", "silence", "crash"}
  Office = {"deactivate", "password"}
  Users = {"login", "logout"}
  None = None
  MaxToken = 3
  MaxTrouble = 1
  MaxAge = 2
INVARIANTS Chains SessionHolds
PROPERTIES RevokedForGood CallsEnd
