SPECIFICATION FairSpec
CONSTANTS
  Requests = {r1}
  Mode = "fix"
  Posts = {x1, x2}
  Flushes = {f1}
  Sources = {"scheduled", "on_demand"}
  BatchSize = 1
  Window = {0, 2}
  TTL = 1
  MaxAge = 1
  Skew = 1
  Behind = 0
  Ahead = 2
  None = None
  MaxTime = 2
  MaxPings = 2
INVARIANTS Trail
PROPERTIES RequestsClose
CHECK_DEADLOCK FALSE
