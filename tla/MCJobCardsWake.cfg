SPECIFICATION Spec
CONSTANTS
  None = None
  Jobs = {1}
  Techs = {e1, e2}
  Txs = {t1}
  Keyed = TRUE
  Sent = {"create", "assign", "cancel"}
  MaxVersion = 3
INVARIANTS
  WakeIsTrue
