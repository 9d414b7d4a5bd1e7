SPECIFICATION Spec
CONSTANTS
  None = None
  Jobs = {1}
  Techs = {e1, e2}
  Txs = {t1, t2}
  Keyed = FALSE
  Sent = {"create", "assign", "bulk", "en_route", "in_progress", "reschedule", "cancel", "complete"}
  MaxVersion = 5
SYMMETRY Symmetry
PROPERTIES
  NobodyOusted
