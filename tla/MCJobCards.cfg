SPECIFICATION FairSpec
CONSTANTS
  None = None
  Jobs = {1, 2}
  Techs = {e1}
  Txs = {t1, t2}
  Keyed = TRUE
  Sent = {"create", "assign", "bulk", "renew", "deactivate"}
  MaxVersion = 3
INVARIANTS
  TypeOK
  TrailIsChain
  ClosedOnce
PROPERTIES
  ActsOnWhatIs
  NumbersInOrder
  EveryTxEnds
