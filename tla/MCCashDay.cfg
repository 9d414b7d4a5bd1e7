SPECIFICATION FairSpec
CONSTANTS
  None = None
  Days = {d1}
  Jobs = {j1}
  Txs = {t1, t2}
  Amounts = {m1, m2}
  MaxVersion = 3
INVARIANTS
  TypeOK
  OpenMeansUnanswered
PROPERTIES
  AnswerStands
  TrailKeepsFigures
  AmendsWhatWasSeen
  EveryTxEnds
