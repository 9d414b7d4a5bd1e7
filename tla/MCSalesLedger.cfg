SPECIFICATION Spec
CONSTANTS
  Cards = {c1, c2}
  Payments = {p1}
  Contents = {l1, l2}
  Txs = {t1, t2}
  None = None
  MaxVersion = 4
SYMMETRY Symmetry
INVARIANTS Ledger
PROPERTIES DocumentsStand NumbersInOrder
