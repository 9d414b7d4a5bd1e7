SPECIFICATION Spec
CONSTANTS
  Sites = {a, b}
  Units = {u1, u2}
  Serials = {s1, s2}
  Contracts = {k1, k2}
  Companies = {c1, c2}
  Staff = {e1, e2}
  Wares = {w1, w2}
  Names = {n1, n2}
  LastDay = 2
  MaxVersion = 3
  MaxPlain = 2
  Apart = TRUE
  Txs = {t1, t2}
  None = None
SYMMETRY Symmetry
INVARIANTS Standing
PROPERTIES StaysPut CorrectsWhatWasSeen
