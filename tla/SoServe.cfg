SPECIFICATION SoSpec
CONSTANTS
  None = None
  p1 = p1
  p2 = p2
  a = a
  b = b
  c = c
  x = x
  d1 = d1
  d2 = d2
  m1 = m1
  m2 = m2
  r = r
  s = s
  f = f
  t = t
  Workers = {w1}
  Messages = {m1, r, t}
  Syncs = {}
  Backfills = {}
  Retriggers = {t}
  Refs <- RefsOf
  Promoted = {}
  Lapses = {"trigger"}
  POs = {p1}
  Lines = {a, b}
  OrderNos = {n1,n2}
  DocIds = {d1}
  PoOf <- OnePoOf
  ItemOf <- OwnItemOf
  DocIdOf <- OneDoc
  LongRefs = {}
  Batch <- BatchOf
  RunIds = {}
  Bridged = {p1}
  Faults = {"crash","lost","status"}
SYMMETRY LineSymmetry
INVARIANTS SoTypeOK AtMostOneOrder NoLineTwice CreatedMeansComplete NoLostLine
INVARIANTS ResolvedMeansPresent SettledMeansAccounted RowsAreOwed
