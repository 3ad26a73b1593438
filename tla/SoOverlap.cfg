SPECIFICATION SoSpec
CONSTANTS
  None = None
  p1 = p1
  p2 = p2
  a = a
  b = b
  c = c
  x = x
  d1 = d1
  d2 = d2
  m1 = m1
  m2 = m2
  r = r
  s = s
  f = f
  t = t
  Workers = {w1, w2}
  Messages = {m1}
  Syncs = {}
  Backfills = {}
  Retriggers = {}
  Refs <- RefsOf
  Promoted = {p1}
  Lapses = {}
  POs = {p1}
  Lines = {a,b}
  OrderNos = {n1}
  DocIds = {d1}
  PoOf <- OnePoOf
  ItemOf <- OwnItemOf
  DocIdOf <- OneDoc
  LongRefs = {}
  Batch <- BatchOf
  RunIds = {}
  Bridged = {}
  Faults = {"overlap","lookup","byHand","lost"}
SYMMETRY AllSymmetry
PROPERTIES BufferNeverForgets LedgerSpec
CHECK_DEADLOCK FALSE
