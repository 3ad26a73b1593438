SPECIFICATION SoLiveSpec
CONSTANTS
  None = None
  p1 = p1
  p2 = p2
  a = a
  b = b
  c = c
  x = x
  d1 = d1
  d2 = d2
  m1 = m1
  m2 = m2
  r = r
  s = s
  f = f
  t = t
  Workers = {w1}
  Messages = {m1,s,f}
  Syncs = {s}
  Backfills = {f}
  Retriggers = {}
  Refs <- HalfRefsOf
  Promoted = {p1,p2}
  Lapses = {}
  POs = {p1,p2}
  Lines = {a,c}
  OrderNos = {n1,n2}
  DocIds = {d1,d2}
  PoOf <- PairPoOf
  ItemOf <- SameItemOf
  DocIdOf <- OwnDocs
  LongRefs = {}
  Batch <- HalfBatchOf
  RunIds = {s}
  Bridged = {}
  Faults = {"firestore","prefetch"}
INVARIANTS OwnLinesOnly BufferPointsHome
PROPERTIES EveryBatchSettles EveryRunEnds
