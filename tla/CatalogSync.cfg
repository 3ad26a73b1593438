SPECIFICATION Spec
CONSTANTS
  None = None
  NoFamily = NoFamily
  Blocked = Blocked
  i1 = i1
  l1 = l1
  f1 = f1
  Workers = {w1}
  Items = {i1, i2}
  Families = {f1, f2}
  Lists = {l1}
  Covers <- OneList
  Rank <- OneRank
  FirstFamily <- SameFamily
  Kinds = {"sync", "lines", "one"}
  MaxTime = 3
  MaxEvents = 2
  Faults = {"crash", "lists", "items", "blobs"}
INVARIANTS ItemsKept ListsKept CopiesAgree
PROPERTIES PriceChangeStamped EverythingArrives
