SPECIFICATION Spec
CONSTANTS
  r1 = r1
  r2 = r2
  h = h
  g = g
  a = a
  b = b
  Workers = {w1}
  Refs = {r1}
  Headers = {h}
  Details = {a}
  RefOf <- TinyRef
  Rank <- LoneRank
  OddRefs = {}
  MaxTime = 3
  MaxRequests = 1
  MaxMishaps = 0
  Faults = {"split"}
INVARIANTS NoEmptyOrder
CHECK_DEADLOCK FALSE
