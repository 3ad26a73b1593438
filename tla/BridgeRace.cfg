SPECIFICATION LiveSpec
CONSTANTS
  r1 = r1
  r2 = r2
  h = h
  g = g
  a = a
  b = b
  Workers = {w1, w2}
  Refs = {r1}
  Headers = {h, g}
  Details = {a}
  RefOf <- OneRef
  Rank <- OneRank
  OddRefs = {}
  MaxTime = 3
  MaxRequests = 1
  MaxMishaps = 1
  Faults = {"overlap", "promote", "details"}
INVARIANT PromotedIsTrue
PROPERTIES EveryRunEnds
CHECK_DEADLOCK FALSE
