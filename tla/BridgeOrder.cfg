SPECIFICATION LiveSpec
CONSTANTS
  r1 = r1
  r2 = r2
  h = h
  g = g
  a = a
  b = b
  Workers = {w1}
  Refs = {r1, r2}
  Headers = {h, g}
  Details = {a, b}
  RefOf <- DuoRef
  Rank <- OneRank
  OddRefs = {}
  MaxTime = 4
  MaxRequests = 1
  MaxMishaps = 1
  Faults = {"crash", "marks", "fetch", "check", "insert", "verify", "publish", "record", "unsent", "serve"}
INVARIANTS TypeOK DetailsKept HeadersKept
PROPERTIES LinesBeforeHeader EveryOrderEnters
CHECK_DEADLOCK FALSE
