SPECIFICATION Spec
CONSTANTS
  None = None
  t1 = t1
  t2 = t2
  Workers = {w1, w2}
  Tasks = {t1}
  OrderIds = {n1, n2, n3}
  Size <- OneTask
  Faults = {"crash", "overlap", "network", "lost", "busy", "undelete", "firestore"}
SYMMETRY OrderSymmetry
INVARIANTS DoneIsWhole
CHECK_DEADLOCK FALSE
