SPECIFICATION Spec
CONSTANTS
  None = None
  t1 = t1
  t2 = t2
  Workers = {w1, w2}
  Tasks = {t1}
  OrderIds = {n1, n2}
  Size <- OneTask
  Faults = {"network"}
INVARIANTS SettledMatchesBC
CHECK_DEADLOCK FALSE
