SPECIFICATION LiveSpec
CONSTANTS
  None = None
  t1 = t1
  t2 = t2
  Workers = {w1}
  Tasks = {t1, t2}
  OrderIds = {n1, n2}
  Size <- SmallTasks
  Faults = {"crash", "network", "lost", "resend", "busy", "undelete"}
INVARIANTS AckedIsTerminal
PROPERTIES EveryTaskSettles
CHECK_DEADLOCK FALSE
