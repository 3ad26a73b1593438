SPECIFICATION Spec
CONSTANTS
  None = None
  t1 = t1
  t2 = t2
  Workers = {w1, w2}
  Messages = {t1, t2, man}
  Automated = {t1, t2}
  Cooldown = 2
  StaleAfter = 4
  Faults = {"crash", "overlap", "firestore"}
SYMMETRY TriggerSymmetry
INVARIANTS TypeOK
PROPERTIES CooldownKept SkipIsJustified
