SPECIFICATION DictSpec
CONSTANTS
  DTask = {t1, t2, t3}
  DPath = {p1, p2}
  MaxAttempts = 4
INVARIANTS
  ClosedFormAgrees
  EveryPathOnce
