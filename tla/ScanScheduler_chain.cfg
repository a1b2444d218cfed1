CONSTANTS
  r1 = r1
  r2 = r2
  t1 = t1
  t2 = t2
  t3 = t3
  Request = {r1, r2}
  Task = {t1, t2, t3}
  MaxFaults = 1
SPECIFICATION Spec
SYMMETRY Symmetry
INVARIANTS TypeOK ProgressHonest
PROPERTY QueueHandedOn
