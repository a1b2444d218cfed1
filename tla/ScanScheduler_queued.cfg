CONSTANTS
  r1 = r1
  r2 = r2
  t1 = t1
  t2 = t2
  t3 = t3
  Request = {r1}
  Task = {t1, t2}
  MaxFaults = 0
SPECIFICATION FairSpec
PROPERTY QueuedScanStarts
