CONSTANTS
  f1 = f1
  f2 = f2
  s1 = s1
  s2 = s2
  s3 = s3
  NoScan = NoScan
  File = {f1}
  Scan = {s1, s2, s3}
  Workers = 2
  MaxFaults = 0
SPECIFICATION Spec
INVARIANT LastScanListed
