CONSTANTS
  i1 = i1
  i2 = i2
  j1 = j1
  j2 = j2
  u1 = u1
  u2 = u2
  l1 = l1
  l2 = l2
  l3 = l3
  NoJob = NoJob
  Item = {i1, i2}
  Job = {j1}
  User = {u1}
  Link = {l1, l2}
  MaxAttempts = 2
  ChunkSize = 1
  Workers = 2
  MaxFaults = 1
CHECK_DEADLOCK FALSE
SPECIFICATION Spec
SYMMETRY Symmetry
INVARIANTS TypeOK LinkExclusion ScansBlockedExactly WarmUpAlone Accounting
PROPERTY CompleteCovers
