CONSTANTS
  Album = {a1, a2}
  Request = {r1}
  Job = {j1, j2}
  Cap = 1
  Workers = 1
  MaxFaults = 0
  NoAlbum = NoAlbum
  NoJob = NoJob
SPECIFICATION FairSpec
PROPERTY
  QueuedJobResolves
