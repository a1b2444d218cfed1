CONSTANTS
  Album = {a1, a2, a3}
  Request = {r1}
  Job = {j1, j2, j3, j4}
  Cap = 2
  Workers = 2
  MaxFaults = 0
  NoAlbum = NoAlbum
  NoJob = NoJob
SPECIFICATION Spec
SYMMETRY Symmetry
INVARIANT NoDoubleAnalysis
