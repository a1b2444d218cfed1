CONSTANTS
  Album = {a1}
  Request = {r1, r2}
  Job = {j1, j2, j3, j4}
  Cap = 1
  Workers = 2
  MaxFaults = 1
  NoAlbum = NoAlbum
  NoJob = NoJob
SPECIFICATION Spec
SYMMETRY Symmetry
INVARIANTS
  TypeOK
  SlotsAccountedFor
  QueueHasDrainer
PROPERTY
  ImplementsService
