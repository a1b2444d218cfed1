SPECIFICATION Spec
SYMMETRY Symmetry
CONSTANTS
  Task = {"t1", "t2"}
  MaxMoveFaults = 2
  Wav = {"k1"}
  Op = {"o1", "o2"}
  MaxAudioFaults = 2
  k1 = k1
  k2 = k2
  Song = {k1, k2}
  j1 = j1
  j2 = j2
  Job = {j1, j2}
  MaxImportFaults = 1
  Path = {"p1", "p2", "p3", "p4"}
  Inside = {"p1", "p2", "p3"}
  Taken = {"p3"}
  Post = {"u1", "u2"}
  MaxUploadFaults = 2
  Download = {"d1", "d2"}
  Units = 2
  MaxPackFaults = 1
  Admin = {"r1", "r2"}
  LibName = {1, 2}
  MaxSlug = 3
  MaxProvFaults = 1
  v1 = v1
  v2 = v2
  Sleeve = {v1, v2}
  ImageExtensions = {"jpg", "png"}
  SidecarExtensions = {"nfo"}
  Old = "old"
  None = "none"
INVARIANTS
  TypeOK
  MovesSafe
  TracksKept
  ImportsSafe
  UploadAllOrNothing
  DownloadsTracked
  FilesKept
  CoverServed
  LayoutKeepsFilesApart
  CleanUpHarmless
CHECK_DEADLOCK FALSE
