CONSTANTS
  f1 = f1
  f2 = f2
  s1 = s1
  s2 = s2
  s3 = s3
  NoScan = NoScan
  File = {f1, f2}
  Scan = {s1, s2, s3}
  Workers = 1
  MaxFaults = 1
  Event = {"e1", "e2"}
  Album = {"a1", "a2", "a3"}
  Name = {1, 2}
  AlbumsOf <- OneAlbumAndTwo
  AlbumSize = 2
  MoveAttempts = 2
  MaxSyncFaults = 1
  Item = {"i1", "i2"}
  Batch = {"b1", "b2"}
  Value = {"x", "y"}
  OldValue = "old"
  MaxWriteFaults = 2
  Library = {"l1", "l2"}
  Request = {"c1", "c2"}
  SettingsRow = {"r1", "r2"}
  MaxChanges = 3
  Process = {"p1", "p2"}
  MaxWatcherFaults = 2
  Editor = {"e1"}
  MaxFileChanges = 1
  Addition = {"r1", "r2", "r3"}
  Analysis = {"a1", "a2"}
  Provider = {"discogs", "spotify"}
  LibraryOf <- OneEach
  HitsOf <- TwoAndOne
  Known <- OneRelease
  MaxResolves = 2
SPECIFICATION RecordsSpec
SYMMETRY Symmetry
INVARIANTS
  RecordsTypeOK
  ActivityFaithful
  SyncHonest
  DivergenceExplained
  SettingsKept
  WatcherRestorable
  AnswersKept
  TagsFaithful
  PairingFaithful
  ListingFaithful
  ChangesFaithful
PROPERTY
  SaveFaithful
CHECK_DEADLOCK FALSE
