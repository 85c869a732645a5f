CONSTANTS
  SearchPolicy <- MCSearchPolicy
  DocumentPolicy <- MCDocumentPolicy
  Retention <- MCRetention
  Day = 1
  h1 = h1
  h2 = h2
  h3 = h3
  t1 = t1
  t2 = t2
  Tasks = {t1, t2}
  Queries = {"q"}
  Sizes = {1, 2}
  Pages <- MCPages
  Hashes = {h1, h2, h3}
  SavedKeys = {"k"}
  SavedMax = 1
  Interval = 2
  MaxCount = 1
  Targets = {0, 6}
  MaxNow = 2
  MaxWork = 8
  Cost <- MCCost
  MaxFiles = 3
SPECIFICATION Spec
SYMMETRY Symmetry
INVARIANTS TypeOK Recoverable TelemetryDurable
PROPERTIES EvictionIsLru RotationSpares BackupSpacing
CHECK_DEADLOCK FALSE
