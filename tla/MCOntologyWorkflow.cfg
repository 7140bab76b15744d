SPECIFICATION Spec
CONSTANTS
  s1 = s1
  s2 = s2
  t1 = t1
  t2 = t2
  Sessions = {s1, s2}
  Tasks = {t1, t2}
  KeepVersions = 1
  CallerUris = {"given", "base"}
  BaseUri = "base"
  MaxFiles = 2
SYMMETRY Interchangeable
CHECK_DEADLOCK FALSE
INVARIANTS
  RecordedFileExists
  GraphIsRecorded
