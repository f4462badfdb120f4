SPECIFICATION MCSpec
CONSTANTS
  Procs = {p1, p2}
  Systems = {s1, s2}
  MaxGeneration = 3
  MaxRefresh = 3
  DiesUnsynced = FALSE
  None = None
  MaxFaults = 1
SYMMETRY Symmetry
INVARIANT TypeOK
INVARIANT CatalogIntact
INVARIANT RefreshKept
INVARIANT RetryNotRefused
INVARIANT ReaderServed
PROPERTY OneCommitPoint
