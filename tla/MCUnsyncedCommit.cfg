SPECIFICATION MCSpec
CONSTANTS
  Procs = {p1}
  Systems = {s1, s2}
  MaxGeneration = 3
  MaxRefresh = 3
  DiesUnsynced = TRUE
  None = None
  MaxFaults = 2
INVARIANT CatalogIntact
