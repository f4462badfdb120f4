SPECIFICATION MCSpec
CONSTANTS
  Apps = {a1, a2}
  Mains = {m1, m2}
  Settings = {none}
  NoLines = none
  NoFile = NoFile
  Torn = Torn
  DiesUnsynced = FALSE
  HostReconciles = FALSE
  LegacyBackups = FALSE
  MaxFaults = 0
SYMMETRY Symmetry
INVARIANT ManifestBinds
