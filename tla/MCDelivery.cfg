SPECIFICATION MCSpec
CONSTANTS
  Apps = {a1, a2}
  Mains = {m1, m2}
  Settings = {none, lines}
  NoLines = none
  NoFile = NoFile
  Torn = Torn
  DiesUnsynced = FALSE
  HostReconciles = TRUE
  LegacyBackups = TRUE
  MaxFaults = 1
SYMMETRY Symmetry
INVARIANT TypeOK
INVARIANT ManifestBinds
INVARIANT BackupsWhole
INVARIANT SettingsKept
INVARIANT InstallStartsClean
PROPERTY MainResumed
PROPERTY OneSetOrTheOther
