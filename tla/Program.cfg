\* TTLs of 5 bits, a mantissa of 4 bits, percentages in eighths.
SPECIFICATION FairSpec
CONSTANTS
  DefaultFile <- Embedded
  DefaultCheckInterval = 5
  DefaultFileTTL = 14
  ExpandEnv <- EnvOfTest
  Width = 5
  Precision = 4
  One = 8
  Inputs <- AllInputs
  Names = {u, t}
  Checker = Checker
  NoLogger = NoLogger
  Nop = Nop
  Unset = Unset
  u = u
  t = t
  g1 = g1
  g2 = g2
  g3 = g3
  home = home
INVARIANTS TypeOK UnusableNeverServes EachServerOnce ServesOnlyWhileChecked ShutdownLeavesNoServer SettingsHonored TTLsInRange
PROPERTIES OneDownAllDown
CHECK_DEADLOCK FALSE
