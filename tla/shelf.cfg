SPECIFICATION Spec
CONSTANTS
  Admins = {a1, a2}
  k1 = k1
  k2 = k2
  Keys <- TwoKeys
  NoKey = NoKey
  MaxId = 4
  Keep = 2
  Limits <- ShelfLimits
INVARIANTS TornBackupsSaySo ShelfIsBounded
PROPERTIES ReplacedWorldIsKept RestoreHasItsArchive UnforcedRestoresFit NoMixedWorld
SYMMETRY Symmetry
CHECK_DEADLOCK FALSE
