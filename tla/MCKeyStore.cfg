CONSTANTS
  Fields = 2
  MaxKeys = 3
  MaxLosses = 1
  NoFile = NoFile
  NoKey = NoKey
  Utilities <- MCUtilities
  MaxVersions = 2
  Absent = Absent
SPECIFICATION StartupSpec
INVARIANTS OneIdentity UtilitiesWhole
CHECK_DEADLOCK FALSE
