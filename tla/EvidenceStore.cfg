CONSTANTS
  bash = bash
  build = build
  lint = lint
  engine = engine
  other = other
  Absent = Absent
  Fixed = 3
  ChecksumSize = 2
  MaxEncoding = 6
  MaxDiagnostic = 2
  Requests <- MCRequests
  Values <- MCValues
  Claims <- MCClaims
  MaxRuns = 2
SPECIFICATION Spec
INVARIANTS
  TypeOK
  RecoveryIsExact
  OnlyEncodingsDecode
  RecoveredIsSound
CHECK_DEADLOCK FALSE
