CONSTANTS
  bash = bash
  build = build
  check = check
  lifecycle = lifecycle
  c1 = c1
  c2 = c2
  s1 = s1
  s2 = s2
  None = None
  NoSource = NoSource
  Call = {c1, c2}
  Source = {s1, s2}
  Requests <- MCRequests
  Profile <- MCProfile
SYMMETRY Symmetry
SPECIFICATION Spec
INVARIANTS
  DispatchIsAdmitted
  CancelledByOwnSource
  EvidenceIsTrue
  OneFaultIsReportable
PROPERTY KeepsContractSafely
CHECK_DEADLOCK FALSE
