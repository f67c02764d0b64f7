CONSTANTS
  bash = bash
  build = build
  check = check
  lifecycle = lifecycle
  host = host
  target = target
  c1 = c1
  s1 = s1
  s2 = s2
  p1 = p1
  p2 = p2
  None = None
  NoSource = NoSource
  Relative = Relative
  Call = {c1}
  Source = {s1, s2}
  Requests <- MCRequests
  Profile <- MCProfile
  Paths = {p1, p2}
  Views = {host, target}
  ViewOf <- MCViewOf
  LayoutFor <- MCLayoutFor
  MaxOffered = 3
SPECIFICATION ProvisionSpec
INVARIANTS
  MountsShowWhatIsBound
  ForeignResourcesAreNoticed
PROPERTY KeepsContract
CHECK_DEADLOCK FALSE
