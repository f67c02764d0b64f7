CONSTANTS
  root = root
  other = other
  p1 = p1
  p2 = p2
  Slots <- MCSlots
  Identities = {1, 2}
  Mounts = {1, 2, 3}
  Paths = {p1, p2}
  Relative = Relative
  RootViews = {root, other}
  RootView = root
  MaxOffered = 3
  None = None
SPECIFICATION Spec
INVARIANTS
  LayoutsAreUnique
  AdmissionIsExact
  MountsFindTheirResource
CHECK_DEADLOCK FALSE
