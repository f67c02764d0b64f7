\* Every thread makes two calls; one wake-up in all is spurious. No symmetry,
\* for liveness is checked.
CONSTANTS
  c1 = c1
  c2 = c2
  o1 = o1
  o2 = o2
  Canceller = {c1, c2}
  Observer = {o1, o2}
  Mutex = Mutex
  NoThread = NoThread
  MaxCalls = 2
  MaxSpurious = 1
SPECIFICATION FairSpec
INVARIANTS
  TypeOK
  LockDiscipline
  NoLostWakeup
  YesIsPublished
  NoUseAfterFree
PROPERTIES
  ExpiryIsDecidedUnderLock
  ImplementsLatch
CHECK_DEADLOCK FALSE
