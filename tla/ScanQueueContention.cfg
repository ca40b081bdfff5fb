SPECIFICATION Spec
CONSTANTS
  Callers = {c1, c2}
  Events = {e1, e2, e3}
  NoEvent = NoEvent
  m1 = m1
  m2 = m2
  m3 = m3
  p1 = p1
  p2 = p2
  Mounts <- MCMounts
  Providers <- MCProviders
  ProviderOf <- MCProviderOf
  Paths <- MCPaths
  Ancestors <- MCAncestors
  Requests <- ThreeMountRequests
  MaxConcurrent = 2
  MaxTime = 0
  MaxStops = 0
  MaxAdmin = 0
  Faults = TRUE
SYMMETRY EventSymmetry
INVARIANT TypeOK
INVARIANT ProviderSerial
INVARIANT LocksAccounted
INVARIANT SlotsAccounted
INVARIANT LockIsFree
INVARIANT NoLostWakeup
