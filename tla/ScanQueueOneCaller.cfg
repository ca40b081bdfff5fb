SPECIFICATION FairSpec
CONSTANTS
  Callers = {c1}
  Events = {e1, e2}
  NoEvent = NoEvent
  m1 = m1
  m2 = m2
  m3 = m3
  p1 = p1
  p2 = p2
  Mounts <- OneMount
  Providers <- MCProviders
  ProviderOf <- MCProviderOf
  Paths <- MCPaths
  Ancestors <- MCAncestors
  Requests <- OneMountRequests
  MaxConcurrent = 2
  MaxTime = 1
  MaxStops = 1
  MaxAdmin = 1
  Faults = FALSE
INVARIANT AcceptedEventsKept
INVARIANT MergedAtRest
PROPERTY KeepsIntents
PROPERTY DeletedNotScanned
