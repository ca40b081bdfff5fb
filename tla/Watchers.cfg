SPECIFICATION Spec
CONSTANTS
  films = films
  left = left
  right = right
  disk = disk
  t1 = t1
  t2 = t2
  Library = {films}
  Mount = {left, right}
  Provider = {disk}
  LibraryOf <- MCLibraryOf
  ProviderOf <- MCProviderOf
  Configured <- MCConfigured
  Timer = {t1, t2}
  MaxSwitches = 2
  MaxChanges = 2
INVARIANT TypeOK
INVARIANT OneGeneration
INVARIANT AtRest
INVARIANT StatusTruth
PROPERTY ReloadFinishes
PROPERTY ChangeIsRequested
CHECK_DEADLOCK FALSE
