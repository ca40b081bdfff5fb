SPECIFICATION Spec
CONSTANTS
  Kind = {"115open", "baiduopen", "123pan"}
  c1 = c1
  c2 = c2
  k1 = k1
  k2 = k2
  Call = {c1, c2}
  NoCall = NoCall
  Client = {k1, k2}
  MaxLoads = 3
  MaxGrants = 3
  MaxChanges = 1
  MaxTroubles = 1
SYMMETRY Symmetry
INVARIANT TypeOK
INVARIANT RefreshedOnce
INVARIANT StoredUsable
INVARIANT OwnTokens
INVARIANT CachedAgrees
CHECK_DEADLOCK FALSE
