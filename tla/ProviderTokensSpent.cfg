SPECIFICATION Spec
CONSTANTS
  Kind = {"115open"}
  c1 = c1
  c2 = c2
  k1 = k1
  k2 = k2
  Call = {c1, c2}
  NoCall = NoCall
  Client = {k1}
  MaxLoads = 2
  MaxGrants = 3
  MaxChanges = 0
  MaxTroubles = 0
INVARIANT SpentOnce
CHECK_DEADLOCK FALSE
