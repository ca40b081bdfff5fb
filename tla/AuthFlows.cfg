SPECIFICATION Spec
CONSTANTS
  Kind = {"115open", "115cookie", "baiduopen"}
  Mode = {"official", "broker_relay", "broker_token_exchange"}
  f1 = f1
  r1 = r1
  r2 = r2
  r3 = r3
  k1 = k1
  k2 = k2
  Flow = {f1}
  Request = {r1, r2, r3}
  Client = {k1, k2}
  Imported = Imported
  NoGrant = NoGrant
  MaxImports = 2
  MaxTroubles = 2
SYMMETRY Symmetry
INVARIANT TypeOK
INVARIANT ExchangedOnce
INVARIANT TellsTruth
CHECK_DEADLOCK FALSE
