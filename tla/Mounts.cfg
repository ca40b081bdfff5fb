SPECIFICATION Spec
CONSTANTS
  p1 = p1
  p2 = p2
  l1 = l1
  l2 = l2
  m1 = m1
  m2 = m2
  r1 = r1
  r2 = r2
  Provider = {p1, p2}
  Library = {l1, l2}
  Mount = {m1, m2}
  Request = {r1, r2}
  NoRequest = NoRequest
  Target <- Nested
  MaxAdds = 3
  MaxTroubles = 1
SYMMETRY Symmetry
INVARIANT TypeOK
INVARIANT OutputsOwned
PROPERTY LiveOutputsKept
CHECK_DEADLOCK FALSE
