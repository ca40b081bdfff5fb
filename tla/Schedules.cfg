SPECIFICATION Spec
CONSTANTS
  films = films
  left = left
  right = right
  whole = whole
  part = part
  s1 = s1
  s2 = s2
  NoMount = NoMount
  NoPath = NoPath
  Library = {films}
  Mount = {left, right}
  LibraryOf <- MCLibraryOf
  Path = {whole, part}
  Roots <- MCRoots
  Schedule = {s1, s2}
  Draft <- MCDraft
  Saved <- MCSaved
  Calendar <- MCCalendar
  MaxEdits = 1
  MaxMoves = 1
  MaxCorrections = 1
  MaxStops = 1
SYMMETRY Symmetry
INVARIANT TypeOK
INVARIANT RunsOnce
INVARIANT RunsWhenNamed
INVARIANT NothingOwed
CHECK_DEADLOCK FALSE
