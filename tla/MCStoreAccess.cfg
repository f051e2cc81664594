SPECIFICATION FewSpec
CONSTANTS
  Device = {d1, d2}
  Link = {l1, l2}
  Shelf = {s1, s2}
  MaxGuesses = 1
  MaxPin = 2
  MaxWindow = 1
  MaxTries = 2
  MaxRevision = 2
SYMMETRY Symmetric
INVARIANTS TypeOK OneEditorPerLink SessionsFollowPin GuessesBounded LocationsAttached
PROPERTIES EditsKept
CHECK_DEADLOCK FALSE
