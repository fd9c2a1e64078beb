SPECIFICATION Spec
CONSTANTS
  Readers = {p1, p2}
  Backfillers = {p1, p2}
  MaxDay = 2
  MaxCalls = 3
  MaybeEx = {2}
  GapWindow = 2
SYMMETRY ReaderSymmetry
INVARIANTS
  HitIsOneEpoch
  ServesItsFetch
PROPERTIES
  NothingTakenBack
CHECK_DEADLOCK FALSE
