SPECIFICATION LockFileSpec
CONSTANTS
  Procs = {p1, p2, p3}
  Nobody = Nobody
  Mortal = {p1}
INVARIANTS
  MutualExclusion
