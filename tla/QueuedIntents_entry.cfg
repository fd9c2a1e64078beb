SPECIFICATION MCFairSpec
CONSTANTS
  r1 = r1
  h1 = h1
  Sessions = {r1, r2}
  NoSession = NoSession
  MaxDay = 1
  Keys <- EntryOrExit
  Hashes = {h1, h2}
  NoDay = NoDay
  Procs = {p1, p2}
  Nobody = Nobody
  Mortal = {p1}
PROPERTIES
  ImplementsLock
  OrphanReclaimed
  NothingLingers
CHECK_DEADLOCK FALSE
