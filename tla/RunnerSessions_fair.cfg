CONSTANTS
  r1 = r1
  r2 = r2
  Nobody = Nobody
  Runners <- TwoRunners
  MaxEvents = 1
SPECIFICATION FairSpec
INVARIANTS OneRunner PhantomIsDead
PROPERTIES StealsOnlyUnseen OrphanClosed
CHECK_DEADLOCK FALSE
