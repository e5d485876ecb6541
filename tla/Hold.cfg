SPECIFICATION FairSpec
CONSTANTS
  None = None
  Conns = {k1, k2, k3}
  FDs = {g1, g2}
  Threads = {t1, t2}
  target = 2
  MaxBudget = 2
  Hold = TRUE
  LocalErrors = TRUE
  AddFails = TRUE
  ServerStops = TRUE
INVARIANTS EstIsCounted EstabIsHeld
PROPERTIES ClosesOnlyEnded Reaches LetsGo
CHECK_DEADLOCK FALSE
