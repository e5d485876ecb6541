SPECIFICATION Spec
CONSTANTS
  None = None
  Conns = {k1, k2, k3}
  FDs = {g1, g2}
  Threads = {t1}
  target = 2
  MaxBudget = 1
  Hold = TRUE
  LocalErrors = FALSE
  AddFails = FALSE
  ServerStops = TRUE
INVARIANT EstWithinSockets
CHECK_DEADLOCK FALSE
