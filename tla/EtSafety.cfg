CONSTANTS
  c1 = c1  c2 = c2  f1 = f1  f2 = f2
  Clients = {c1, c2}
  FDs = {f1, f2}
  None = None
  Listen = Listen
  N = 3
  SndCap = 1
  RcvCap = 2
  BacklogCap = 2
  MaxEvents = 2
  Trigger = "ET"
  MayFin = {c1, c2}
  MayReset = {c1, c2}
  BufSize = 2
  AddFails = TRUE
SPECIFICATION Spec
SYMMETRY Symmetry
INVARIANTS NoStaleEvent NoLostWakeup LossOnlyAfterPeerCloses
PROPERTY ImplementsEcho
CHECK_DEADLOCK FALSE
