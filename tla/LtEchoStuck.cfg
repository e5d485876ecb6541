CONSTANTS
  c1 = c1  c2 = c2  f1 = f1  f2 = f2
  Clients = {c1}
  FDs = {f1}
  None = None
  Listen = Listen
  N = 3
  SndCap = 1
  RcvCap = 2
  BacklogCap = 2
  MaxEvents = 3
  Trigger = "LT"
  MayFin = {}
  MayReset = {}
  BufSize = 2
  AddFails = FALSE
SPECIFICATION FairSpec
PROPERTY EchoedAlways
CHECK_DEADLOCK FALSE
