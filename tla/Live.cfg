CONSTANTS
  c1 = c1  c2 = c2  f1 = f1
  None = None
  Listen = Listen
  Chosen = {"et", "lt", "mp", "mt", "ring", "ping", "timed"}
  Cap = 2
  Laps = 2
  N = 6
SPECIFICATION LiveSpec
INVARIANT NoDataRace
PROPERTIES ImplementsFifo ImplementsEcho Echoed Reclaimed Accepted Finishes
CHECK_DEADLOCK FALSE
