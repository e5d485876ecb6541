SPECIFICATION Spec
CONSTANTS
  Cap = 4
  Laps = 2
  N = 10
INVARIANT WritesInside
