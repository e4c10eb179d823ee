SPECIFICATION Spec
CONSTANTS
  Workers = {w1, w2}
  Main = main
  Coros = {c1}
  None = none
  MaxSuspends = 1
  MaxReuses = 1
INVARIANT DestroyedOnce
