SPECIFICATION Spec
CONSTANTS
  p1 = p1  p2 = p2  p3 = p3  x = x  y = y  Nobody = Nobody
  Procs = {p1, p2, p3}
  NBLOCK = 3
  Vals = {x, y}
  NBUF = 2
  MaxHeld = 2
  MaxPinned = 1
SYMMETRY Symmetry
INVARIANTS RefcntExact SleepersHaveHolder
PROPERTIES CacheIsStore
