SPECIFICATION Spec
CONSTANTS
  p1 = p1  p2 = p2  p3 = p3  a = a  b = b  Nobody = Nobody
  Procs = {p1, p2, p3}
  Bytes = {a}
  PIPESIZE = 2
  UINT = 4
  Counts = {1, 2}
  Kills = TRUE
INVARIANTS ReadersSleepOnEmpty
CHECK_DEADLOCK FALSE
