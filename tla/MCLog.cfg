SPECIFICATION MCSpec
CONSTANTS
  p1 = p1  p2 = p2  p3 = p3
  b1 = b1  b2 = b2  b3 = b3  b4 = b4  b5 = b5  b6 = b6
  v0 = v0  v1 = v1
  Procs = {p1, p2, p3}
  Readers = {p1}
  Blocks = {b1, b2, b3, b4, b5, b6}
  Vals = {v0, v1}
  Zero = v0
  Absent = Absent
  NoProc = NoProc
  MAXOPBLOCKS = 3
  LOGSIZE = 6
  SIZE = 7
  OpWrites = 2
INVARIANT NoPanic
PROPERTIES AtomicCommit SleepersWoken ComesUp
