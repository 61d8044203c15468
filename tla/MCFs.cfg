SPECIFICATION Spec
CONSTANTS
  BSIZE = 4
  NDIRECT = 1
  NINODES = 7
  NBLOCKS = 10
  Procs = {1, 2, 3}
  NINODE = 5
  NFILE = 3
  NOFILE = 3
  MAXOPBLOCKS = 6
  Files <- MCFiles
  Programs <- MCPrograms
INVARIANTS DiskConsistent RefsExact UnlinkedAreOpenOrReused NoPanic NoDeadlock TestsPass
CHECK_DEADLOCK FALSE
