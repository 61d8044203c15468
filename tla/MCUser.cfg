SPECIFICATION Spec
CONSTANTS
  NPAGES = 22
  RADIX = 4
  PGSIZE = 2
  UINT64 = 1000
  USERSTACK = 1
  MAXARG = 2
  Owners = {1, 2}
  MaxSize = 10
  Amounts <- MCAmounts
  Programs <- MCExecs
  Touched = {0, 2}
  Reserved = {0, 5, 6, 7, 8, 9, 10, 11, 12, 13, 14}
  MaxCalls = 4
  MAXARGS = 4
  Procs = {1, 2, 3, 4, 5, 6, 7, 8}
  Files = {"f", "g"}
  NOFILE = 6
  PIPESIZE = 1
  NPIPES = 2
  NFILES = 3
  Workloads <- MCWorkloads
  HEAP = 3
  TOP = 13
  MINCORE = 4
  Requests = {2, 3, 5}
  Sbrks = {1}
  Addresses = {1, 2, 3}
  MAX_REFERENCES = 2
  RootCount = 1
INVARIANTS MemoryExact OutputAsMeant HeapExact
PROPERTIES ImagesSeparate AllOrNothing ShellAllRun FailsOnlyWhenFull CollectsExactly
CHECK_DEADLOCK FALSE
