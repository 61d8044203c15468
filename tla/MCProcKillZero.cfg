SPECIFICATION Spec
CONSTANTS
  NPROC = 3
  NCPU = 1
  MaxSleep = 0
  Calls = {"fork", "exit", "wait", "kill"}
  Victims = {1, 2}
  KillZero = TRUE
INVARIANTS KilledOnPurpose
