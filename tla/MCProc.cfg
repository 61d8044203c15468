SPECIFICATION Spec
CONSTANTS
  NPROC = 3
  NCPU = 2
  MaxSleep = 1
  Calls = {"fork", "exit", "wait", "kill", "fault", "sleep"}
  Victims = {1, 2}
  KillZero = FALSE
INVARIANTS OneStack NoOrphans NoWakeupLost KilledOnPurpose
