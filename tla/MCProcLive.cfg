SPECIFICATION FairSpec
CONSTANTS
  NPROC = 3
  NCPU = 1
  MaxSleep = 1
  Calls = {"fork", "exit", "wait", "sleep"}
  Victims = {1, 2}
  KillZero = FALSE
PROPERTIES RunnableRuns ZombiesReaped SleepReturns
