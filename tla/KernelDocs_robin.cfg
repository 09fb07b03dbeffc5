SPECIFICATION FairSpec
CHECK_DEADLOCK FALSE
CONSTANTS
  MaxProcs = 2
  MaxPid = 2
  MaxSleep = 1
  Vals = {0, 1}
  Codes = {1}
  Syscalls <- MaskedCalls
  ExecResults <- AllExecResults
  UninitJoin = {0}
  UninitWake = {0}
PROPERTY
  DocRoundRobin
