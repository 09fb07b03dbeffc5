SPECIFICATION Spec
CHECK_DEADLOCK FALSE
CONSTANTS
  MaxProcs = 2
  MaxPid = 3
  MaxSleep = 1
  Vals = {0, 1}
  Codes = {1}
  Syscalls <- AllCalls
  ExecResults <- AllExecResults
  UninitJoin = {0, 1, 2}
  UninitWake = {0, 1}
INVARIANTS
  TypeOK
  TableOK
