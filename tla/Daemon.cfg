CONSTANTS
  Procs = {d1, d2}
  MaxInodes = 1
  NoProc = NoProc
  Hooks = {h1, h2}
  MaxConcurrent = 1
  Machines <- MCMachines
  Circumstances <- MCCircumstances
  Lines <- MCLines
  Empty = Empty
  NoOptions = NoOptions
SPECIFICATION MCSpec
INVARIANTS OwnerPidIntact AuditedAtExit SocketReachable 
PROPERTY ShutdownCompletes
CHECK_DEADLOCK FALSE
