\* The smallest instance in which two daemons run at once.
CONSTANTS
  Procs = {d1, d2}
  MaxInodes = 2
  NoProc = NoProc
SPECIFICATION Spec
INVARIANT OnlyOneInstance
CHECK_DEADLOCK FALSE
