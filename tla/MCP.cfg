CONSTANTS
  Reqs = {r1, r2}
  Defs = {d1, d2}
  NoDef = NoDef
  MaxCalls = 2
  Threshold = 2
  MaxFaults = 1
  MaxChanges = 2
SYMMETRY Interchangeable
SPECIFICATION Spec
INVARIANTS OwnAnswer DriftBlocksCalls AnswerOnItsWay
CHECK_DEADLOCK FALSE
