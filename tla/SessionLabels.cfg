CONSTANTS
  MaxLevel = 1
  Categories = {taint}
  TaintBit = taint
  Sessions = {s1}
  Threads = {t1, t2}
  NoThread = NoThread
  Inputs <- MCInputs
  Parents <- MCParents
  LevelSize = 2
  MaskSize = 4
SPECIFICATION FairSpec
INVARIANTS NoLostElevation LifecycleFollowsLabel PackingFaithful
PROPERTIES ElevateIsAtomic EveryCallReturns
