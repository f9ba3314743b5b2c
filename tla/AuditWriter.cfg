CONSTANTS
  ChannelCap = 2
  BatchSize = 2
  CheckpointEvery = 2
  LabelKeys = {k1}
  MaxItems = 4
  MaxRestarts = 1
SPECIFICATION FairSpec
INVARIANTS ChainVerifies Conserved CheckpointDurable
PROPERTIES EventuallyWritten
CHECK_DEADLOCK FALSE
