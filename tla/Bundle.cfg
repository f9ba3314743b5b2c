CONSTANTS
  b1 = b1
  b2 = b2
  bExtract = bExtract
  bHealth = bHealth
  bReload = bReload
  Bundles <- MCBundles
  Quality <- MCQuality
  Keys = {trusted, other}
  TrustedKeys = {trusted}
  KeepCount = 2
  NoBundle = NoBundle
  NoKey = NoKey
  MaxPublications = 3
  MaxFaults = 1
  MaxRestarts = 1
  PolicyLists <- MCPolicyLists
  ToolNames = {"Bash"}
  SessionIds = {"s"}
  EffectSets = {{}}
SPECIFICATION LoaderSpec
INVARIANTS VerifiedOnly   
PROPERTIES LastPublicationLive
CHECK_DEADLOCK FALSE
