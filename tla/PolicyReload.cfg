CONSTANTS
  NFiles = 2
  Kinds = {"absent", "ok", "yaml", "skipDeny"}
  Main = main
  Timers = {g1, g2}
  NoOne = none
  MaxEdits = 2
  MaxPosts = 1
SPECIFICATION Spec
INVARIANTS  ConvergesAlone
PROPERTIES EveryChangeReloaded
CHECK_DEADLOCK FALSE
