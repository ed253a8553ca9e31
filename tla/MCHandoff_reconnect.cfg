SPECIFICATION FairSpec
CONSTANTS
  Miners = {m1}
  Kinds = {"user"}
  Renotify = TRUE
  XelisMiner = FALSE
  MineTime = TRUE
  MaxJobs = 2
  MaxClaims = 1
INVARIANTS WaitedForSubmitThread
PROPERTIES Reconnects ShutdownEnds
CHECK_DEADLOCK FALSE
