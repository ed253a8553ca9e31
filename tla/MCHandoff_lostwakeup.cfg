SPECIFICATION FairSpec
CONSTANTS
  Miners = {m1}
  Kinds = {"user"}
  Renotify = FALSE
  XelisMiner = FALSE
  MineTime = FALSE
  MaxJobs = 2
  MaxClaims = 1
PROPERTIES Reconnects
