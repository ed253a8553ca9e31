SPECIFICATION Spec
CONSTANTS
  Miners = {m1}
  Kinds = {"user", "dev"}
  Renotify = FALSE
  XelisMiner = TRUE
  MineTime = FALSE
  MaxJobs = 1
  MaxClaims = 1
INVARIANTS TypeOK SendsAnswerClaims
