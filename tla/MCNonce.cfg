SPECIFICATION Spec
CONSTANTS
  Miners = {0, 1}
  TidSpan = 2
  RandSpan = 1
  CountSpan = 2
  ExtraSpan = 2
  ExtraNonces = {1}
  Styles = {"shared", "sharedReset", "perJob", "perCopy"}
  MaxJobs = 2
  MaxBumps <- BumpsByStyle
  MaxCount = 3
INVARIANTS TypeOK ThreadsApart ExtraNonceKept NonceNeverRepeats
CHECK_DEADLOCK FALSE
