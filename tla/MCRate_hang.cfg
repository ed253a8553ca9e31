SPECIFICATION FairSpec
CONSTANTS
  Window = 2
  Interval = 2
  Losable = TRUE
  Broadcast = FALSE
  MaxHashes = 4
PROPERTIES StatusKeepsComing
