SPECIFICATION FairSpec
CONSTANTS
  Miners = {m1}
  Kinds = {"user", "dev"}
  Feeds = {"stratum", "getwork"}
  MaxJobs = 2
  MaxBumps = 2
  Drops = {"user"}
INVARIANTS TypeOK LabelNeverOlder GetworkNamesItsJob
PROPERTIES LabelFresh BoardSpec MinersFollow
CHECK_DEADLOCK FALSE
