SPECIFICATION Spec
CONSTANTS
  Miners = {m1}
  Kinds = {"user"}
  Feeds = {"stratum"}
  MaxJobs = 2
  MaxBumps = 0
  Drops = {}
INVARIANT ShareNamesItsJob
