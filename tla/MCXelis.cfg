SPECIFICATION FairSpec
CONSTANTS
  Kinds = {"user", "dev"}
  JobTimeout = 2
  ReadTimeout = 1
INVARIANTS TypeOK TemplateWhole
PROPERTIES TimeoutAfterSilence DeadConnectionNoticed
