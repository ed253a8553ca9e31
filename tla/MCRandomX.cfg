SPECIFICATION FairSpec
CONSTANTS
  Miners = {m1}
  Kinds = {"user"}
  Items = {i1}
  MaxSeed <- Epochs
INVARIANTS TypeOK KeyNamesDataset ReadyMeansBuilt HashesOnItsSeed
PROPERTIES Settles MinersHash
