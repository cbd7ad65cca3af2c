SPECIFICATION FairSpec
CONSTANTS
  None = None
  Texts = {"map"}
  MaxStores = 2
  MaxFaults = 1
  MaxRestarts = 2
INVARIANTS
  TypeOK
  WholeUnlessClash
  CompletedSavesLast
PROPERTIES
  FilesMoveForward
  LoopCatchesUp
