SPECIFICATION Spec
CONSTANTS
  None = None
  Texts = {"map"}
  MaxStores = 1
  MaxFaults = 0
  MaxRestarts = 0
INVARIANTS
  ShutdownLeavesWholeFiles
