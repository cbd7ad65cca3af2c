SPECIFICATION Spec
CONSTANTS
  None = None
  Texts = {"map"}
  MaxStores = 2
  MaxFaults = 0
  MaxRestarts = 0
INVARIANTS
  LoopSurvives
