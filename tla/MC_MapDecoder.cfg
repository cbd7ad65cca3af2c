SPECIFICATION Spec
CONSTANTS
  PerByte = 2
  Width = 4
  Height = 2
  Arguments <- SomeArguments
INVARIANTS
  DecodesRuns
  TrackIsDrawn
PROPERTIES
  RenderAdvances
