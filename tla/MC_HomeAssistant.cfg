SPECIFICATION FairSpec
CONSTANTS
  u1 = u1
  u2 = u2
  None = None
  Users = {u1, u2}
  Capabilities <- Tables
  Reports <- TwoReports
  Moves = {"home"}
  Budgets <- Scenarios
INVARIANTS
  TypeOK
  VoiceAgrees
  RefreshSeesCommand
PROPERTIES
  RefusedOnlyByLogin
  EntitiesSettle
  ImageSettles
  CallsEnd
