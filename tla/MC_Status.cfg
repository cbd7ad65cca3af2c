SPECIFICATION Spec
CONSTANTS
  h1 = h1
  h2 = h2
  r1 = r1
  None = None
  Handlers = {h1, h2}
  Readers = {r1}
  StatusKeys <- TwoStatusKeys
  CleaningKeys <- OneCleaningKey
  MaxMessages = 2
  MaxRequests = 2
SYMMETRY Symmetry
INVARIANTS
  AvailableHasRevision
  LabelNotOlder
  RevisionNotOlder
  ImageNotOlderThanRevision
  SettledStateIsWhole
  QuietAnswersAgree
  IInv
