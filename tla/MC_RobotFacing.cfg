SPECIFICATION FairSpec
CONSTANTS
  HeaderSize = 2
  MaxPacketSize = 4
  PayloadSize <- AckSizes
  Streams <- SomeStreams
  Requests <- SomeRequests
  BlockSize = 4
  MaxTrouble = 2
INVARIANTS
  TcpTypeOK
  InStep
  AcksAreDue
  ReadBeforeAnswer
PROPERTIES
  RobotGetsIn
