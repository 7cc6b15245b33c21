SPECIFICATION FairSpec
CONSTANTS
  Transports = {"tcp", "ws", "grpc"}
  BufferSize = 4
  ChunkSize = 1
  MessageMax = 3
  Window = 5
  DataMax = 2
  ControlMax = 1
  SendMax = 2
  UploadMax = 2
  FlightMax = 1
CHECK_DEADLOCK FALSE
INVARIANTS
  
  UploadIntact
  FollowsServer
  
  CreditKept
PROPERTIES
  PlainClientIsServed
