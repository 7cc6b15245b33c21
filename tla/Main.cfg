SPECIFICATION FairSpec
CONSTANTS
  Links <- AllLinks
  PlainLinks <- ProbedLinks
  KeyMin = 40
  KeyMax = 44
  KeyLength = 43
  Transports = {"tcp", "ws", "grpc"}
  BufferSize = 4
  ChunkSize = 1
  MessageMax = 3
  Window = 5
  DataMax = 3
  ControlMax = 1
  SendMax = 2
  FlightMax = 1
  ResponseMax = 3
  HeaderMax = 2
  RecordMax = 4
  BodyMax = 6
  Argv = {"--check-config", "--probe-config", "--probe-endpoint-config", "--probe-youtube-config", "--serve", "--resolve-a", "--fetch-crunch"}
CHECK_DEADLOCK FALSE
INVARIANTS
  LoadedAsLinked
  CutKeepsSecurity
  
  RequestToVerified
  
  ProbeFailsForCause
  FetchedWhole
  GoodAnswerIsFetched
PROPERTIES
  PlainProbeEnds
