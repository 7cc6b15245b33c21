SPECIFICATION FairSpec
CONSTANTS
  MaxClients = 4
  Backlog = 2
  MayFail = {"accept", "fork"}
CHECK_DEADLOCK FALSE
INVARIANTS
  TypeOK
  AtMostMaxClients
  EndsAfterRelays
PROPERTIES
  DrainEnds
