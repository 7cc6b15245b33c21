SPECIFICATION Spec
CONSTANTS
  Repo = {r1}
  Subscriptions = {s1, s2}
  Requests = {q1, q2}
  StartingMax = 1
SYMMETRY Symmetry
INVARIANTS
  PublishedHaveConf
  LastGoodSurvives
PROPERTIES
  RemovedIsForgotten
  UrlBeforeServers
