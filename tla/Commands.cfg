SPECIFICATION Spec
CONSTANTS
  n1 = n1
  n2 = n2
  w1 = w1
  w2 = w2
  None = None
  Orphans = Orphans
  Nodes = {n1, n2}
  Web = {w1, w2}
  UserCommands = {"start-local", "stop-local", "best-youtube", "set-paths", "remove-subscription", "refresh", "refresh-paths"}
  MayFail = {"valid_id", "start_engine", "local_tunnel_probe", "policy_refresh", "rank", "arm"}
  Ticks = {}
SYMMETRY Symmetry
CHECK_DEADLOCK FALSE
INVARIANTS
  DirectWhenOff
  RedirectOnlyWhenActive
  PendingIsRecorded
