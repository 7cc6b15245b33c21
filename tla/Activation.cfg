SPECIFICATION FairSpec
CONSTANTS
  n1 = n1
  n2 = n2
  w1 = w1
  None = None
  Orphans = Orphans
  Nodes = {n1, n2}
  Web = {w1}
  UserCommands = {"enable", "disable"}
  MayFail = {"probe_node", "routes_add", "arm", "crash", "power", "start_engine", "local_tunnel_probe"}
  Ticks = {}
CHECK_DEADLOCK FALSE
INVARIANTS
  ModeIsReal
  OnlyTestedServesLan
PROPERTIES
  RedirectIsServed
  PendingEnds
