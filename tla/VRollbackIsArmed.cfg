SPECIFICATION Spec
CONSTANTS
  n1 = n1
  n2 = n2
  w1 = w1
  None = None
  Orphans = Orphans
  Nodes = {n1, n2}
  Web = {w1}
  UserCommands = {"enable", "set-paths"}
  MayFail = {}
  Ticks = {}
SYMMETRY Symmetry
CHECK_DEADLOCK FALSE
INVARIANTS
  RollbackIsArmed
