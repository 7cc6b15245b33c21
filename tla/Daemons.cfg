SPECIFICATION Spec
CONSTANTS
  n1 = n1
  n2 = n2
  w1 = w1
  None = None
  Orphans = Orphans
  Nodes = {n1, n2}
  Web = {w1}
  UserCommands = {"enable", "confirm"}
  MayFail = {"files", "power"}
  Ticks = {"health", "update"}
SYMMETRY Symmetry
CHECK_DEADLOCK FALSE
INVARIANTS
  TypeOK
  
PROPERTIES
  ImplementsPromise
