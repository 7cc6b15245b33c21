SPECIFICATION Spec
CONSTANTS
  p1 = p1
  p2 = p2
  p3 = p3
  None = None
  Empty = Empty
  Procs = {p1, p2, p3}
  MayDie = {p1}
SYMMETRY Symmetry
CHECK_DEADLOCK FALSE
INVARIANTS
  SurvivorEnters
  
