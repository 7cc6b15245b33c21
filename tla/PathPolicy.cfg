SPECIFICATION Spec
CONSTANTS
  Devices = {d1, d2}
  Ports <- ThreePorts
SYMMETRY Symmetry
INVARIANTS
  
  ChosenServed
  QuicFollows
