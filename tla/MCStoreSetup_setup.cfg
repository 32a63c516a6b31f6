SPECIFICATION SetupSpec
CONSTANTS
  Procs = {p1, p2, p3}
  ForeignVersion = 2
SYMMETRY Symmetry
INVARIANTS
  SetupInv
  ReadyMeansUsable
  OneVersionOnly
