SPECIFICATION Spec
CONSTANTS
  Module = {m1, m2, m3}
  Nobody = nobody
  Name = {na, nb}
  Kind = {"In", "Wire"}
  MaxActs = 2
  Nesting = FALSE
  Late = TRUE
INVARIANTS
  TypeOK
  TopIsRunning
  NoDangling
PROPERTIES
  NoStrayAction
SYMMETRY MCSymmetry
CHECK_DEADLOCK FALSE
