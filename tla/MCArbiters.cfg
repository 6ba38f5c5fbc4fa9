SPECIFICATION Spec
CONSTANT N = 4
INVARIANTS
  TypeOK
  FixedOneWinner
  RROneWinner
  ReadyIgnoresOwnValid
  BoundedWait
