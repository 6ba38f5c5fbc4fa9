SPECIFICATION Spec
CONSTANTS
  Tag = {"fn", "gn", "copy", "upd"}
  NoTag = "none"
  E = 6
  NoEq = {2}
  RootIn = {5}
  State = {6}
  NoSrc = 0
  N = 4
INVARIANTS
  TypeOK
  Compressed
  StillDriven
  FollowsSources
  OnlyCyclesKept
  ComponentsExact
  SinksClosedFirst
  TopologicalOrder
  NeverRunsOut
  NoBackwardEdge
  GroupsAreCycles
  RefusedOnlyForCycles
  EngineReady
PROPERTIES
  TypeGreedy
  ImplementsLinearExtension
  Completes
\* Elaboration ends, with a netlist or with an Error.
CHECK_DEADLOCK FALSE
