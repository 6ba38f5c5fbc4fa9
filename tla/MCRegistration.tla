--------------------------- MODULE MCRegistration ---------------------------
(* Three module objects: two roots, or a root with children and grandchildren.   *)
(* The objects and the names are interchangeable: no operator orders them.        *)
EXTENDS Registration, TLC

MCSymmetry == Permutations(Module) \cup Permutations(Name)
=============================================================================
