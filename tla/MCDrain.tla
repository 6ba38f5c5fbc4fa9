------------------------------ MODULE MCDrain ------------------------------
(***************************************************************************)
(* The four instances of the Queue template, three slots deep (pointers    *)
(* that wrap at a number that is no power of two), each with a pipe long   *)
(* enough to hold elements, gaps and stale words at once.                  *)
(***************************************************************************)
EXTENDS Drain

MCMode == [flow : BOOLEAN, pipe : BOOLEAN]
=============================================================================
