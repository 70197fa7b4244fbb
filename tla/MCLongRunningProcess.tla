------------------------- MODULE MCLongRunningProcess -------------------------
(***************************************************************************)
(* Two runners, so that one takes over from the other.                     *)
(***************************************************************************)
EXTENDS LongRunningProcess, TLC

Symmetry == Permutations(Runners)
=============================================================================
