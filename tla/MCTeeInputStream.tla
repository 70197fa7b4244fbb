--------------------------- MODULE MCTeeInputStream ---------------------------
(***************************************************************************)
(* A few tees over a buffer smaller than the source, so that the buffer    *)
(* wraps, fills up and drains.                                             *)
(***************************************************************************)
EXTENDS TeeInputStream
=============================================================================
