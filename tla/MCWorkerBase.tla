----------------------------- MODULE MCWorkerBase -----------------------------
(***************************************************************************)
(* One message of high priority next to one of low priority.               *)
(***************************************************************************)
EXTENDS WorkerBase, TLC

CONSTANTS high, low1

MCPriority == [m \in Messages |-> IF m = high THEN "HIGH" ELSE "LOW"]
=============================================================================
