--------------------------- MODULE AtLeastOnceQueue ---------------------------
(***************************************************************************)
(* What a work queue promises to those who push on it: a message is handed *)
(* to one consumer at a time, comes back to the queue when that consumer   *)
(* goes away, and leaves it for good when it is acknowledged or rejected.  *)
(***************************************************************************)
CONSTANTS Messages

VARIABLE place   \* place[m]: "unsent", "ready", "held", "acked" or "rejected"

Init == place = [m \in Messages |-> "unsent"]

Move(S, from, to) ==
  /\ \A m \in S : place[m] = from
  /\ place' = [m \in Messages |-> IF m \in S THEN to ELSE place[m]]

Push    == \E m \in Messages : Move({m}, "unsent", "ready")
Deliver == \E m \in Messages : Move({m}, "ready", "held")
Return  == \E S \in SUBSET Messages : Move(S, "held", "ready")
Ack     == \E m \in Messages : Move({m}, "held", "acked")
Reject  == \E m \in Messages : Move({m}, "held", "rejected")

Next == Push \/ Deliver \/ Return \/ Ack \/ Reject

Spec == Init /\ [][Next]_place
=============================================================================
