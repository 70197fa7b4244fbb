------------------------------ MODULE TeeStreams ------------------------------
(***************************************************************************)
(* What a tee of an input stream promises to those who read its branches:  *)
(* each branch that is not closed gets the bytes of the source, every one  *)
(* of them once and in order, is told that the source has ended only when  *)
(* it has them all, and never makes the tee hold more than Capacity bytes  *)
(* between the slowest reader and the source.                              *)
(*                                                                         *)
(* A byte is identified with its position in the source, 0, 1, 2, ...      *)
(***************************************************************************)
EXTENDS Integers, Sequences

CONSTANTS
  Tees,          \* the branches
  SourceLen,     \* number of bytes of the source
  Capacity,
  HighBytes      \* positions of the bytes 0xFF

VARIABLES
  fed,           \* bytes taken from the source
  received,      \* received[i]: what the reads of i returned
  eof,           \* eof[i]: where a read of i returned -1
  closed

vars == <<fed, received, eof, closed>>

Init ==
  /\ fed = 0
  /\ received = [i \in Tees |-> <<>>]
  /\ eof = [i \in Tees |-> {}]
  /\ closed = [i \in Tees |-> FALSE]

Feed ==
  /\ \E n \in 1 .. SourceLen - fed :
       /\ \A i \in Tees : ~closed[i] => fed + n <= Len(received[i]) + Capacity
       /\ fed' = fed + n
  /\ UNCHANGED <<received, eof, closed>>

Deliver(i) ==
  /\ ~closed[i]
  /\ \E n \in 1 .. fed - Len(received[i]) :
       received' = [received EXCEPT
                      ![i] = @ \o [k \in 1 .. n |-> Len(received[i]) + k - 1]]
  /\ UNCHANGED <<fed, eof, closed>>

\* A single-byte read of 0xFF is not told from the end.
EndOfStream(i) ==
  /\ ~closed[i]
  /\ Len(received[i]) \in {SourceLen} \cup HighBytes
  /\ eof' = [eof EXCEPT ![i] = @ \cup {Len(received[i])}]
  /\ UNCHANGED <<fed, received, closed>>

Close(i) ==
  /\ closed' = [closed EXCEPT ![i] = TRUE]
  /\ UNCHANGED <<fed, received, eof>>

Next == Feed \/ \E i \in Tees : Deliver(i) \/ EndOfStream(i) \/ Close(i)

Spec == Init /\ [][Next]_vars
=============================================================================
