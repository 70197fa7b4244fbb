------------------------------- MODULE MCParts -------------------------------
(***************************************************************************)
(* For the panes: two vertices, an edge from the one to the other, and a   *)
(* property of the first and of the edge.  For the store: two servers, one *)
(* with two threads, which are alike.                                      *)
(***************************************************************************)
EXTENDS Parts, TLC

CONSTANTS v1, v2, e1, p1, p2, server1, server2, c1, c2, c3

MCOutVertex == [e \in EdgeRows |-> v1]
MCInVertex == [e \in EdgeRows |-> v2]
MCElementOf == [p \in PropertyRows |-> IF p = p1 THEN v1 ELSE e1]
MCRowOrder == <<v1, p1, v2, e1, p2>>
MCServerOf == [c \in Calls |-> IF c = c3 THEN server2 ELSE server1]
SameServer == Permutations({c1, c2})
=============================================================================
