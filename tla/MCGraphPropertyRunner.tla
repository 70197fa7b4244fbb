------------------------ MODULE MCGraphPropertyRunner ------------------------
(***************************************************************************)
(* Two workers and two messages: "whole" names an element with a stream    *)
(* and a plain property, "one" the plain property and, where there is one, *)
(* a property that interests no worker.                                    *)
(***************************************************************************)
EXTENDS GraphPropertyRunner, TLC

CONSTANTS whole, one, stream, plain, ignored

MCScope == (whole :> {stream, plain}) @@ (one :> {plain, ignored} \cap Properties)
MCInterested == [p \in Properties |-> CASE p = stream -> {1, 2} [] p = plain -> {1} [] OTHER -> {}]
=============================================================================
