---------------------------- MODULE MCWorkspaceSync ----------------------------
(***************************************************************************)
(* Two workspaces with one vertex, which is in one of them at first: what  *)
(* is taken for the other workspace's shows.                               *)
(***************************************************************************)
EXTENDS WorkspaceSync

CONSTANTS w1, w2

MCStored == {s \in [Workspaces -> Contents] : s[w1] # s[w2]}
=============================================================================
