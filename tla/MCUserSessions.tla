---------------------------- MODULE MCUserSessions ----------------------------
(***************************************************************************)
(* One user in one browser, with a tab on a web socket and one that polls, *)
(* or with a single tab.                                                   *)
(***************************************************************************)
EXTENDS UserSessions, TLC

CONSTANTS u1, b1, w, p

Alone   == b1 :> u1
TwoTabs == w :> b1 @@ p :> b1
OneTab  == p :> b1
=============================================================================
