--------------------------------- MODULE Parts ---------------------------------
(***************************************************************************)
(* Parts that share no state: the panes of the page for unpublished        *)
(* changes, activities, the selection and the search, and the workspaces   *)
(* of the servers.  None of them reads what another one keeps, so that no  *)
(* interleaving of two parts reaches a state that one alone does not; a    *)
(* behaviour has one part at work, chosen at its start.                    *)
(***************************************************************************)
EXTENDS DiffPanel, ActivityList, ObjectSelection, SearchPane, WorkspaceStore

VARIABLE part

paneVars == <<diffVars, activityVars, selectionVars, searchVars>>
partsVars == <<part, paneVars, storeVars>>

\* A part that is not at work has one initial state
Init ==
  /\ part \in {"diff", "activity", "selection", "search", "store"}
  /\ DiffInit /\ (part # "diff" => Shown = {})
  /\ ActivityInit /\ (part # "activity" => tasks = <<>>)
  /\ SelectionInit
  /\ SearchInit /\ (part # "search" => queryVal = Empty)
  /\ StoreInit

Next ==
  /\ UNCHANGED part
  /\ \/ part = "diff" /\ DiffNext /\ UNCHANGED <<activityVars, selectionVars, searchVars, storeVars>>
     \/ part = "activity" /\ ActivityNext /\ UNCHANGED <<diffVars, selectionVars, searchVars, storeVars>>
     \/ part = "selection" /\ SelectionNext /\ UNCHANGED <<diffVars, activityVars, searchVars, storeVars>>
     \/ part = "search" /\ SearchNext /\ UNCHANGED <<diffVars, activityVars, selectionVars, storeVars>>
     \/ part = "store" /\ StoreNext /\ UNCHANGED paneVars

Spec == Init /\ [][Next]_partsVars
=============================================================================
