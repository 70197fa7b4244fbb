---------------------------- MODULE ObjectSelection ----------------------------
(***************************************************************************)
(* The objects selected on the page, data/withObjectSelection.js.  Objects *)
(* named by ids are requested from the worker's store, which asks the      *)
(* server for those that are not in its cache; the selection is published  *)
(* when the history of selections, which is not modelled, has loaded what  *)
(* it shows.  What is in the cache is left open, except that an object is  *)
(* taken from it when the worker hears that it was deleted, which is later *)
(* than the deletion, and comes back with an answer that was read before.  *)
(***************************************************************************)
EXTENDS Naturals, Sequences, FiniteSets

CONSTANTS
  SelectableVertices, SelectableEdges,
  MaxSelects, MaxFaults    \* bounds on selections; and on deletions, failures and late answers

ASSUME SelectionAssumption ==
  /\ SelectableVertices \cap SelectableEdges = {}
  /\ MaxSelects \in Nat /\ MaxFaults \in Nat

VARIABLES
  existing,        \* vertices and edges that are not deleted
  kept,            \* those the worker has not told the page were deleted
  selectedObjects,
  previous,        \* <<previousSelectedObjects>>, empty until the first selection is published
  shared,          \* previousSelectedObjects is the object selectedObjects is
  published,       \* selectedObjects of the public API
  selects,         \* selects[i]: the i-th event that names objects by ids
  appending,       \* number of calls of appendToStack that have not come back
  fromWorker,      \* its messages: answers, and what was deleted
  faults,
  \* history
  unpublished,     \* the selection changed without being published
  outdated         \* objects that were told to be deleted, and came back from an earlier reading

selectionVars ==
  <<existing, kept, selectedObjects, previous, shared, published, selects, appending, fromWorker, faults,
    unpublished, outdated>>

Objects == SelectableVertices \cup SelectableEdges
\* Vertices go before edges
Selections == (SUBSET SelectableVertices) \cup (SUBSET SelectableEdges)

SelectionInit ==
  /\ existing = Objects /\ kept = Objects
  /\ selectedObjects = {} /\ previous = <<>> /\ shared = FALSE /\ published = {}
  /\ selects = <<>> /\ appending = 0 /\ fromWorker = <<>> /\ faults = 0
  /\ unpublished = FALSE /\ outdated = {}

Fault == faults < MaxFaults /\ faults' = faults + 1

-----------------------------------------------------------------------------
\* The selection is published as it is by now, whichever call of appendToStack came back
PublishSelection(objects) ==
  /\ published' = objects /\ previous' = <<objects>> /\ shared' = TRUE /\ unpublished' = FALSE

\* mutant: an empty selection, for which there is nothing to append, is not published
ResolvedIfSome(objects, hasItems) ==
  IF objects = {} /\ hasItems
  THEN UNCHANGED <<selectedObjects, previous, shared, published, appending, unpublished>>
  ELSE /\ selectedObjects' = objects /\ shared' = FALSE
       /\ appending' = IF objects = {} \/ previous = <<objects>> THEN appending ELSE appending + 1
       /\ UNCHANGED <<previous, published, unpublished>>

(***************************************************************************)
(* The promises of onSelectObjects.  Nothing happens if there is nothing   *)
(* of what was asked for.  What was published last is kept but not         *)
(* published again; of nothing there is nothing to append to the history.  *)
(***************************************************************************)
Resolved(objects, hasItems) ==
  IF objects = {} /\ hasItems
  THEN UNCHANGED <<selectedObjects, previous, shared, published, appending, unpublished>>
  ELSE /\ selectedObjects' = objects
       /\ IF objects = {} /\ previous # <<objects>>
          THEN PublishSelection({}) /\ UNCHANGED appending
          ELSE /\ shared' = FALSE
               /\ appending' = IF previous = <<objects>> THEN appending ELSE appending + 1
               /\ UNCHANGED <<previous, published, unpublished>>

\* An event selectObjects with ids; they are requested from the worker even if there are none
SelectByIds(objects) ==
  /\ Len(selects) < MaxSelects
  /\ selects' = Append(selects, [status |-> "asked", objects |-> objects, found |-> {},
                                  hasItems |-> objects # {}])
  /\ UNCHANGED <<existing, kept, selectedObjects, previous, shared, published, appending, fromWorker,
                 faults, unpublished, outdated>>

\* The worker looks them up in its cache, which may have what is deleted by now
LookUp(i) ==
  /\ selects[i].status = "asked"
  /\ \E found \in SUBSET (selects[i].objects \cap (kept \cup outdated)) :
       selects' = [selects EXCEPT ![i].status = "lookedUp", ![i].found = found]
  /\ UNCHANGED <<existing, kept, selectedObjects, previous, shared, published, appending, fromWorker,
                 faults, unpublished, outdated>>

\* The others are read at the server, which leaves out those that are gone
Read(i) ==
  /\ selects[i].status = "lookedUp"
  /\ selects' = [selects EXCEPT ![i].status = "read",
                                ![i].objects = selects[i].found \cup (@ \cap existing),
                                ![i].found = {}]
  /\ UNCHANGED <<existing, kept, selectedObjects, previous, shared, published, appending, fromWorker,
                 faults, unpublished, outdated>>

\* The worker answers, and has what it read in its cache; answers may overtake each other, and the
\* word of what was deleted meanwhile
SelectionAnswered(i) ==
  /\ selects[i].status = "read"
  /\ selects' = [selects EXCEPT ![i].status = "answered"]
  /\ fromWorker' = Append(fromWorker, [answer |-> i, deleted |-> {}])
  /\ outdated' = outdated \cup (selects[i].objects \ kept)
  /\ UNCHANGED <<existing, kept, selectedObjects, previous, shared, published, appending, faults, unpublished>>

\* A request fails, or what the history needs cannot be loaded: nothing more happens
RequestFails(i) ==
  /\ Fault
  /\ selects[i].status = "lookedUp"
  /\ selects' = [selects EXCEPT ![i].status = "failed"]
  /\ UNCHANGED <<existing, kept, selectedObjects, previous, shared, published, appending, fromWorker,
                 unpublished, outdated>>

AppendFails ==
  /\ Fault
  /\ appending > 0 /\ appending' = appending - 1
  /\ unpublished' = TRUE
  /\ UNCHANGED <<existing, kept, selectedObjects, previous, shared, published, selects, fromWorker, outdated>>

\* appendToStack comes back
Appended ==
  /\ appending > 0 /\ appending' = appending - 1
  /\ PublishSelection(selectedObjects)
  /\ UNCHANGED <<existing, kept, selectedObjects, selects, fromWorker, faults, outdated>>

\* Somebody deletes an object
Delete(x) ==
  /\ Fault
  /\ x \in existing /\ existing' = existing \ {x}
  /\ UNCHANGED <<kept, selectedObjects, previous, shared, published, selects, appending, fromWorker,
                 unpublished, outdated>>

\* The worker hears of it, asks the server what is left, takes the object from its cache, and tells
\* the page
TellDeleted(x) ==
  /\ x \in kept \ existing /\ kept' = kept \ {x}
  /\ fromWorker' = Append(fromWorker, [answer |-> 0, deleted |-> {x}])
  /\ UNCHANGED <<existing, selectedObjects, previous, shared, published, selects, appending, faults,
                 unpublished, outdated>>

\* The answer to another request of the worker's, read before the object was deleted, puts it into
\* the cache again
CachedAgain(x) ==
  /\ Fault
  /\ x \notin kept /\ outdated' = outdated \cup {x}
  /\ UNCHANGED <<existing, kept, selectedObjects, previous, shared, published, selects, appending,
                 fromWorker, unpublished>>

\* edgesDeleted: the last edge is deselected, others go from the selection without being published;
\* what was published last is the same object, and loses them too
EdgeDeleted(e) ==
  IF e \notin selectedObjects
  THEN UNCHANGED <<selectedObjects, previous, shared, published, appending, unpublished>>
  ELSE IF selectedObjects = {e} THEN Resolved({}, FALSE)
  ELSE /\ selectedObjects' = selectedObjects \ {e}
       /\ previous' = IF shared THEN <<selectedObjects \ {e}>> ELSE previous
       /\ unpublished' = TRUE
       /\ UNCHANGED <<shared, published, appending>>

\* verticesDeleted: if vertices are selected, those that are left are selected
VertexDeleted(v) ==
  IF selectedObjects \cap SelectableVertices = {}
  THEN UNCHANGED <<selectedObjects, previous, shared, published, appending, unpublished>>
  ELSE Resolved(selectedObjects \ {v}, selectedObjects \ {v} # {})

SelectionMessage ==
  /\ fromWorker # <<>> /\ fromWorker' = Tail(fromWorker)
  /\ LET m == Head(fromWorker)
     IN  \/ m.answer > 0 /\ Resolved(selects[m.answer].objects, selects[m.answer].hasItems)
         \/ \E e \in m.deleted \cap SelectableEdges : EdgeDeleted(e)
         \/ \E v \in m.deleted \cap SelectableVertices : VertexDeleted(v)
  /\ UNCHANGED <<existing, kept, selects, faults, outdated>>

SelectionNext ==
  \/ \E objects \in Selections : SelectByIds(objects)
  \/ \E i \in DOMAIN selects : LookUp(i) \/ Read(i) \/ SelectionAnswered(i) \/ RequestFails(i)
  \/ Appended
  \/ AppendFails
  \/ \E x \in Objects : Delete(x) \/ TellDeleted(x) \/ CachedAgain(x)
  \/ SelectionMessage
-----------------------------------------------------------------------------
(***************************************************************************)
(* What the page publishes as selected is what it selected last, when      *)
(* no publication waits, however selections overtake each other: the one   *)
(* that comes back publishes the selection of the moment.  Until the next  *)
(* publication it is not if one failed, or one of several edges went.      *)
(***************************************************************************)
PublishedIsSelected == appending = 0 => published = selectedObjects \/ unpublished

(***************************************************************************)
(* What the page was told to be deleted is not selected, except for        *)
(* objects that were read before that, from the cache or at the server,    *)
(* and came after it (verticesDeleted and edgesDeleted).                   *)
(***************************************************************************)
DeletedNotSelected ==
  fromWorker = <<>> => selectedObjects \subseteq kept \cup outdated

(***************************************************************************)
(* What the page says is selected is what is selected and still there,     *)
(* however selections, their publication and deletions overtake each       *)
(* other, with the exceptions above.                                       *)
(***************************************************************************)
SelectionIsTrue == PublishedIsSelected /\ DeletedNotSelected
=============================================================================
