------------------------------- MODULE DiffPanel -------------------------------
(***************************************************************************)
(* The panel of unpublished changes, workspaces/diff/diff.js.  A row stands *)
(* for a vertex or an edge that was created or deleted in the workspace, or *)
(* for a property that was changed.  A row is marked to be published or     *)
(* undone, and a mark drags others along by events that are handled at      *)
(* once.  The server is external: it gives the panel other differences.  The *)
(* buttons that apply all marks, and the requests they make, are left out:  *)
(* they read the marks and change none.                                     *)
(***************************************************************************)
EXTENDS Naturals, Sequences, FiniteSets, SequencesExt

CONSTANTS
  VertexRows, EdgeRows, PropertyRows,
  OutVertex, InVertex,   \* of an edge
  ElementOf,             \* of a property
  RowOrder,              \* the rows from top to bottom
  MaxRows,               \* bound on the rows that are there at a time
  MaxChanges             \* bound on renderings after the first

Rows == VertexRows \cup EdgeRows \cup PropertyRows

ASSUME DiffPanelAssumption ==
  /\ VertexRows \cap EdgeRows = {} /\ PropertyRows \cap (VertexRows \cup EdgeRows) = {}
  /\ OutVertex \in [EdgeRows -> VertexRows] /\ InVertex \in [EdgeRows -> VertexRows]
  /\ ElementOf \in [PropertyRows -> VertexRows \cup EdgeRows]
  /\ RowOrder \in Seq(Rows) /\ Range(RowOrder) = Rows
  /\ MaxRows \in Nat /\ MaxChanges \in Nat

VARIABLES
  diffs,           \* diffs[d]: what the row d is about; "none" if there is no such row
  marks,           \* the class mark-publish or mark-undo of a row, and of its buttons
  selectAll,       \* the button of all rows that is lit
  renderings,
  \* history
  cleared,         \* rows whose mark to be published went when an undo was taken back
  released         \* rows whose mark to be undone went when a publication was taken back, or new

diffVars == <<diffs, marks, selectAll, renderings, cleared, released>>

Elements(d) ==
  IF d \in PropertyRows THEN {ElementOf[d]}
  ELSE IF d \in EdgeRows THEN {OutVertex[d], InVertex[d]} ELSE {}

\* What the server can report: a new vertex has new edges only, a deleted one deleted ones
Reports ==
  {r \in [Rows -> {"none", "created", "deleted"}] :
     /\ Cardinality({d \in Rows : r[d] # "none"}) <= MaxRows
     /\ \A p \in PropertyRows : r[p] # "deleted"
     /\ \A e \in EdgeRows : \A v \in Elements(e) : r[v] # "none" => r[e] \in {r[v], "none"}}

\* What the server can report next: what there was before, changed or deleted, is not new now
Follows(r) ==
  \A d \in Rows : r[d] = "created" /\ diffs[d] # "created" =>
    diffs[d] = "none" /\ \A x \in Rows : d \in Elements(x) => r[x] = "none" \/ diffs[x] = "none"

Shown == {d \in Rows : diffs[d] # "none"}

\* diffDependencies
Dependents(d) == {x \in Shown : d \in Elements(x)}
Below(d) == Dependents(d) \cup UNION {Dependents(x) : x \in Dependents(d)}
\* diffsForElementId of what d is about, and of that
Above(d) ==
  LET up == Elements(d) \cap Shown
  IN  up \cup UNION {Elements(x) \cap Shown : x \in up}
\* The new elements without which d cannot be published
Needs(d) ==
  LET new(x) == {y \in Elements(x) : diffs[y] = "created" /\ diffs[x] # "deleted"}
  IN  new(d) \cup UNION {new(x) : x \in new(d)}

DeletedEdges(d) == {e \in Dependents(d) : e \in EdgeRows /\ diffs[e] = "deleted"}
DeletedVertex(d) == d \in VertexRows /\ diffs[d] = "deleted"

Remark(m, on, mark, off) ==
  [d \in Rows |-> IF d \in on THEN mark ELSE IF d \in off THEN "none" ELSE m[d]]

\* mutant: an edge does not take its vertices along
PublishEdgeAlone(m, d, state) ==
  IF ~state THEN Remark(m, {}, "publish", {d} \cup Below(d))
  ELSE LET alone == IF DeletedVertex(d) THEN Below(d) \ DeletedEdges(d) ELSE {}
       IN  Remark(m, {d} \cup (IF d \in EdgeRows THEN {} ELSE Needs(d))
                      \cup (IF DeletedVertex(d) THEN DeletedEdges(d) ELSE {}), "publish", alone)

(***************************************************************************)
(* onMarkPublish: what is new takes the elements it needs along; a deleted *)
(* vertex takes its deleted edges along and drops its properties; a mark   *)
(* that is taken back goes from all that depends on the element as well.   *)
(***************************************************************************)
Publish(m, d, state) ==
  IF ~state THEN Remark(m, {}, "publish", {d} \cup Below(d))
  ELSE IF ~DeletedVertex(d) THEN Remark(m, {d} \cup Needs(d), "publish", {})
  ELSE LET others == Dependents(d) \ DeletedEdges(d)
       IN  Remark(m, {d} \cup DeletedEdges(d), "publish",
                  others \cup UNION {Dependents(x) : x \in others})

(***************************************************************************)
(* onMarkUndo: a new element takes all that depends on it along, a deleted *)
(* edge its deleted vertices; taking an undo back takes it back from the   *)
(* elements above, whatever mark they have.                                *)
(***************************************************************************)
Undo(m, d, state) ==
  IF ~state THEN Remark(m, {}, "undo", {d} \cup Above(d))
  ELSE IF d \in PropertyRows THEN Remark(m, {d}, "undo", {})
  ELSE IF diffs[d] = "created" THEN Remark(m, {d} \cup Below(d), "undo", {})
  ELSE Remark(m, {d} \cup {v \in Elements(d) : diffs[v] = "deleted"}, "undo", {})

Mark(action, m, d, state) == IF action = "publish" THEN Publish(m, d, state) ELSE Undo(m, d, state)

MarkedIn(m, action) == {d \in Rows : m[d] = action}

DiffInit ==
  /\ diffs \in Reports
  /\ marks = [d \in Rows |-> "none"]
  /\ selectAll = "none" /\ renderings = 0
  /\ cleared = {} /\ released = {}

-----------------------------------------------------------------------------
\* Rows are m after buttons of that action were clicked
Marked(action, m) ==
  /\ marks' = m
  /\ LET lost(mark) == {d \in Rows : marks[d] = mark /\ m[d] = "none"}
     IN  /\ cleared' = (cleared \cup IF action = "undo" THEN lost("publish") ELSE {})
                         \ MarkedIn(m, "publish")
         /\ released' = (released \cup IF action = "publish" THEN lost("undo") ELSE {})
                          \ MarkedIn(m, "undo")
  /\ UNCHANGED <<diffs, renderings>>

\* onButtonClick in a row: the button is lit if the row has its mark
ClickRow(action, d) ==
  /\ d \in Shown
  /\ Marked(action, Mark(action, marks, d, marks[d] # action))
  /\ selectAll' = "none"

\* The button of d is clicked if the row has, or has not, the mark by then
Click(action, on, m, d) ==
  IF d \in Shown /\ (m[d] # action) = on THEN Mark(action, m, d, on) ELSE m

\* The marks after the first i rows were seen to
Clicked(action, on) ==
  LET after[i \in 0 .. Len(RowOrder)] ==
        IF i = 0 THEN marks ELSE Click(action, on, after[i - 1], RowOrder[i])
  IN  after

\* onSelectAll clicks the buttons of all rows, from top to bottom
SelectAll(action) ==
  /\ Shown # {}
  /\ LET on == selectAll # action
     IN  /\ Marked(action, Clicked(action, on)[Len(RowOrder)])
         /\ selectAll' = IF on THEN action ELSE "none"

(***************************************************************************)
(* diffsChanged.  The rows are rendered anew, and those that were there    *)
(* before get their marks back.                                            *)
(***************************************************************************)
DiffsChanged(r) ==
  /\ renderings < MaxChanges /\ renderings' = renderings + 1
  /\ r # diffs /\ Follows(r)
  /\ diffs' = r
  /\ marks' = [d \in Rows |-> IF r[d] = "none" THEN "none" ELSE marks[d]]
  /\ selectAll' = "none"
  /\ cleared' = {d \in cleared : r[d] # "none"}
  /\ released' = {d \in Rows : r[d] # "none" /\ (d \in released \/ diffs[d] = "none")}

DiffNext ==
  \/ \E action \in {"publish", "undo"} :
       \/ \E d \in Rows : ClickRow(action, d)
       \/ SelectAll(action)
  \/ \E r \in Reports : DiffsChanged(r)
-----------------------------------------------------------------------------
(***************************************************************************)
(* Types; a row that is not there has no mark.                             *)
(***************************************************************************)
DiffTypeOK ==
  /\ diffs \in Reports
  /\ marks \in [Rows -> {"none", "publish", "undo"}]
  /\ \A d \in Rows : diffs[d] = "none" => marks[d] = "none"
  /\ selectAll \in {"none", "publish", "undo"}
  /\ cleared \subseteq Shown /\ released \subseteq Shown

(***************************************************************************)
(* What is marked to be published comes with the new elements it needs: a  *)
(* property with its new vertex or edge, an edge with its new vertices,    *)
(* after any clicks and renderings (onMarkPublish).  The exception is an   *)
(* element whose mark went when an undo below it was taken back.           *)
(***************************************************************************)
PublishedWithElements ==
  \A d \in MarkedIn(marks, "publish") : \A x \in Needs(d) : marks[x] = "publish" \/ x \in cleared

(***************************************************************************)
(* A new element that is marked to be undone takes all that depends on it  *)
(* along (onMarkUndo), except for what came later, or lost its mark when a *)
(* publication of its other vertex was taken back.                         *)
(***************************************************************************)
UndoneWithDependents ==
  \A d \in MarkedIn(marks, "undo") :
    diffs[d] = "created" /\ d \notin PropertyRows =>
      \A x \in Below(d) : marks[x] = "undo" \/ x \in released

(***************************************************************************)
(* What is marked can be applied as it is: no row without its elements is  *)
(* published, none that depends on an undone one is left, and no row that  *)
(* is gone has a mark, after any clicks and renderings.                    *)
(***************************************************************************)
MarksAreWhole == DiffTypeOK /\ PublishedWithElements /\ UndoneWithDependents
=============================================================================
