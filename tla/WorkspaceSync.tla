----------------------------- MODULE WorkspaceSync -----------------------------
(***************************************************************************)
(* One tab of the browser and the workspaces it shows: withWorkspaces.js   *)
(* and undoManager.js on the page, services/workspace.js, store.js and the *)
(* handlers workspaceSwitch and websocketMessage in the data worker.       *)
(*                                                                         *)
(* A workspace maps vertices to positions; 0 says that a vertex is not in  *)
(* it.  The server is external (WorkspaceUpdate): it applies a change or   *)
(* refuses it, and tells every session of those who have access, except    *)
(* the session that made the change.                                       *)
(***************************************************************************)
EXTENDS Naturals, Sequences, FiniteSets

CONSTANTS
  Workspaces, Vertices, Positions,
  NoWorkspace,
  Home,            \* the workspace the tab shows first
  Stored,          \* what the server may have in the beginning
  MaxEvents,       \* bound on updates, undos, redos, switches, and what others do, together
  MaxFaults        \* bound on refusals, failed loads and failed fetches together

ASSUME ConstantsAssumption ==
  /\ NoWorkspace \notin Workspaces
  /\ Positions \subseteq Nat \ {0}
  /\ Home \in Workspaces
  /\ Stored \subseteq [Workspaces -> [Vertices -> Positions \cup {0}]]
  /\ MaxEvents \in Nat /\ MaxFaults \in Nat

Ids == 1 .. MaxEvents
Loads == 1 .. MaxEvents
Contents == [Vertices -> Positions \cup {0}]

VARIABLES
  server,          \* server[w]: the workspace as it is stored
  gone,            \* workspaces that were deleted, or taken from the user
  \* the page
  current,         \* visalloData.currentWorkspaceId
  shown,           \* lastReloadedState.workspace
  undos, redos,    \* the stacks of each workspace's undo manager
  buffers,         \* ids whose 250 ms timer runs
  triggered,       \* ids for which workspaceSaving was triggered
  subtitle,        \* of the overlay: "plain", "saving" or "saved"
  saves,           \* saves[i]: the i-th event updateWorkspace and the request it makes
  asked,           \* number of those events so far
  \* the worker
  publicApi,       \* values of currentWorkspaceId the page has posted; the first is in force
  store,           \* the workspaces in the store; those that are not are not in the domain
  pending,         \* changed workspaces that wait for their new vertices
  loads,           \* loads[l]: the l-th call of workspaceSwitch
  \* messages
  socket,          \* workspaceChange messages on their way to the worker
  toPage,          \* messages of the worker on their way to the page
  \* history
  events, faults,
  late,            \* ids for which workspaceSaving was triggered after their answer
  disturbed        \* workspaces with a change that met another one, or was lost

pageVars == <<current, shown, undos, redos, buffers, triggered, subtitle>>
requestVars == <<saves, asked>>
workerVars == <<publicApi, store, pending, loads>>
boundVars == <<events, faults>>
messageVars == <<socket, toPage>>
vars == <<server, gone, pageVars, requestVars, workerVars, messageVars, boundVars, late, disturbed>>

\* What a save asks for.  "invalid" is an entity update that names no vertex
Change(kind, v, p) == [kind |-> kind, vertex |-> v, position |-> p]
Changes == [kind : {"update"}, vertex : Vertices, position : Positions]
             \cup [kind : {"delete", "invalid"}, vertex : Vertices, position : {0}]
UserChanges == {c \in Changes : c.kind # "invalid"}

\* store.updateWorkspace on a copy; updateEntities and deleteEntities of the server
Applied(contents, c) ==
  IF c.kind = "invalid" THEN contents ELSE [contents EXCEPT ![c.vertex] = c.position]

\* mutant: only what was deleted is put back
InverseOfDeletes(c, vertices) ==
  IF c.kind = "delete" /\ vertices[c.vertex] # 0
  THEN Change("update", c.vertex, vertices[c.vertex]) ELSE Change("delete", c.vertex, 0)
\* inverse: what the change names is put back as the page has it, and is {} if the page has it not
InverseChange(c, vertices) ==
  IF vertices[c.vertex] = 0 THEN Change("invalid", c.vertex, 0)
  ELSE Change("update", c.vertex, vertices[c.vertex])

\* An entry of the undo manager's stacks; id is the event that performed the action (history)
Action(undo, redo, id) == [undo |-> undo, redo |-> redo, id |-> id]

\* posts: how far publicApi has to be read before the save can start.  before: what the server had
\* of the vertex when it applied the change, if nothing had disturbed it (history), else empty
Save(status, c, w, posts) ==
  [status |-> status, change |-> c, workspaceId |-> w, posts |-> posts, before |-> {}]
NoSave == Save("none", Change("delete", CHOOSE v \in Vertices : TRUE, 0), NoWorkspace, 0)

NoVertices == [v \in Vertices |-> 0]
NoLoad == [status |-> "none", workspaceId |-> NoWorkspace, vertices |-> NoVertices]

\* About(s, w): the places in the queue s with a workspace w
About(s, w) == {i \in DOMAIN s : s[i].workspaceId = w}
UnderWay(id, w) ==
  \/ saves[id].status = "asked"
  \/ saves[id].status \in {"sent", "applied", "refused", "orphan"} /\ saves[id].workspaceId = w
\* The number of things on their way that change w or tell of a change
Motion(w) ==
  Cardinality({i \in Ids : UnderWay(i, w)})
    + Cardinality({l \in Loads : loads[l].status \in {"asked", "got"} /\ loads[l].workspaceId = w})
    + Cardinality(About(socket, w)) + Cardinality(About(pending, w)) + Cardinality(About(toPage, w))

(***************************************************************************)
(* The history of disturbances, a conjunct of every action: w is disturbed *)
(* from the time on when a second thing is in motion for it, or one is     *)
(* lost, until the server's state of it is sent and nothing else moves.    *)
(***************************************************************************)
Disturbs(healed, lost) ==
  disturbed' = {w \in Workspaces : \/ Motion(w)' > 1
                                   \/ w \in (disturbed \ healed) \cup lost}

Init ==
  /\ server \in Stored
  /\ gone = {}
  /\ current = Home
  /\ shown = [workspaceId |-> current, vertices |-> server[current]]
  /\ undos = [w \in Workspaces |-> <<>>]
  /\ redos = [w \in Workspaces |-> <<>>]
  /\ buffers = {}
  /\ triggered = {}
  /\ subtitle = "plain"
  /\ saves = [i \in Ids |-> NoSave]
  /\ asked = 0
  /\ publicApi = <<current>>
  /\ store = [w \in {current} |-> server[w]]
  /\ pending = <<>>
  /\ loads = [l \in Loads |-> NoLoad]
  /\ socket = <<>>
  /\ toPage = <<>>
  /\ events = 0 /\ faults = 0
  /\ late = {}
  /\ disturbed = {}

Event == events < MaxEvents /\ events' = events + 1
Fault == faults < MaxFaults /\ faults' = faults + 1

-----------------------------------------------------------------------------
\* The page: saving, undoing, redoing, switching

\* onUpdateWorkspace starts its timer first, and asks for the save last
Ask(c, status) ==
  /\ Event
  /\ asked' = asked + 1
  /\ buffers' = buffers \cup {asked'}
  /\ saves' = [saves EXCEPT ![asked'] = Save(status, c, current, Len(publicApi))]

(***************************************************************************)
(* An update made by the user.  Its inverse is taken from what the page    *)
(* was last told, and kept on the stack of undos; the redos stay.          *)
(***************************************************************************)
UpdateWorkspace(c) ==
  /\ shown.workspaceId # NoWorkspace
  /\ Ask(c, "asked")
  /\ undos' = [undos EXCEPT ![shown.workspaceId] =
                 Append(@, Action(InverseChange(c, shown.vertices), c, asked'))]
  /\ UNCHANGED <<server, gone, current, shown, redos, triggered, subtitle, workerVars, messageVars, faults, late>>
  /\ Disturbs({}, {})

\* Between a switch and its load there are no vertices to invert: the handler throws
UpdateThrows(c) ==
  /\ shown.workspaceId = NoWorkspace
  /\ Ask(c, "threw")
  /\ UNCHANGED <<server, gone, current, shown, undos, redos, triggered, subtitle, workerVars,
                 messageVars, faults, late>>
  /\ Disturbs({}, {})

\* _performWithStacks: the last action is performed and goes to the other stack, with its undo
\* and redo swapped, so that what is called next is named undo again
Perform(stack1, stack2, stack1Next, stack2Next) ==
  /\ stack1[current] # <<>>
  /\ LET action == stack1[current][Len(stack1[current])]
     IN  /\ Ask(action.undo, "asked")
         /\ stack2Next = [stack2 EXCEPT ![current] =
                            Append(@, Action(action.redo, action.undo, action.id))]
  /\ stack1Next = [stack1 EXCEPT ![current] = SubSeq(@, 1, Len(@) - 1)]
  /\ UNCHANGED <<server, gone, current, shown, triggered, subtitle, workerVars, messageVars, faults, late>>
  /\ Disturbs({}, {})
PerformUndo == Perform(undos, redos, undos', redos')
PerformRedo == Perform(redos, undos, redos', undos')

\* 250 ms after the event, and workspaceSaving, whatever became of the save
BufferFires(id) ==
  /\ id \in buffers /\ \A i \in buffers : id <= i
  /\ buffers' = buffers \ {id}
  /\ triggered' = triggered \cup {id}
  /\ subtitle' = "saving"
  /\ late' = IF saves[id].status = "told" THEN late \cup {id} ELSE late
  /\ UNCHANGED <<server, gone, current, shown, undos, redos, requestVars, workerVars, messageVars,
                 boundVars, disturbed>>

\* A call of workspaceSwitch in the worker
Load(w) ==
  /\ Event
  /\ LET l == CHOOSE k \in Loads : loads[k].status = "none"
     IN  loads' = [loads EXCEPT ![l].status = "asked", ![l].workspaceId = w]

\* onSwitchWorkspace
SwitchWorkspace(w) ==
  /\ w \notin gone
  /\ Load(w)
  /\ shown' = [workspaceId |-> NoWorkspace, vertices |-> NoVertices]
  /\ current' = w
  /\ publicApi' = Append(publicApi, w)
  /\ UNCHANGED <<server, gone, undos, redos, buffers, triggered, subtitle, requestVars, store,
                 pending, messageVars, faults, late>>
  /\ Disturbs({}, {})

-----------------------------------------------------------------------------
\* The worker

\* handlers/publicApi.  A save asked for earlier may find the new value; a save asked for later
\* never finds the old one, as it takes more turns of the event loop to get to its service.
SetPublicApi ==
  /\ Len(publicApi) > 1
  /\ publicApi' = Tail(publicApi)
  /\ saves' = [i \in Ids |-> [saves[i] EXCEPT !.posts = IF @ > 1 THEN @ - 1 ELSE @]]
  /\ UNCHANGED <<server, gone, pageVars, asked, store, pending, loads, messageVars, boundVars, late,
                 disturbed>>

Message(type, w, vertices, id, saved, success) ==
  [type |-> type, workspaceId |-> w, vertices |-> vertices, id |-> id, saved |-> saved,
   success |-> success]
Completed(id, saved, success) ==
  Message("dataRequestCompleted", NoWorkspace, NoVertices, id, saved, success)
Told(type, w, vertices) == Message(type, w, vertices, 0, FALSE, TRUE)

\* abortPrevious: nobody hears of what is aborted, but it may still reach the server
Aborted(s) ==
  [i \in Ids |-> CASE s[i].status = "sent" -> [s[i] EXCEPT !.status = "orphan"]
                   [] s[i].status \in {"applied", "refused"} -> [s[i] EXCEPT !.status = "aborted"]
                   [] OTHER -> s[i]]

\* workspaceShouldSave: a deletion always, an update if it changes what the store has
ShouldSave(w, c) == c.kind = "update" => store[w][c.vertex] # c.position

(***************************************************************************)
(* save, called with the changes alone: it is for the workspace that is    *)
(* current by now.  An update of a workspace that is not in the store      *)
(* throws; if nothing is to be saved it is answered, else it is sent.      *)
(***************************************************************************)
StartSave(id) ==
  /\ saves[id].status = "asked" /\ saves[id].posts = 1
  /\ \A i \in Ids : i < id => saves[i].status # "asked"
  /\ LET w == Head(publicApi)
         c == saves[id].change
         To(status) == saves' = [Aborted(saves) EXCEPT ![id].status = status, ![id].workspaceId = w]
     IN  \/ /\ w \notin DOMAIN store /\ c.kind = "update"
            /\ To("threw")
            /\ UNCHANGED toPage
         \/ /\ w \in DOMAIN store /\ ~ShouldSave(w, c)
            /\ To("answered")
            /\ toPage' = Append(toPage, Completed(id, FALSE, TRUE))
         \/ /\ IF w \in DOMAIN store THEN ShouldSave(w, c) ELSE c.kind # "update"
            /\ To("sent")
            /\ UNCHANGED toPage
  /\ UNCHANGED <<server, gone, pageVars, asked, workerVars, socket, boundVars, late>>
  /\ Disturbs({}, {saves[i].workspaceId : i \in {j \in Ids : saves[j].status = "applied"}})

\* setWorkspace
SetWorkspace(w, vertices) ==
  store' = [u \in DOMAIN store \cup {w} |-> IF u = w THEN vertices ELSE store[u]]

\* workspaceWasChangedRemotely: without a difference to the store nothing happens
WasChangedRemotely(w, vertices) ==
  pending' = IF w \in DOMAIN store /\ store[w] = vertices THEN pending
             ELSE Append(pending, [workspaceId |-> w, vertices |-> vertices])

\* The XHR of a save comes back, and the store's copy is changed alike
Answer(id) ==
  /\ saves[id].status \in {"applied", "refused"}
  /\ saves' = [saves EXCEPT ![id].status = "answered"]
  /\ LET w == saves[id].workspaceId
         updates == saves[id].status = "applied" /\ w \in DOMAIN store
     IN  /\ IF updates THEN WasChangedRemotely(w, Applied(store[w], saves[id].change))
            ELSE UNCHANGED pending
         /\ toPage' = Append(toPage, Completed(id, updates, updates))
  /\ UNCHANGED <<server, gone, pageVars, asked, publicApi, store, loads, socket, boundVars, late>>
  /\ Disturbs({}, {})

\* The handler of workspaceChange
WorkspaceChange ==
  /\ socket # <<>>
  /\ socket' = Tail(socket)
  /\ WasChangedRemotely(Head(socket).workspaceId, Head(socket).vertices)
  /\ UNCHANGED <<server, gone, pageVars, requestVars, publicApi, store, loads, toPage, boundVars, late>>
  /\ Disturbs({}, {})

AddedIds(p) ==
  {v \in Vertices : p.vertices[v] # 0 /\ (p.workspaceId \in DOMAIN store => store[p.workspaceId][v] = 0)}
\* Those that add vertices may have to wait for an XHR, and others pass them
MayBeNext(i) == AddedIds(pending[i]) # {} \/ \A j \in 1 .. i - 1 : AddedIds(pending[j]) # {}
RemoveAt(s, i) == SubSeq(s, 1, i - 1) \o SubSeq(s, i + 1, Len(s))

\* mutant: the page is told of added vertices only
UpdatedIfAdded(i) ==
  /\ i \in DOMAIN pending /\ MayBeNext(i)
  /\ pending' = RemoveAt(pending, i)
  /\ SetWorkspace(pending[i].workspaceId, pending[i].vertices)
  /\ toPage' = IF AddedIds(pending[i]) = {} THEN toPage
               ELSE Append(toPage, Told("workspaceUpdated", pending[i].workspaceId, pending[i].vertices))
  /\ UNCHANGED <<server, gone, pageVars, requestVars, publicApi, loads, socket, boundVars, late>>
  /\ Disturbs({}, {})

\* The new vertices are there: setWorkspace, and the page is told
Updated(i) ==
  /\ i \in DOMAIN pending /\ MayBeNext(i)
  /\ pending' = RemoveAt(pending, i)
  /\ SetWorkspace(pending[i].workspaceId, pending[i].vertices)
  /\ toPage' = Append(toPage, Told("workspaceUpdated", pending[i].workspaceId, pending[i].vertices))
  /\ UNCHANGED <<server, gone, pageVars, requestVars, publicApi, loads, socket, boundVars, late>>
  /\ Disturbs({}, {})

\* The new vertices cannot be had: nothing comes of the change
UpdateDropped(i) ==
  /\ Fault
  /\ i \in DOMAIN pending /\ AddedIds(pending[i]) # {}
  /\ pending' = RemoveAt(pending, i)
  /\ UNCHANGED <<server, gone, pageVars, requestVars, publicApi, store, loads, messageVars, events, late>>
  /\ Disturbs({}, {pending[i].workspaceId})

(***************************************************************************)
(* workspaceSwitch.  get puts the workspace into the store at once; edges  *)
(* and vertices are fetched next, and then what get returned is set again. *)
(* A workspace that cannot be had is replaced by one of the user's own.    *)
(***************************************************************************)
GetWorkspace(l) ==
  /\ loads[l].status = "asked"
  /\ \E w \in Workspaces \ gone :
       /\ loads[l].workspaceId \notin gone => w = loads[l].workspaceId
       /\ loads' = [loads EXCEPT ![l] = [status |-> "got", workspaceId |-> w, vertices |-> server[w]]]
       /\ SetWorkspace(w, server[w])
       /\ UNCHANGED <<server, gone, pageVars, requestVars, publicApi, pending, messageVars, boundVars, late>>
       /\ Disturbs({w}, {})

\* mutant: what is loaded is dropped unless it is what the page asked for last
WorkspaceGotIfCurrent(l) ==
  /\ loads[l].status = "got"
  /\ loads' = [loads EXCEPT ![l] = [NoLoad EXCEPT !.status = "done"]]
  /\ SetWorkspace(loads[l].workspaceId, loads[l].vertices)
  /\ toPage' = IF Head(publicApi) # loads[l].workspaceId THEN toPage
               ELSE Append(toPage, Told("workspaceLoaded", loads[l].workspaceId, loads[l].vertices))
  /\ UNCHANGED <<server, gone, pageVars, requestVars, publicApi, pending, socket, boundVars, late>>
  /\ Disturbs({}, {})

\* Edges and vertices are there
WorkspaceGot(l) ==
  /\ loads[l].status = "got"
  /\ loads' = [loads EXCEPT ![l] = [NoLoad EXCEPT !.status = "done"]]
  /\ SetWorkspace(loads[l].workspaceId, loads[l].vertices)
  /\ toPage' = Append(toPage, Told("workspaceLoaded", loads[l].workspaceId, loads[l].vertices))
  /\ UNCHANGED <<server, gone, pageVars, requestVars, publicApi, pending, socket, boundVars, late>>
  /\ Disturbs({}, {})

\* get fails otherwise, or edges or vertices do: the promise is rejected, and that is all
LoadFails(l) ==
  /\ Fault
  /\ loads[l].status \in {"asked", "got"}
  /\ loads' = [loads EXCEPT ![l].status = IF @ = "got" THEN "half" ELSE "failed"]
  /\ UNCHANGED <<server, gone, pageVars, requestVars, publicApi, store, pending, messageVars, events, late>>
  /\ Disturbs({}, {loads[l].workspaceId})

-----------------------------------------------------------------------------
\* The page: what the worker tells it

\* The promise of a save is settled; a rejected one leaves its timer running.  While the page has
\* no workspace the overlay's onWorkspaceSaved throws before it sets the subtitle.
SaveCompleted(m) ==
  /\ saves' = [saves EXCEPT ![m.id].status = "told"]
  /\ buffers' = IF m.success THEN buffers \ {m.id} ELSE buffers
  /\ subtitle' = IF (m.saved \/ m.id \in triggered) /\ shown.workspaceId # NoWorkspace
                 THEN "saved" ELSE subtitle
  /\ UNCHANGED <<current, shown, publicApi>>

\* workspaceUpdated: lastReloadedState follows if it is about the same workspace
WorkspaceUpdated(m) ==
  /\ shown' = IF shown.workspaceId = m.workspaceId THEN [shown EXCEPT !.vertices = m.vertices] ELSE shown
  /\ subtitle' = IF current = m.workspaceId THEN "plain" ELSE subtitle
  /\ UNCHANGED <<saves, buffers, current, publicApi>>

\* workspaceLoaded
WorkspaceLoaded(m) ==
  /\ shown' = [workspaceId |-> m.workspaceId, vertices |-> m.vertices]
  /\ current' = m.workspaceId
  /\ publicApi' = Append(publicApi, m.workspaceId)
  /\ subtitle' = "plain"
  /\ UNCHANGED <<saves, buffers>>

ProcessWorkerMessage ==
  /\ toPage # <<>>
  /\ toPage' = Tail(toPage)
  /\ LET m == Head(toPage)
     IN  \/ m.type = "dataRequestCompleted" /\ SaveCompleted(m)
         \/ m.type = "workspaceUpdated" /\ WorkspaceUpdated(m)
         \/ m.type = "workspaceLoaded" /\ WorkspaceLoaded(m)
  /\ UNCHANGED <<server, gone, undos, redos, triggered, asked, store, pending, loads, socket,
                 boundVars, late>>
  /\ Disturbs({}, {})

-----------------------------------------------------------------------------
\* The server, and others

\* The server applies the change, or fails; a change of nothing known always fails
Serve(id) ==
  /\ saves[id].status \in {"sent", "orphan"}
  /\ LET w == saves[id].workspaceId
         c == saves[id].change
         orphan == saves[id].status = "orphan"
     IN  \/ /\ c.kind # "invalid" /\ w \notin gone
            /\ server' = [server EXCEPT ![w] = Applied(@, c)]
            /\ saves' = [saves EXCEPT
                 ![id].status = IF orphan THEN "aborted" ELSE "applied",
                 ![id].before = IF w \in disturbed THEN @ ELSE {server[w][c.vertex]}]
            /\ UNCHANGED <<gone, pageVars, asked, workerVars, messageVars, boundVars, late>>
            /\ Disturbs({}, IF orphan THEN {w} ELSE {})
         \/ /\ IF c.kind = "invalid" \/ w \in gone THEN UNCHANGED faults ELSE Fault
            /\ saves' = [saves EXCEPT ![id].status = IF orphan THEN "aborted" ELSE "refused"]
            /\ UNCHANGED <<server, gone, pageVars, asked, workerVars, messageVars, events, late>>
            /\ Disturbs({}, {})

\* Another user changes a workspace; or another tab of this session does, which this one is not told
RemoteChange(w, c) ==
  /\ Event
  /\ w \notin gone /\ server[w][c.vertex] # c.position
  /\ server' = [server EXCEPT ![w] = Applied(@, c)]
  /\ UNCHANGED <<gone, pageVars, requestVars, workerVars, toPage, faults, late>>
  /\ \/ /\ socket' = Append(socket, [workspaceId |-> w, vertices |-> server'[w]])
        /\ Disturbs({w}, {})
     \/ /\ socket' = socket
        /\ Disturbs({}, {w})

\* workspaceDelete: the store forgets the workspace, and the tab loads another one, even if it
\* does not show the one that was deleted
WorkspaceDelete(w) ==
  /\ w \notin gone /\ gone \cup {w} # Workspaces
  /\ gone' = gone \cup {w}
  /\ store' = [u \in DOMAIN store \ {w} |-> store[u]]
  /\ Load(w)
  /\ UNCHANGED <<server, pageVars, requestVars, publicApi, pending, messageVars, faults, late>>
  /\ Disturbs({}, {})

-----------------------------------------------------------------------------
StartSaveNext == \E id \in Ids : StartSave(id)
AnswerNext == \E id \in Ids : Answer(id)
ServeNext == \E id \in Ids : Serve(id)
PendingNext == \E i \in DOMAIN pending : Updated(i) \/ UpdateDropped(i)
LoadNext == \E l \in Loads : GetWorkspace(l) \/ WorkspaceGot(l) \/ LoadFails(l)

Next ==
  \/ \E c \in UserChanges : UpdateWorkspace(c) \/ UpdateThrows(c)
  \/ PerformUndo
  \/ PerformRedo
  \/ \E id \in Ids : BufferFires(id)
  \/ \E w \in Workspaces : SwitchWorkspace(w) \/ WorkspaceDelete(w)
  \/ \E w \in Workspaces, c \in UserChanges : RemoteChange(w, c)
  \/ SetPublicApi
  \/ StartSaveNext
  \/ ServeNext
  \/ AnswerNext
  \/ WorkspaceChange
  \/ PendingNext
  \/ LoadNext
  \/ ProcessWorkerMessage

Spec == Init /\ [][Next]_vars

-----------------------------------------------------------------------------
(***************************************************************************)
(* Types of the page's and the worker's state.                             *)
(***************************************************************************)
TypeOK ==
  /\ server \in [Workspaces -> Contents]
  /\ gone \subseteq Workspaces
  /\ current \in Workspaces
  /\ shown \in [workspaceId : Workspaces \cup {NoWorkspace}, vertices : Contents]
  /\ \A w \in Workspaces : \A s \in {undos[w], redos[w]} : \A i \in DOMAIN s :
       s[i].undo \in Changes /\ s[i].redo \in Changes /\ s[i].id \in Ids
  /\ buffers \subseteq Ids /\ triggered \subseteq Ids /\ late \subseteq triggered
  /\ subtitle \in {"plain", "saving", "saved"}
  /\ \A i \in Ids :
       /\ saves[i].status \in {"none", "asked", "threw", "sent", "applied", "refused", "orphan",
                               "aborted", "answered", "told"}
       /\ i <= asked => saves[i].change \in Changes
       /\ saves[i].status = "none" <=> i > asked
  /\ publicApi \in Seq(Workspaces) \ {<<>>}
  /\ store \in UNION {[s -> Contents] : s \in SUBSET Workspaces}
  /\ disturbed \subseteq Workspaces

(***************************************************************************)
(* Page and worker speak of the same workspace: the page shows the one it  *)
(* calls current, or none, and the last the worker hears of is that one,   *)
(* however loads overtake each other (setPublicApi in onSwitchWorkspace    *)
(* and workspaceLoaded).                                                   *)
(***************************************************************************)
PageAndWorkerAgree ==
  /\ shown.workspaceId \in {current, NoWorkspace}
  /\ publicApi[Len(publicApi)] = current

\* A load got the workspace, and failed after that
Halved(w) == \E l \in Loads : loads[l].status = "half" /\ loads[l].workspaceId = w

(***************************************************************************)
(* The page has what the store has once it has read its messages, however  *)
(* changes raced each other, except for a workspace that was got and could *)
(* not be loaded (setWorkspace and the dispatch that goes with it).        *)
(***************************************************************************)
PageFollowsStore ==
  LET w == shown.workspaceId
  IN  (/\ w \in DOMAIN store /\ About(toPage, w) = {}
       /\ ~Halved(w) /\ \A l \in Loads : loads[l].workspaceId = w => loads[l].status # "got")
      => shown.vertices = store[w]

(***************************************************************************)
(* The store ends like the server when changes come one at a time: own     *)
(* saves are repeated on the store's copy, those of others come as a whole *)
(* (store.js).  It need not when two are in motion together, when a save   *)
(* is aborted after the server took it, or in the tabs of the session that *)
(* made the change; disturbed says when.                                   *)
(***************************************************************************)
StoreFollowsServer ==
  \A w \in DOMAIN store \ (disturbed \cup gone) : Motion(w) = 0 => store[w] = server[w]

(***************************************************************************)
(* Undo puts back what the server had: the inverse of an action, taken from *)
(* what the page knew, is what the action replaced, also after any number  *)
(* of undos and redos (inverse and the undo manager), provided that the    *)
(* change went to the workspace it was made in, nothing disturbed it, and  *)
(* no load got the workspace without the page being told: the page's state *)
(* may be older than the store's from then on.  The inverse of an addition *)
(* is a change of nothing.                                                 *)
(***************************************************************************)
UndoPutsBack ==
  \A w \in {u \in Workspaces : ~Halved(u)} : \A i \in DOMAIN undos[w] :
    LET e == undos[w][i]
        s == saves[e.id]
    IN  s.before # {} /\ s.workspaceId = w =>
          /\ e.redo = s.change
          /\ e.undo = IF s.before = {0} THEN Change("invalid", s.change.vertex, 0)
                      ELSE Change("update", s.change.vertex, CHOOSE p \in s.before : TRUE)

\* Nothing is on its way any more, and no timer runs
AtRest ==
  /\ \A i \in Ids : saves[i].status \notin {"asked", "sent", "applied", "refused", "orphan"}
  /\ \A l \in Loads : loads[l].status \notin {"asked", "got"}
  /\ socket = <<>> /\ pending = <<>> /\ toPage = <<>> /\ Len(publicApi) = 1
  /\ buffers = {}

(***************************************************************************)
(* "Saving" does not stay on the overlay: what triggered it is answered,   *)
(* except for a save that threw, was aborted by a later one, or failed     *)
(* before its 250 ms were over, which leaves its timer running             *)
(* (onUpdateWorkspace).  It may also stay while the page has no workspace: *)
(* a save answered between a switch and its load does not end it, the load *)
(* does, unless it fails (overlay.js, onWorkspaceSaved).                   *)
(***************************************************************************)
SavingEnds ==
  AtRest /\ subtitle = "saving" =>
    \/ shown.workspaceId = NoWorkspace
    \/ \E i \in triggered : i \in late \/ saves[i].status \in {"threw", "aborted"}

(***************************************************************************)
(* After a switch the page shows some workspace in the end, unless a load  *)
(* failed, of which the page is not told (workspaceSwitch); and it is one  *)
(* the user can have.                                                      *)
(***************************************************************************)
SwitchEnds ==
  AtRest => \/ shown.workspaceId # NoWorkspace
            \/ \E l \in Loads : loads[l].status \in {"failed", "half"}

(***************************************************************************)
(* Page, worker and server agree once nothing is in motion between them:   *)
(* on the workspace, and on what is in it.                                 *)
(***************************************************************************)
TabFollowsServer == TypeOK /\ PageAndWorkerAgree /\ PageFollowsStore /\ StoreFollowsServer

(***************************************************************************)
(* Nothing is waited for that does not come: when all is at rest the page  *)
(* neither shows that it saves nor lacks a workspace, but for the failures *)
(* the page is not told of.                                                *)
(***************************************************************************)
WaitingEnds == SavingEnds /\ SwitchEnds
=============================================================================
