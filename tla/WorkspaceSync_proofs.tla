-------------------------- MODULE WorkspaceSync_proofs --------------------------
(***************************************************************************)
(* Proofs about WorkspaceSync, for any workspaces, vertices, positions,    *)
(* events and faults: that page, worker and server agree, and what undo    *)
(* puts back.                                                              *)
(***************************************************************************)
EXTENDS WorkspaceSync, FiniteSetTheorems, SequenceTheorems, TLAPS

-----------------------------------------------------------------------------
(* The inductive invariant.                                                *)

SaveStatuses ==
  {"none", "asked", "threw", "sent", "applied", "refused", "orphan", "aborted", "answered", "told"}
SaveRecords ==
  [status : SaveStatuses, change : Changes \cup {NoSave.change}, workspaceId : Workspaces \cup {NoWorkspace},
   posts : Nat, before : SUBSET (Positions \cup {0})]
LoadRecords ==
  [status : {"none", "asked", "got", "done", "half", "failed"}, workspaceId : Workspaces \cup {NoWorkspace},
   vertices : Contents]
States == [workspaceId : Workspaces, vertices : Contents]
Messages ==
  [type : {"dataRequestCompleted"}, workspaceId : {NoWorkspace}, vertices : Contents, id : Ids, saved : BOOLEAN,
   success : BOOLEAN]
    \cup [type : {"workspaceUpdated", "workspaceLoaded"}, workspaceId : Workspaces, vertices : Contents, id : {0},
          saved : BOOLEAN, success : BOOLEAN]
Actions == [undo : Changes, redo : Changes, id : Ids]

Types ==
  /\ server \in [Workspaces -> Contents] /\ gone \subseteq Workspaces
  /\ current \in Workspaces
  /\ shown \in [workspaceId : Workspaces \cup {NoWorkspace}, vertices : Contents]
  /\ undos \in [Workspaces -> Seq(Actions)] /\ redos \in [Workspaces -> Seq(Actions)]
  /\ buffers \subseteq Ids /\ triggered \subseteq Ids /\ late \subseteq triggered
  /\ subtitle \in {"plain", "saving", "saved"}
  /\ saves \in [Ids -> SaveRecords] /\ asked \in Nat
  /\ publicApi \in Seq(Workspaces) \ {<<>>}
  /\ store \in UNION {[s -> Contents] : s \in SUBSET Workspaces}
  /\ pending \in Seq(States) /\ socket \in Seq(States)
  /\ loads \in [Loads -> LoadRecords]
  /\ toPage \in Seq(Messages)
  /\ events \in 0 .. MaxEvents /\ faults \in 0 .. MaxFaults
  /\ disturbed \subseteq Workspaces

\* Saves are asked for in the order of their ids, and no later than the events that do
AskedInv ==
  /\ asked <= events
  /\ \A i \in Ids :
       /\ saves[i].status = "none" <=> i > asked
       /\ i <= asked => saves[i].change \in Changes /\ saves[i].workspaceId \in Workspaces
       /\ saves[i].before # {} => saves[i].status \in {"applied", "aborted", "answered", "told"}
  /\ \A k \in DOMAIN toPage :
       toPage[k].type = "dataRequestCompleted" => saves[toPage[k].id].status \in {"answered", "told"}

Saving(w) == {i \in Ids : UnderWay(i, w)}
Loading(w) == {l \in Loads : loads[l].status \in {"asked", "got"} /\ loads[l].workspaceId = w}

\* At most one thing is in motion for w
Solo(w) ==
  /\ \A S \in {Saving(w), Loading(w), About(socket, w), About(pending, w), About(toPage, w)} :
       \A x, y \in S : x = y
  /\ Saving(w) # {} =>
       Loading(w) = {} /\ About(socket, w) = {} /\ About(pending, w) = {} /\ About(toPage, w) = {}
  /\ Loading(w) # {} => About(socket, w) = {} /\ About(pending, w) = {} /\ About(toPage, w) = {}
  /\ About(socket, w) # {} => About(pending, w) = {} /\ About(toPage, w) = {}
  /\ About(pending, w) # {} => About(toPage, w) = {}

\* The server has applied a save to w of which the worker has not heard
Ahead(w, i) == saves[i].status = "applied" /\ saves[i].workspaceId = w

Got(w, l) == loads[l].status = "got" /\ loads[l].workspaceId = w

\* What the queue s says that w has
Values(s, w) == {s[i].vertices : i \in About(s, w)}

\* What is in motion for w brings the store what the server has
Brings(w) ==
  /\ \A i \in Ids : Ahead(w, i) /\ w \in DOMAIN store => server[w] = Applied(store[w], saves[i].change)
  /\ \A l \in Loads : Got(w, l) => loads[l].vertices = server[w]
  /\ Values(socket, w) \subseteq {server[w]}
  /\ Values(pending, w) \subseteq {server[w]}
  /\ w \in DOMAIN store /\ (\A i \in Ids : ~Ahead(w, i)) /\ Values(socket, w) = {} /\ Values(pending, w) = {} =>
       store[w] = server[w]
StoreInv == \A w \in Workspaces \ (disturbed \cup gone) : Solo(w) /\ Brings(w)

\* The last message about a workspace has what the store has, or the page has it already
Tells(w) ==
  /\ \A i \in About(toPage, w) : (\A j \in About(toPage, w) : j <= i) => toPage[i].vertices = store[w]
  /\ About(toPage, w) = {} /\ shown.workspaceId = w => shown.vertices = store[w]
PageInv == \A w \in DOMAIN store : ~Halved(w) /\ (\A l \in Loads : ~Got(w, l)) => Tells(w)

\* What the page has heard of is in the store, or is gone
ToldInv ==
  /\ shown.workspaceId \in DOMAIN store \cup gone \cup {NoWorkspace}
  /\ \A i \in DOMAIN toPage : toPage[i].workspaceId \in DOMAIN store \cup gone \cup {NoWorkspace}

\* What puts the position of v back to p
PutBack(v, p) == IF p = 0 THEN Change("invalid", v, 0) ELSE Change("update", v, p)

\* undo and redo take each other back: the one is the change of save i, the other what the server had,
\* or has, if nothing disturbs it until the save is there
TakesBack(w, undo, redo, i) ==
  LET s == saves[i]
  IN  /\ i <= asked /\ redo = s.change
      /\ ~Halved(w) =>
           /\ s.before # {} /\ s.workspaceId = w => \E p \in Positions \cup {0} :
                s.before = {p} /\ undo = PutBack(s.change.vertex, p)
           /\ w \notin disturbed \cup gone /\ UnderWay(i, w) /\ s.status \in {"asked", "sent", "orphan"} =>
                undo = PutBack(s.change.vertex, server[w][s.change.vertex])

\* The actions of the two stacks, those to be done again turned round
Kept(w) ==
  {undos[w][k] : k \in DOMAIN undos[w]}
    \cup {Action(redos[w][k].redo, redos[w][k].undo, redos[w][k].id) : k \in DOMAIN redos[w]}
UndoInv == \A w \in Workspaces : \A a \in Kept(w) : TakesBack(w, a.undo, a.redo, a.id)

\* A save whose answer is on its way, one that is waited for, and a load that is
AnsweredInv ==
  \A i \in Ids : saves[i].status = "answered" =>
    \E k \in DOMAIN toPage : toPage[k].type = "dataRequestCompleted" /\ toPage[k].id = i
WaitInv ==
  /\ \A i \in buffers \cup triggered : i <= asked
  /\ subtitle = "saving" => \/ shown.workspaceId = NoWorkspace
                            \/ \E i \in triggered : i \in late \/ saves[i].status # "told"
  /\ shown.workspaceId = NoWorkspace =>
       \/ \E l \in Loads : loads[l].status \in {"asked", "got", "failed", "half"}
       \/ \E k \in DOMAIN toPage : toPage[k].type = "workspaceLoaded"

Used == {l \in Loads : loads[l].status # "none"}
LoadInv ==
  /\ Cardinality(Used) + asked <= events
  /\ \A l \in Loads : loads[l].status \notin {"none", "done"} => loads[l].workspaceId \in Workspaces

IInv ==
  /\ Types /\ AskedInv /\ LoadInv /\ PageAndWorkerAgree
  /\ StoreInv /\ PageInv /\ ToldInv /\ UndoInv /\ AnsweredInv /\ WaitInv

-----------------------------------------------------------------------------
(* Lemmas about the data.                                                  *)

LEMMA IdTypes ==
  /\ Ids \subseteq Nat /\ Loads \subseteq Nat /\ MaxEvents \in Nat /\ MaxFaults \in Nat
  /\ \A n \in Nat : n < MaxEvents => n + 1 \in Ids
  /\ \A i \in Ids : i <= MaxEvents /\ i >= 1
BY ConstantsAssumption DEF Ids, Loads

LEMMA ContentTypes ==
  /\ NoVertices \in Contents
  /\ \A contents \in Contents, c \in Changes : Applied(contents, c) \in Contents
  /\ \A contents \in Contents, c \in UserChanges : InverseChange(c, contents) \in Changes
  /\ UserChanges \subseteq Changes
<1>1. NoVertices \in Contents
  BY DEF NoVertices, Contents
<1>2. ASSUME NEW contents \in Contents, NEW c \in Changes
      PROVE  Applied(contents, c) \in Contents
  BY DEF Applied, Changes, Contents
<1>3. ASSUME NEW contents \in Contents, NEW c \in UserChanges
      PROVE  InverseChange(c, contents) \in Changes
  <2>1. c.vertex \in Vertices /\ contents[c.vertex] \in Positions \cup {0}
    BY DEF UserChanges, Changes, Contents
  <2>2. QED
    BY <2>1 DEF InverseChange, Change, Changes
<1>4. QED
  BY <1>1, <1>2, <1>3 DEF UserChanges

\* The inverse puts back what is there
LEMMA InverseIsPutBack ==
  ASSUME NEW c, NEW vertices
  PROVE  InverseChange(c, vertices) = PutBack(c.vertex, vertices[c.vertex])
BY DEF InverseChange, PutBack

LEMMA Removed ==
  ASSUME NEW S, NEW s \in Seq(S), NEW i \in DOMAIN s
  PROVE  /\ RemoveAt(s, i) \in Seq(S)
         /\ DOMAIN RemoveAt(s, i) = 1 .. Len(s) - 1
         /\ \A j \in 1 .. Len(s) - 1 : RemoveAt(s, i)[j] = IF j < i THEN s[j] ELSE s[j + 1]
<1> DEFINE a == SubSeq(s, 1, i - 1)
           b == SubSeq(s, i + 1, Len(s))
<1>1. i \in 1 .. Len(s) /\ Len(s) \in Nat
  OBVIOUS
<1>2. a \in Seq(S) /\ Len(a) = i - 1 /\ \A j \in 1 .. i - 1 : a[j] = s[j]
  BY <1>1
<1>3. b \in Seq(S) /\ Len(b) = Len(s) - i /\ \A j \in 1 .. Len(s) - i : b[j] = s[i + j]
  BY <1>1
<1>4. RemoveAt(s, i) = a \o b
  BY DEF RemoveAt
<1> HIDE DEF a, b
<1>5. /\ a \o b \in Seq(S) /\ Len(a \o b) = Len(s) - 1
      /\ \A j \in 1 .. Len(s) - 1 : (a \o b)[j] = IF j <= i - 1 THEN a[j] ELSE b[j - (i - 1)]
  <2>1. /\ a \o b \in Seq(S) /\ Len(a \o b) = Len(a) + Len(b)
        /\ \A j \in 1 .. Len(a) + Len(b) : (a \o b)[j] = IF j <= Len(a) THEN a[j] ELSE b[j - Len(a)]
    BY <1>2, <1>3, ConcatProperties
  <2>2. Len(a) + Len(b) = Len(s) - 1
    BY <1>1, <1>2, <1>3
  <2>3. QED
    BY <1>2, <2>1, <2>2
<1>6. ASSUME NEW j \in 1 .. Len(s) - 1
      PROVE  (a \o b)[j] = IF j < i THEN s[j] ELSE s[j + 1]
  <2>1. CASE j < i
    BY <1>1, <1>2, <1>5, <2>1
  <2>2. CASE ~(j < i)
    <3>1. j - (i - 1) \in 1 .. Len(s) - i /\ i + (j - (i - 1)) = j + 1 /\ ~(j <= i - 1)
      BY <1>1, <2>2
    <3>2. QED
      BY <1>3, <1>5, <2>2, <3>1
  <2>3. QED
    BY <2>1, <2>2
<1>7. DOMAIN (a \o b) = 1 .. Len(s) - 1
  BY <1>5
<1>8. QED
  BY <1>4, <1>5, <1>6, <1>7

\* What setWorkspace does
LEMMA StoreSet ==
  ASSUME Types, NEW w \in Workspaces, NEW vertices \in Contents, SetWorkspace(w, vertices)
  PROVE  /\ store' \in UNION {[s -> Contents] : s \in SUBSET Workspaces}
         /\ DOMAIN store' = DOMAIN store \cup {w}
         /\ store'[w] = vertices
         /\ \A u \in DOMAIN store : u # w => store'[u] = store[u]
<1>1. DOMAIN store \subseteq Workspaces /\ \A u \in DOMAIN store : store[u] \in Contents
  BY DEF Types
<1>2. store' \in [DOMAIN store \cup {w} -> Contents]
  BY <1>1 DEF SetWorkspace
<1>3. DOMAIN store \cup {w} \in SUBSET Workspaces
  BY <1>1
<1>4. QED
  BY <1>2, <1>3 DEF SetWorkspace

LEMMA StoreTypes ==
  ASSUME Types
  PROVE  /\ DOMAIN store \subseteq Workspaces /\ \A w \in DOMAIN store : store[w] \in Contents
         /\ NoWorkspace \notin DOMAIN store
BY ConstantsAssumption DEF Types

-----------------------------------------------------------------------------
(* Types.                                                                  *)

LEMMA InitialTypes == Init => Types
<1> SUFFICES ASSUME Init
             PROVE  Types
  OBVIOUS
<1>1. server \in [Workspaces -> Contents] /\ Home \in Workspaces
  BY ConstantsAssumption DEF Init, Contents
<1>2. saves \in [Ids -> SaveRecords]
  <2>1. NoSave \in SaveRecords
    BY DEF NoSave, Save, SaveRecords, SaveStatuses
  <2>2. QED
    BY <2>1 DEF Init
<1>3. loads \in [Loads -> LoadRecords]
  BY ContentTypes DEF Init, NoLoad, LoadRecords
<1>4. store \in UNION {[s -> Contents] : s \in SUBSET Workspaces}
  <2>1. store \in [{Home} -> Contents] /\ {Home} \in SUBSET Workspaces
    BY <1>1 DEF Init
  <2>2. QED
    BY <2>1
<1>5. shown \in [workspaceId : Workspaces \cup {NoWorkspace}, vertices : Contents]
  BY <1>1 DEF Init
<1>6. /\ publicApi \in Seq(Workspaces) \ {<<>>}
      /\ undos \in [Workspaces -> Seq(Actions)] /\ redos \in [Workspaces -> Seq(Actions)]
      /\ pending \in Seq(States) /\ socket \in Seq(States) /\ toPage \in Seq(Messages)
  <2>1. <<Home>> \in Seq(Workspaces) /\ <<Home>> # <<>>
    BY <1>1
  <2>2. publicApi \in Seq(Workspaces) \ {<<>>}
    BY <2>1 DEF Init
  <2>3. \A S : <<>> \in Seq(S)
    BY EmptySeq
  <2>4. undos \in [Workspaces -> Seq(Actions)] /\ redos \in [Workspaces -> Seq(Actions)]
    BY <2>3 DEF Init
  <2>5. QED
    BY <2>2, <2>3, <2>4 DEF Init
<1>7. events \in 0 .. MaxEvents /\ faults \in 0 .. MaxFaults
  BY IdTypes DEF Init
<1>8. QED
  BY <1>1, <1>2, <1>3, <1>4, <1>5, <1>6, <1>7 DEF Init, Types

\* What onUpdateWorkspace asks for has a number
LEMMA AskTypes ==
  ASSUME Types, AskedInv, NEW c \in Changes, NEW status \in SaveStatuses, Ask(c, status)
  PROVE  /\ asked' = asked + 1 /\ asked' \in Ids /\ asked' \in Nat
         /\ events' = events + 1 /\ events < MaxEvents /\ events' \in 0 .. MaxEvents
         /\ buffers' = buffers \cup {asked'} /\ buffers' \subseteq Ids
         /\ saves' \in [Ids -> SaveRecords]
         /\ saves'[asked'] = Save(status, c, current, Len(publicApi))
         /\ \A i \in Ids : i # asked' => saves'[i] = saves[i]
<1>1. asked' = asked + 1 /\ events' = events + 1 /\ events < MaxEvents
  BY DEF Ask, Event
<1>2. asked' \in Ids /\ asked' \in Nat /\ events' \in 0 .. MaxEvents
  <2>1. asked \in Nat /\ events \in Nat /\ asked <= events /\ MaxEvents \in Nat
    BY IdTypes DEF Types, AskedInv
  <2>2. asked < MaxEvents /\ asked + 1 \in Nat /\ events + 1 \in 0 .. MaxEvents
    BY <1>1, <2>1
  <2>3. asked + 1 \in Ids
    BY <2>1, <2>2, IdTypes
  <2>4. QED
    BY <1>1, <2>2, <2>3
<1>3. Len(publicApi) \in Nat /\ current \in Workspaces
  BY DEF Types
<1>4. Save(status, c, current, Len(publicApi)) \in SaveRecords
  BY <1>3 DEF Save, SaveRecords
<1>5. saves' = [saves EXCEPT ![asked'] = Save(status, c, current, Len(publicApi))] /\ saves \in [Ids -> SaveRecords]
  BY DEF Ask, Types
<1>6. QED
  BY <1>1, <1>2, <1>4, <1>5 DEF Ask, Types

\* A call of workspaceSwitch is one that is not used yet
LEMMA LoadCalled ==
  ASSUME Types, LoadInv, NEW w \in Workspaces, Load(w)
  PROVE  \E l \in Loads :
           /\ loads[l].status = "none"
           /\ loads' = [loads EXCEPT ![l].status = "asked", ![l].workspaceId = w]
           /\ loads' \in [Loads -> LoadRecords]
           /\ events' = events + 1 /\ events' \in 0 .. MaxEvents
<1>1. events' = events + 1 /\ events < MaxEvents /\ events' \in 0 .. MaxEvents
  BY IdTypes DEF Load, Event, Types
<1>2. \E l \in Loads : loads[l].status = "none"
  <2> SUFFICES ASSUME Used = Loads
               PROVE  FALSE
    BY DEF Used
  <2>1. Cardinality(Loads) = MaxEvents
    BY FS_Interval, IdTypes DEF Loads
  <2>2. QED
    BY <1>1, <2>1, IdTypes DEF LoadInv, Types
<1> DEFINE l == CHOOSE k \in Loads : loads[k].status = "none"
<1>3. l \in Loads /\ loads[l].status = "none"
  BY <1>2
<1>4. loads' = [loads EXCEPT ![l].status = "asked", ![l].workspaceId = w]
  BY DEF Load
<1> HIDE DEF l
<1>5. loads' \in [Loads -> LoadRecords]
  BY <1>3, <1>4, ZenonT(30) DEF Types, LoadRecords
<1>6. QED
  BY <1>1, <1>3, <1>4, <1>5

LEMMA PageTypes ==
  ASSUME Types, AskedInv, LoadInv,
         \/ \E c \in UserChanges : UpdateWorkspace(c) \/ UpdateThrows(c)
         \/ PerformUndo \/ PerformRedo
         \/ \E id \in Ids : BufferFires(id)
         \/ \E w \in Workspaces : SwitchWorkspace(w)
  PROVE  Types'
<1> USE DEF workerVars, messageVars, requestVars, boundVars, Disturbs
<1>1. ASSUME NEW c \in UserChanges, UpdateWorkspace(c)
      PROVE  Types'
  <2>1. c \in Changes /\ Ask(c, "asked") /\ "asked" \in SaveStatuses
    BY <1>1, ContentTypes DEF UpdateWorkspace, SaveStatuses
  <2>2. shown.workspaceId \in Workspaces /\ shown.vertices \in Contents
    BY <1>1 DEF UpdateWorkspace, Types
  <2>3. Action(InverseChange(c, shown.vertices), c, asked') \in Actions
    BY <2>1, <2>2, ContentTypes, AskTypes DEF Action, Actions
  <2>4. undos' \in [Workspaces -> Seq(Actions)]
    BY <1>1, <2>2, <2>3 DEF UpdateWorkspace, Types
  <2>5. QED
    BY <1>1, <2>1, <2>4, AskTypes DEF UpdateWorkspace, Types
<1>2. ASSUME NEW c \in UserChanges, UpdateThrows(c)
      PROVE  Types'
  <2>1. c \in Changes /\ Ask(c, "threw") /\ "threw" \in SaveStatuses
    BY <1>2, ContentTypes DEF UpdateThrows, SaveStatuses
  <2>2. QED
    BY <1>2, <2>1, AskTypes DEF UpdateThrows, Types
<1>3. ASSUME NEW stack1 \in [Workspaces -> Seq(Actions)], NEW stack2 \in [Workspaces -> Seq(Actions)],
             NEW stack1Next, NEW stack2Next, Perform(stack1, stack2, stack1Next, stack2Next)
      PROVE  /\ stack1Next \in [Workspaces -> Seq(Actions)] /\ stack2Next \in [Workspaces -> Seq(Actions)]
             /\ (undos' = stack1Next /\ redos' = stack2Next) \/ (undos' = stack2Next /\ redos' = stack1Next) => Types'
  <2> DEFINE action == stack1[current][Len(stack1[current])]
  <2>1. stack1[current] \in Seq(Actions) /\ stack1[current] # <<>> /\ current \in Workspaces
    BY <1>3 DEF Perform, Types
  <2>2. action \in Actions
    BY <2>1
  <2>3. Ask(action.undo, "asked") /\ action.undo \in Changes /\ "asked" \in SaveStatuses
    BY <1>3, <2>2 DEF Perform, Actions, SaveStatuses
  <2>4. Action(action.redo, action.undo, action.id) \in Actions
    BY <2>2 DEF Action, Actions
  <2>5. stack2Next = [stack2 EXCEPT ![current] = Append(@, Action(action.redo, action.undo, action.id))]
    BY <1>3 DEF Perform
  <2> HIDE DEF action
  <2>6. stack2Next \in [Workspaces -> Seq(Actions)]
    BY <2>1, <2>4, <2>5
  <2>7. stack1Next \in [Workspaces -> Seq(Actions)]
    <3>1. SubSeq(stack1[current], 1, Len(stack1[current]) - 1) \in Seq(Actions)
      BY <2>1
    <3>2. QED
      BY <1>3, <2>1, <3>1 DEF Perform
  <2>8. UNCHANGED <<server, gone, current, shown, triggered, subtitle, workerVars, messageVars, faults, late>>
        /\ disturbed' \subseteq Workspaces
    BY <1>3 DEF Perform
  <2>9. QED
    BY <2>3, <2>6, <2>7, <2>8, AskTypes DEF Types
<1>4. CASE PerformUndo \/ PerformRedo
  <2>1. undos \in [Workspaces -> Seq(Actions)] /\ redos \in [Workspaces -> Seq(Actions)]
    BY DEF Types
  <2>2. CASE Perform(undos, redos, undos', redos')
    BY <1>3, <2>1, <2>2
  <2>3. CASE Perform(redos, undos, redos', undos')
    BY <1>3, <2>1, <2>3
  <2>4. QED
    BY <1>4, <2>2, <2>3 DEF PerformUndo, PerformRedo
<1>5. ASSUME NEW id \in Ids, BufferFires(id)
      PROVE  Types'
  BY <1>5 DEF BufferFires, Types
<1>6. ASSUME NEW w \in Workspaces, SwitchWorkspace(w)
      PROVE  Types'
  <2>1. loads' \in [Loads -> LoadRecords] /\ events' \in 0 .. MaxEvents
    BY <1>6, LoadCalled DEF SwitchWorkspace
  <2>2. shown' \in [workspaceId : Workspaces \cup {NoWorkspace}, vertices : Contents]
    BY <1>6, ContentTypes DEF SwitchWorkspace
  <2>3. publicApi' \in Seq(Workspaces) \ {<<>>}
    <3>1. publicApi \in Seq(Workspaces) /\ publicApi' = Append(publicApi, w)
      BY <1>6 DEF SwitchWorkspace, Types
    <3>2. QED
      BY <3>1
  <2>4. QED
    BY <1>6, <2>1, <2>2, <2>3 DEF SwitchWorkspace, Types
<1>7. QED
  BY <1>1, <1>2, <1>4, <1>5, <1>6

\* What happens to saves
LEMMA SaveTypes ==
  ASSUME Types
  PROVE  /\ \A i \in Ids, status \in SaveStatuses : [saves EXCEPT ![i].status = status] \in [Ids -> SaveRecords]
         /\ \A i \in Ids, status \in SaveStatuses, w \in Workspaces :
              [Aborted(saves) EXCEPT ![i].status = status, ![i].workspaceId = w] \in [Ids -> SaveRecords]
         /\ Aborted(saves) \in [Ids -> SaveRecords]
<1>1. \A i \in Ids : saves[i] \in SaveRecords
  BY DEF Types
<1>2. \A i \in Ids, status \in SaveStatuses : [saves[i] EXCEPT !.status = status] \in SaveRecords
  BY <1>1 DEF SaveRecords
<1>3. Aborted(saves) \in [Ids -> SaveRecords]
  BY <1>1, <1>2 DEF Aborted, SaveStatuses
<1>4. ASSUME NEW i \in Ids, NEW status \in SaveStatuses
      PROVE  [saves EXCEPT ![i].status = status] \in [Ids -> SaveRecords]
  BY <1>1, <1>2 DEF Types
<1>5. ASSUME NEW i \in Ids, NEW status \in SaveStatuses, NEW w \in Workspaces
      PROVE  [Aborted(saves) EXCEPT ![i].status = status, ![i].workspaceId = w] \in [Ids -> SaveRecords]
  <2> DEFINE s == Aborted(saves)
  <2>1. s \in [Ids -> SaveRecords]
    BY <1>3
  <2> HIDE DEF s
  <2>2. [s EXCEPT ![i].status = status, ![i].workspaceId = w] \in [Ids -> SaveRecords]
    BY <2>1, ZenonT(30) DEF SaveRecords
  <2>3. QED
    BY <2>2 DEF s
<1>6. QED
  BY <1>3, <1>4, <1>5

\* What workspaceWasChangedRemotely does to pending
LEMMA ChangedTypes ==
  ASSUME Types, NEW w \in Workspaces, NEW vertices \in Contents, WasChangedRemotely(w, vertices)
  PROVE  pending' \in Seq(States)
<1>1. pending \in Seq(States) /\ [workspaceId |-> w, vertices |-> vertices] \in States
  BY DEF Types, States
<1>2. QED
  BY <1>1 DEF WasChangedRemotely

LEMMA MessageTypes ==
  /\ \A id \in Ids, saved \in BOOLEAN, success \in BOOLEAN : Completed(id, saved, success) \in Messages
  /\ \A w \in Workspaces, vertices \in Contents :
       Told("workspaceUpdated", w, vertices) \in Messages /\ Told("workspaceLoaded", w, vertices) \in Messages
BY ContentTypes DEF Completed, Told, Message, Messages

LEMMA WorkerTypes ==
  ASSUME Types, AskedInv, LoadInv, SetPublicApi \/ StartSaveNext \/ AnswerNext \/ WorkspaceChange
  PROVE  Types'
<1> USE DEF pageVars, workerVars, messageVars, requestVars, boundVars, Disturbs
<1>1. CASE SetPublicApi
  <2>1. \A i \in Ids : saves[i] \in SaveRecords
    BY DEF Types
  <2>2. \A i \in Ids : [saves[i] EXCEPT !.posts = IF @ > 1 THEN @ - 1 ELSE @] \in SaveRecords
    BY <2>1 DEF SaveRecords
  <2>3. saves' \in [Ids -> SaveRecords]
    BY <1>1, <2>2 DEF SetPublicApi
  <2>4. publicApi' \in Seq(Workspaces) \ {<<>>}
    <3>1. publicApi \in Seq(Workspaces) /\ Len(publicApi) > 1 /\ publicApi' = Tail(publicApi)
      BY <1>1 DEF SetPublicApi, Types
    <3>2. publicApi' \in Seq(Workspaces) /\ Len(publicApi') = Len(publicApi) - 1
      BY <3>1
    <3>3. Len(publicApi') # 0
      BY <3>1, <3>2
    <3>4. QED
      BY <3>2, <3>3, EmptySeq
  <2>5. QED
    BY <1>1, <2>3, <2>4 DEF SetPublicApi, Types
<1>2. ASSUME NEW id \in Ids, StartSave(id)
      PROVE  Types'
  <2> DEFINE w == Head(publicApi)
             To(status) == saves' = [Aborted(saves) EXCEPT ![id].status = status, ![id].workspaceId = w]
  <2>1. w \in Workspaces
    BY DEF Types
  <2>2. /\ toPage' \in {toPage, Append(toPage, Completed(id, FALSE, TRUE))}
        /\ To("threw") \/ To("answered") \/ To("sent")
        /\ disturbed' \subseteq Workspaces
    BY <1>2 DEF StartSave
  <2>3. toPage' \in Seq(Messages)
    <3>1. PICK m \in Messages : m = Completed(id, FALSE, TRUE)
      BY MessageTypes
    <3>2. Append(toPage, m) \in Seq(Messages) /\ toPage \in Seq(Messages)
      BY DEF Types
    <3>3. QED
      BY <2>2, <3>1, <3>2
  <2>4. saves' \in [Ids -> SaveRecords]
    <3>1. ASSUME NEW status \in SaveStatuses, To(status)
          PROVE  saves' \in [Ids -> SaveRecords]
      <4>1. [Aborted(saves) EXCEPT ![id].status = status, ![id].workspaceId = w] \in [Ids -> SaveRecords]
        BY <2>1, SaveTypes
      <4>2. QED
        BY <3>1, <4>1
    <3>2. "threw" \in SaveStatuses /\ "answered" \in SaveStatuses /\ "sent" \in SaveStatuses
      BY DEF SaveStatuses
    <3> HIDE DEF To
    <3>3. QED
      BY <2>2, <3>1, <3>2
  <2>5. QED
    BY <1>2, <2>2, <2>3, <2>4 DEF StartSave, Types
<1>3. ASSUME NEW id \in Ids, Answer(id)
      PROVE  Types'
  <2> DEFINE w == saves[id].workspaceId
             updates == saves[id].status = "applied" /\ w \in DOMAIN store
  <2>1. /\ IF updates THEN WasChangedRemotely(w, Applied(store[w], saves[id].change)) ELSE UNCHANGED pending
        /\ toPage' = Append(toPage, Completed(id, updates, updates))
        /\ saves' = [saves EXCEPT ![id].status = "answered"]
    BY <1>3 DEF Answer
  <2>2. saves[id].change \in Changes
    <3>1. saves[id].status # "none"
      BY <1>3 DEF Answer
    <3>2. id \in Nat /\ asked \in Nat
      BY IdTypes DEF Types
    <3>3. QED
      BY <3>1, <3>2 DEF AskedInv
  <2>3. pending' \in Seq(States)
    <3>1. CASE updates
      <4>1. w \in Workspaces /\ Applied(store[w], saves[id].change) \in Contents
        BY <2>2, <3>1, StoreTypes, ContentTypes
      <4>2. QED
        BY <2>1, <3>1, <4>1, ChangedTypes
    <3>2. CASE ~updates
      BY <2>1, <3>2 DEF Types
    <3>3. QED
      BY <3>1, <3>2
  <2>4. toPage' \in Seq(Messages)
    <3>1. updates \in BOOLEAN /\ toPage \in Seq(Messages)
      BY DEF Types
    <3>2. Completed(id, updates, updates) \in Messages
      BY <3>1, MessageTypes
    <3>3. QED
      BY <2>1, <3>1, <3>2
  <2>5. saves' \in [Ids -> SaveRecords]
    BY <2>1, SaveTypes DEF SaveStatuses
  <2>6. QED
    BY <1>3, <2>3, <2>4, <2>5 DEF Answer, Types
<1>4. CASE WorkspaceChange
  <2>1. socket \in Seq(States) /\ socket # <<>>
    BY <1>4 DEF WorkspaceChange, Types
  <2>2. Head(socket) \in States /\ Tail(socket) \in Seq(States)
    BY <2>1
  <2>3. pending' \in Seq(States)
    BY <1>4, <2>2, ChangedTypes DEF WorkspaceChange, States
  <2>4. QED
    BY <1>4, <2>2, <2>3 DEF WorkspaceChange, Types
<1>5. QED
  BY <1>1, <1>2, <1>3, <1>4 DEF StartSaveNext, AnswerNext

LEMMA LoadingTypes ==
  ASSUME Types, AskedInv, LoadInv, PendingNext \/ LoadNext
  PROVE  Types'
<1> USE DEF pageVars, workerVars, messageVars, requestVars, boundVars, Disturbs
<1>1. ASSUME NEW i \in DOMAIN pending
      PROVE  /\ pending[i] \in States /\ pending[i].workspaceId \in Workspaces /\ pending[i].vertices \in Contents
             /\ RemoveAt(pending, i) \in Seq(States)
  <2>1. pending \in Seq(States)
    BY DEF Types
  <2>2. pending[i] \in States
    BY <2>1
  <2>3. QED
    BY <2>1, <2>2, Removed DEF States
<1>2. ASSUME NEW i \in DOMAIN pending, Updated(i)
      PROVE  Types'
  <2>1. pending' \in Seq(States)
    BY <1>1, <1>2 DEF Updated
  <2>2. store' \in UNION {[s -> Contents] : s \in SUBSET Workspaces}
    BY <1>1, <1>2, StoreSet DEF Updated
  <2>3. toPage' \in Seq(Messages)
    <3>1. Told("workspaceUpdated", pending[i].workspaceId, pending[i].vertices) \in Messages /\ toPage \in Seq(Messages)
      BY <1>1, MessageTypes DEF Types
    <3>2. QED
      BY <1>2, <3>1 DEF Updated
  <2>4. QED
    BY <1>2, <2>1, <2>2, <2>3 DEF Updated, Types
<1>3. ASSUME NEW i \in DOMAIN pending, UpdateDropped(i)
      PROVE  Types'
  <2>1. faults' \in 0 .. MaxFaults
    BY <1>3, IdTypes DEF UpdateDropped, Fault, Types
  <2>2. QED
    BY <1>1, <1>3, <2>1 DEF UpdateDropped, Types
<1>4. ASSUME NEW l \in Loads
      PROVE  loads[l] \in LoadRecords
  BY DEF Types
<1>5. ASSUME NEW l \in Loads, GetWorkspace(l)
      PROVE  Types'
  <2>1. PICK w \in Workspaces \ gone :
          /\ loads' = [loads EXCEPT ![l] = [status |-> "got", workspaceId |-> w, vertices |-> server[w]]]
          /\ SetWorkspace(w, server[w])
          /\ UNCHANGED <<server, gone, pageVars, requestVars, publicApi, pending, messageVars, boundVars, late>>
          /\ disturbed' \subseteq Workspaces
    BY <1>5 DEF GetWorkspace
  <2>2. server[w] \in Contents
    BY DEF Types
  <2>3. [status |-> "got", workspaceId |-> w, vertices |-> server[w]] \in LoadRecords
    BY <2>2 DEF LoadRecords
  <2>4. loads' \in [Loads -> LoadRecords]
    BY <2>1, <2>3 DEF Types
  <2>5. store' \in UNION {[s -> Contents] : s \in SUBSET Workspaces}
    BY <2>1, <2>2, StoreSet
  <2>6. QED
    BY <2>1, <2>4, <2>5 DEF Types
<1>6. ASSUME NEW l \in Loads, WorkspaceGot(l)
      PROVE  Types'
  <2>1. loads[l].vertices \in Contents /\ loads[l].workspaceId \in Workspaces
    BY <1>4, <1>6 DEF LoadRecords, LoadInv, WorkspaceGot
  <2>2. store' \in UNION {[s -> Contents] : s \in SUBSET Workspaces}
    BY <1>6, <2>1, StoreSet DEF WorkspaceGot
  <2>3. toPage' \in Seq(Messages)
    <3>1. Told("workspaceLoaded", loads[l].workspaceId, loads[l].vertices) \in Messages /\ toPage \in Seq(Messages)
      BY <2>1, MessageTypes DEF Types
    <3>2. QED
      BY <1>6, <3>1 DEF WorkspaceGot
  <2>4. [NoLoad EXCEPT !.status = "done"] \in LoadRecords
    BY ContentTypes DEF NoLoad, LoadRecords
  <2>5. loads' \in [Loads -> LoadRecords]
    BY <1>6, <2>4 DEF WorkspaceGot, Types
  <2>6. QED
    BY <1>6, <2>2, <2>3, <2>5 DEF WorkspaceGot, Types
<1>7. ASSUME NEW l \in Loads, LoadFails(l)
      PROVE  Types'
  <2>1. faults' \in 0 .. MaxFaults
    <3>1. faults < MaxFaults /\ faults' = faults + 1
      BY <1>7 DEF LoadFails, Fault
    <3>2. QED
      BY <3>1, IdTypes DEF Types
  <2>2. loads' \in [Loads -> LoadRecords]
    BY <1>4, <1>7, ZenonT(30) DEF LoadFails, Types, LoadRecords
  <2>3. QED
    BY <1>7, <2>1, <2>2 DEF LoadFails, Types
<1>8. QED
  BY <1>2, <1>3, <1>5, <1>6, <1>7 DEF PendingNext, LoadNext

\* What is known of a save that was asked for, of a message, and of a load
LEMMA SaveKnown ==
  ASSUME Types, AskedInv, NEW i \in Ids, saves[i].status # "none"
  PROVE  /\ i <= asked /\ saves[i].change \in Changes /\ saves[i].workspaceId \in Workspaces
         /\ saves[i] \in SaveRecords
<1>1. i \in Nat /\ asked \in Nat
  BY IdTypes DEF Types
<1>2. QED
  BY <1>1 DEF AskedInv, Types

LEMMA MessageKnown ==
  ASSUME NEW m \in Messages
  PROVE  /\ m.type \in {"dataRequestCompleted", "workspaceUpdated", "workspaceLoaded"}
         /\ m.type = "dataRequestCompleted" => m.id \in Ids /\ m.workspaceId = NoWorkspace
         /\ m.type # "dataRequestCompleted" => m.workspaceId \in Workspaces /\ m.vertices \in Contents
BY DEF Messages

LEMMA QueueTypes ==
  ASSUME Types
  PROVE  /\ toPage # <<>> => /\ Head(toPage) \in Messages /\ Tail(toPage) \in Seq(Messages)
                             /\ Len(toPage) \in Nat \ {0} /\ DOMAIN toPage = 1 .. Len(toPage)
                             /\ Head(toPage) = toPage[1] /\ DOMAIN Tail(toPage) = 1 .. Len(toPage) - 1
                             /\ \A i \in 1 .. Len(toPage) - 1 : Tail(toPage)[i] = toPage[i + 1]
         /\ socket # <<>> => /\ Head(socket) \in States /\ Tail(socket) \in Seq(States)
                             /\ Len(socket) \in Nat \ {0} /\ DOMAIN socket = 1 .. Len(socket)
                             /\ Head(socket) = socket[1] /\ DOMAIN Tail(socket) = 1 .. Len(socket) - 1
                             /\ \A i \in 1 .. Len(socket) - 1 : Tail(socket)[i] = socket[i + 1]
<1>1. toPage \in Seq(Messages) /\ socket \in Seq(States)
  BY DEF Types
<1>2. ASSUME NEW S, NEW s \in Seq(S), s # <<>>
      PROVE  /\ Head(s) \in S /\ Tail(s) \in Seq(S)
             /\ Len(s) \in Nat \ {0} /\ DOMAIN s = 1 .. Len(s)
             /\ Head(s) = s[1] /\ DOMAIN Tail(s) = 1 .. Len(s) - 1
             /\ \A i \in 1 .. Len(s) - 1 : Tail(s)[i] = s[i + 1]
  <2>1. Len(s) \in Nat \ {0} /\ DOMAIN s = 1 .. Len(s)
    BY <1>2, EmptySeq
  <2>2. Tail(s) \in Seq(S) /\ Len(Tail(s)) = Len(s) - 1
    BY <1>2, <2>1
  <2>3. QED
    BY <1>2, <2>1, <2>2
<1>3. QED
  BY <1>1, <1>2

LEMMA ServerTypes ==
  ASSUME Types, AskedInv, LoadInv,
         \/ ServeNext \/ ProcessWorkerMessage
         \/ \E w \in Workspaces : WorkspaceDelete(w)
         \/ \E w \in Workspaces, c \in UserChanges : RemoteChange(w, c)
  PROVE  Types'
<1> USE DEF pageVars, workerVars, messageVars, requestVars, boundVars, Disturbs
<1>1. ASSUME NEW id \in Ids, Serve(id)
      PROVE  Types'
  <2> DEFINE w == saves[id].workspaceId
             c == saves[id].change
  <2>1. w \in Workspaces /\ c \in Changes
    BY <1>1, SaveKnown DEF Serve
  <2>2. saves \in [Ids -> SaveRecords] /\ saves[id] \in SaveRecords /\ server \in [Workspaces -> Contents]
    BY DEF Types
  <2>3. CASE /\ c.kind # "invalid" /\ w \notin gone
             /\ server' = [server EXCEPT ![w] = Applied(@, c)]
             /\ saves' = [saves EXCEPT
                  ![id].status = IF saves[id].status = "orphan" THEN "aborted" ELSE "applied",
                  ![id].before = IF w \in disturbed THEN @ ELSE {server[w][c.vertex]}]
             /\ UNCHANGED <<gone, pageVars, asked, workerVars, messageVars, boundVars, late>>
             /\ disturbed' \subseteq Workspaces
    <3>1. Applied(server[w], c) \in Contents
      BY <2>1, <2>2, ContentTypes
    <3>2. server' \in [Workspaces -> Contents]
      BY <2>1, <2>2, <2>3, <3>1
    <3>3. server[w][c.vertex] \in Positions \cup {0}
      BY <2>1, <2>2 DEF Changes, Contents
    <3>4. saves' \in [Ids -> SaveRecords]
      BY <2>2, <2>3, <3>3 DEF SaveRecords, SaveStatuses
    <3>5. QED
      BY <2>3, <3>2, <3>4 DEF Types
  <2>4. CASE /\ UNCHANGED faults \/ Fault
             /\ saves' = [saves EXCEPT ![id].status = IF saves[id].status = "orphan" THEN "aborted" ELSE "refused"]
             /\ UNCHANGED <<server, gone, pageVars, asked, workerVars, messageVars, events, late>>
             /\ disturbed' \subseteq Workspaces
    <3>1. faults' \in 0 .. MaxFaults
      <4>1. faults \in 0 .. MaxFaults /\ MaxFaults \in Nat
        BY IdTypes DEF Types
      <4>2. faults' = faults \/ (faults < MaxFaults /\ faults' = faults + 1)
        BY <2>4 DEF Fault
      <4> HIDE DEF w, c
      <4>3. QED
        BY <4>1, <4>2
    <3>2. saves' \in [Ids -> SaveRecords]
      BY <2>2, <2>4 DEF SaveRecords, SaveStatuses
    <3>3. QED
      BY <2>4, <3>1, <3>2 DEF Types
  <2>5. QED
    BY <1>1, <2>3, <2>4 DEF Serve
<1>2. CASE ProcessWorkerMessage
  <2> DEFINE m == Head(toPage)
  <2>1. m \in Messages /\ Tail(toPage) \in Seq(Messages)
    BY <1>2, QueueTypes DEF ProcessWorkerMessage
  <2>2. /\ toPage' = Tail(toPage)
        /\ UNCHANGED <<server, gone, undos, redos, triggered, asked, store, pending, loads, socket, boundVars, late>>
        /\ disturbed' \subseteq Workspaces
    BY <1>2 DEF ProcessWorkerMessage
  <2>3. CASE m.type = "dataRequestCompleted" /\ SaveCompleted(m)
    <3>1. m.id \in Ids
      BY <2>1, <2>3, MessageKnown
    <3>2. saves' \in [Ids -> SaveRecords]
      BY <2>3, <3>1, SaveTypes DEF SaveCompleted, SaveStatuses
    <3>3. QED
      BY <2>1, <2>2, <2>3, <3>2 DEF SaveCompleted, Types
  <2>4. CASE m.type = "workspaceUpdated" /\ WorkspaceUpdated(m)
    <3>1. m.vertices \in Contents
      BY <2>1, <2>4, MessageKnown
    <3>2. shown' \in [workspaceId : Workspaces \cup {NoWorkspace}, vertices : Contents]
      BY <2>4, <3>1 DEF WorkspaceUpdated, Types
    <3>3. QED
      BY <2>1, <2>2, <2>4, <3>2 DEF WorkspaceUpdated, Types
  <2>5. CASE m.type = "workspaceLoaded" /\ WorkspaceLoaded(m)
    <3>1. m.vertices \in Contents /\ m.workspaceId \in Workspaces
      BY <2>1, <2>5, MessageKnown
    <3>2. shown' \in [workspaceId : Workspaces \cup {NoWorkspace}, vertices : Contents]
      BY <2>5, <3>1 DEF WorkspaceLoaded
    <3>3. publicApi' \in Seq(Workspaces) \ {<<>>}
      <4>1. publicApi \in Seq(Workspaces) /\ publicApi' = Append(publicApi, m.workspaceId)
        BY <2>5 DEF WorkspaceLoaded, Types
      <4>2. QED
        BY <3>1, <4>1
    <3>4. QED
      BY <2>1, <2>2, <2>5, <3>1, <3>2, <3>3 DEF WorkspaceLoaded, Types
  <2>6. QED
    BY <1>2, <2>3, <2>4, <2>5 DEF ProcessWorkerMessage
<1>3. ASSUME NEW w \in Workspaces, WorkspaceDelete(w)
      PROVE  Types'
  <2>1. loads' \in [Loads -> LoadRecords] /\ events' \in 0 .. MaxEvents
    BY <1>3, LoadCalled DEF WorkspaceDelete
  <2>2. store' \in [DOMAIN store \ {w} -> Contents] /\ DOMAIN store \ {w} \in SUBSET Workspaces
    BY <1>3, StoreTypes DEF WorkspaceDelete
  <2>3. QED
    BY <1>3, <2>1, <2>2 DEF WorkspaceDelete, Types
<1>4. ASSUME NEW w \in Workspaces, NEW c \in UserChanges, RemoteChange(w, c)
      PROVE  Types'
  <2>1. server' \in [Workspaces -> Contents]
    BY <1>4, ContentTypes DEF RemoteChange, Types
  <2>2. events' \in 0 .. MaxEvents
    BY <1>4, IdTypes DEF RemoteChange, Event, Types
  <2>3. socket' \in Seq(States)
    <3>1. [workspaceId |-> w, vertices |-> server'[w]] \in States /\ socket \in Seq(States)
      BY <2>1 DEF States, Types
    <3>2. QED
      BY <1>4, <3>1 DEF RemoteChange
  <2>4. QED
    BY <1>4, <2>1, <2>2, <2>3 DEF RemoteChange, Types
<1>5. QED
  BY <1>1, <1>2, <1>3, <1>4 DEF ServeNext

LEMMA NextTypes == Types /\ AskedInv /\ LoadInv /\ [Next]_vars => Types'
<1> SUFFICES ASSUME Types, AskedInv, LoadInv, [Next]_vars
             PROVE  Types'
  OBVIOUS
<1>1. CASE UNCHANGED vars
  BY <1>1 DEF Types, vars, pageVars, workerVars, messageVars, requestVars, boundVars
<1>2. CASE Next
  BY <1>2, PageTypes, WorkerTypes, LoadingTypes, ServerTypes DEF Next
<1>3. QED
  BY <1>1, <1>2

-----------------------------------------------------------------------------
(* What a queue says of a workspace.                                       *)

LEMMA Appended ==
  ASSUME NEW S, NEW q \in Seq(S), NEW x \in S, NEW w
  PROVE  /\ DOMAIN q = 1 .. Len(q) /\ Len(q) \in Nat
         /\ DOMAIN Append(q, x) = 1 .. Len(q) + 1
         /\ Append(q, x)[Len(q) + 1] = x
         /\ \A i \in 1 .. Len(q) : Append(q, x)[i] = q[i]
         /\ x.workspaceId = w => /\ About(Append(q, x), w) = About(q, w) \cup {Len(q) + 1}
                                 /\ Values(Append(q, x), w) = Values(q, w) \cup {x.vertices}
         /\ x.workspaceId # w => /\ About(Append(q, x), w) = About(q, w)
                                 /\ Values(Append(q, x), w) = Values(q, w)
<1> DEFINE a == Append(q, x)
<1>1. /\ DOMAIN q = 1 .. Len(q) /\ Len(q) \in Nat
      /\ DOMAIN a = 1 .. Len(q) + 1
      /\ a[Len(q) + 1] = x
      /\ \A i \in 1 .. Len(q) : a[i] = q[i]
  OBVIOUS
<1> HIDE DEF a
<1>2. x.workspaceId = w => About(a, w) = About(q, w) \cup {Len(q) + 1}
  BY <1>1 DEF About
<1>3. x.workspaceId # w => About(a, w) = About(q, w)
  BY <1>1 DEF About
<1>4. About(q, w) \subseteq 1 .. Len(q)
  BY <1>1 DEF About
<1>5. x.workspaceId = w => Values(a, w) = Values(q, w) \cup {x.vertices}
  BY <1>1, <1>2, <1>4 DEF Values
<1>6. x.workspaceId # w => Values(a, w) = Values(q, w)
  BY <1>1, <1>3, <1>4 DEF Values
<1>7. QED
  BY <1>1, <1>2, <1>3, <1>5, <1>6 DEF a

\* t is what is left of q when its first element was taken
Rest(q, t) == DOMAIN t = 1 .. Len(q) - 1 /\ \A i \in 1 .. Len(q) - 1 : t[i] = q[i + 1]

LEMMA Shortened ==
  ASSUME NEW S, NEW q \in Seq(S), q # <<>>, NEW t, Rest(q, t), NEW w
  PROVE  /\ 1 \in DOMAIN q /\ Head(q) = q[1] /\ About(q, w) \subseteq Nat
         /\ Head(q).workspaceId = w => 1 \in About(q, w) /\ Head(q).vertices \in Values(q, w)
         /\ Head(q).workspaceId # w => Values(t, w) = Values(q, w) /\ 1 \notin About(q, w)
         /\ About(q, w) = {1} => Values(t, w) = {}
<1>1. /\ Len(q) \in Nat \ {0} /\ DOMAIN q = 1 .. Len(q) /\ Head(q) = q[1]
      /\ DOMAIN t = 1 .. Len(q) - 1
      /\ \A i \in 1 .. Len(q) - 1 : t[i] = q[i + 1]
  BY EmptySeq DEF Rest
<1>2. ASSUME NEW i \in About(t, w)
      PROVE  i + 1 \in About(q, w) /\ t[i] = q[i + 1]
  BY ONLY <1>1, i \in About(t, w) DEF About
<1>3. ASSUME NEW i \in About(q, w), i # 1
      PROVE  i - 1 \in About(t, w) /\ t[i - 1] = q[i]
  <2>1. i \in 1 .. Len(q) /\ i - 1 \in 1 .. Len(q) - 1 /\ (i - 1) + 1 = i
    BY <1>1, <1>3 DEF About
  <2>2. QED
    BY ONLY <1>1, <2>1, i \in About(q, w) DEF About
<1>4. Head(q).workspaceId = w => 1 \in About(q, w) /\ Head(q).vertices \in Values(q, w)
  BY <1>1 DEF About, Values
<1>5. Head(q).workspaceId # w => Values(t, w) = Values(q, w) /\ 1 \notin About(q, w)
  <2>1. Head(q).workspaceId # w => 1 \notin About(q, w)
    BY <1>1 DEF About
  <2>2. QED
    BY ONLY <1>2, <1>3, <2>1 DEF Values
<1>6. About(q, w) \subseteq Nat
  BY <1>1 DEF About
<1>7. About(q, w) = {1} => Values(t, w) = {}
  <2> SUFFICES ASSUME About(q, w) = {1}, NEW i \in About(t, w)
               PROVE  FALSE
    BY DEF Values
  <2>1. i \in Nat \ {0} /\ i + 1 = 1
    BY ONLY <1>1, <1>2, About(q, w) = {1}, i \in About(t, w) DEF About
  <2>2. QED
    BY <2>1
<1>8. 1 \in DOMAIN q /\ Head(q) = q[1]
  BY <1>1
<1>9. QED
  BY ONLY <1>2, <1>3, <1>4, <1>5, <1>6, <1>7, <1>8

LEMMA Emptied ==
  ASSUME NEW S, NEW q \in Seq(S), NEW i \in DOMAIN q, NEW w
  PROVE  /\ q[i].workspaceId # w => Values(RemoveAt(q, i), w) = Values(q, w)
         /\ q[i].workspaceId = w => q[i].vertices \in Values(q, w) /\ i \in About(q, w)
         /\ About(q, w) = {i} => Values(RemoveAt(q, i), w) = {}
<1> DEFINE r == RemoveAt(q, i)
<1>1. /\ DOMAIN r = 1 .. Len(q) - 1
      /\ \A j \in 1 .. Len(q) - 1 : r[j] = IF j < i THEN q[j] ELSE q[j + 1]
      /\ DOMAIN q = 1 .. Len(q) /\ Len(q) \in Nat /\ i \in 1 .. Len(q)
  <2>1. DOMAIN q = 1 .. Len(q) /\ Len(q) \in Nat /\ i \in 1 .. Len(q)
    OBVIOUS
  <2>2. /\ DOMAIN r = 1 .. Len(q) - 1
        /\ \A j \in 1 .. Len(q) - 1 : r[j] = IF j < i THEN q[j] ELSE q[j + 1]
    BY Removed
  <2>3. QED
    BY <2>1, <2>2
<1> HIDE DEF r
<1>2. ASSUME NEW j \in About(r, w)
      PROVE  \E k \in About(q, w) : k # i /\ r[j] = q[k]
  <2>1. j \in 1 .. Len(q) - 1 /\ r[j].workspaceId = w
    BY <1>1 DEF About
  <2>2. CASE j < i
    BY <1>1, <2>1, <2>2 DEF About
  <2>3. CASE ~(j < i)
    <3>1. j + 1 \in 1 .. Len(q) /\ j + 1 # i /\ r[j] = q[j + 1]
      BY <1>1, <2>1, <2>3
    <3>2. QED
      BY <1>1, <2>1, <3>1 DEF About
  <2>4. QED
    BY <2>2, <2>3
<1>3. ASSUME NEW k \in About(q, w), k # i
      PROVE  \E j \in About(r, w) : r[j] = q[k]
  <2>1. k \in 1 .. Len(q) /\ q[k].workspaceId = w
    BY <1>1 DEF About
  <2>2. CASE k < i
    <3>1. k \in 1 .. Len(q) - 1 /\ r[k] = q[k]
      BY <1>1, <2>1, <2>2
    <3>2. QED
      BY <1>1, <2>1, <3>1 DEF About
  <2>3. CASE ~(k < i)
    <3>1. k - 1 \in 1 .. Len(q) - 1 /\ ~(k - 1 < i) /\ (k - 1) + 1 = k
      BY <1>1, <1>3, <2>1, <2>3
    <3>2. r[k - 1] = q[k]
      BY <1>1, <3>1
    <3>3. QED
      BY <1>1, <2>1, <3>1, <3>2 DEF About
  <2>4. QED
    BY <2>2, <2>3
<1>4. q[i].workspaceId # w => Values(r, w) = Values(q, w)
  <2> SUFFICES ASSUME q[i].workspaceId # w
               PROVE  Values(r, w) = Values(q, w)
    OBVIOUS
  <2>1. i \notin About(q, w)
    BY DEF About
  <2>2. QED
    BY <1>2, <1>3, <2>1 DEF Values
<1>5. q[i].workspaceId = w => q[i].vertices \in Values(q, w) /\ i \in About(q, w)
  BY DEF About, Values
<1>6. About(q, w) = {i} => Values(r, w) = {}
  BY <1>2 DEF Values
<1>7. QED
  BY <1>4, <1>5, <1>6 DEF r

-----------------------------------------------------------------------------
(* What is in motion.                                                      *)

LEMMA FewElements ==
  ASSUME NEW S, IsFiniteSet(S)
  PROVE  /\ Cardinality(S) \in Nat
         /\ Cardinality(S) = 0 <=> S = {}
         /\ Cardinality(S) <= 1 => \A x, y \in S : x = y
<1>1. Cardinality(S) \in Nat /\ (Cardinality(S) = 0 <=> S = {})
  BY FS_CardinalityType, FS_EmptySet
<1>2. Cardinality(S) = 1 => \E x : S = {x}
  BY FS_Singleton
<1>3. QED
  BY <1>1, <1>2

LEMMA MotionIsFinite ==
  ASSUME Types, NEW w \in Workspaces
  PROVE  \A S \in {Saving(w), Loading(w), About(socket, w), About(pending, w), About(toPage, w)} : IsFiniteSet(S)
<1>1. IsFiniteSet(Ids) /\ IsFiniteSet(Loads)
  BY FS_Interval, IdTypes DEF Ids, Loads
<1>2. IsFiniteSet(Saving(w)) /\ IsFiniteSet(Loading(w))
  <2>1. Saving(w) \subseteq Ids /\ Loading(w) \subseteq Loads
    BY DEF Saving, Loading
  <2>2. QED
    BY <1>1, <2>1, FS_Subset
<1>3. ASSUME NEW S, NEW q \in Seq(S)
      PROVE  IsFiniteSet(About(q, w))
  <2>1. IsFiniteSet(1 .. Len(q)) /\ About(q, w) \subseteq 1 .. Len(q)
    BY FS_Interval DEF About
  <2>2. QED
    BY <2>1, FS_Subset
<1>4. IsFiniteSet(About(socket, w)) /\ IsFiniteSet(About(pending, w)) /\ IsFiniteSet(About(toPage, w))
  BY <1>3 DEF Types
<1>5. QED
  BY <1>2, <1>4

LEMMA MotionIsOne ==
  \A w \in Workspaces : Types =>
    /\ Motion(w) \in Nat
    /\ Motion(w) <= 1 => Solo(w)
    /\ Motion(w) = 0 => /\ Saving(w) = {} /\ Loading(w) = {}
                        /\ About(socket, w) = {} /\ About(pending, w) = {} /\ About(toPage, w) = {}
<1> SUFFICES ASSUME NEW w \in Workspaces, Types
             PROVE  /\ Motion(w) \in Nat
                    /\ Motion(w) <= 1 => Solo(w)
                    /\ Motion(w) = 0 => /\ Saving(w) = {} /\ Loading(w) = {}
                                        /\ About(socket, w) = {} /\ About(pending, w) = {} /\ About(toPage, w) = {}
  OBVIOUS
<1> DEFINE A == Saving(w)
           B == Loading(w)
           C == About(socket, w)
           D == About(pending, w)
           E == About(toPage, w)
<1>1. Motion(w) = Cardinality(A) + Cardinality(B) + Cardinality(C) + Cardinality(D) + Cardinality(E)
  BY DEF Motion, Saving, Loading
<1>2. IsFiniteSet(A) /\ IsFiniteSet(B) /\ IsFiniteSet(C) /\ IsFiniteSet(D) /\ IsFiniteSet(E)
  BY MotionIsFinite
<1>3. Solo(w) <=> /\ \A S \in {A, B, C, D, E} : \A x, y \in S : x = y
                  /\ A # {} => B = {} /\ C = {} /\ D = {} /\ E = {}
                  /\ B # {} => C = {} /\ D = {} /\ E = {}
                  /\ C # {} => D = {} /\ E = {}
                  /\ D # {} => E = {}
  BY DEF Solo
<1> HIDE DEF A, B, C, D, E
<1> DEFINE a == Cardinality(A)
           b == Cardinality(B)
           c == Cardinality(C)
           d == Cardinality(D)
           e == Cardinality(E)
<1>4. a \in Nat /\ b \in Nat /\ c \in Nat /\ d \in Nat /\ e \in Nat
  BY <1>2, FewElements
<1>5. (a = 0 <=> A = {}) /\ (b = 0 <=> B = {}) /\ (c = 0 <=> C = {}) /\ (d = 0 <=> D = {}) /\ (e = 0 <=> E = {})
  BY <1>2, FewElements
<1>6. \A S \in {A, B, C, D, E} : Cardinality(S) <= 1 => \A x, y \in S : x = y
  BY <1>2, FewElements
<1>7. Motion(w) = a + b + c + d + e
  BY <1>1
<1> HIDE DEF a, b, c, d, e
<1>8. Motion(w) <= 1 => a <= 1 /\ b <= 1 /\ c <= 1 /\ d <= 1 /\ e <= 1
  BY <1>4, <1>7
<1>9. Motion(w) <= 1 => /\ a # 0 => b = 0 /\ c = 0 /\ d = 0 /\ e = 0
                        /\ b # 0 => c = 0 /\ d = 0 /\ e = 0
                        /\ c # 0 => d = 0 /\ e = 0
                        /\ d # 0 => e = 0
  BY <1>4, <1>7
<1>10. Motion(w) <= 1 => Solo(w)
  BY <1>3, <1>5, <1>6, <1>8, <1>9 DEF a, b, c, d, e
<1>11. Motion(w) \in Nat /\ (Motion(w) = 0 => a = 0 /\ b = 0 /\ c = 0 /\ d = 0 /\ e = 0)
  BY <1>4, <1>7
<1>12. QED
  BY <1>5, <1>10, <1>11 DEF A, B, C, D, E

LEMMA MotionIsOneNext ==
  (\A w \in Workspaces : Types =>
    /\ Motion(w) \in Nat
    /\ Motion(w) <= 1 => Solo(w)
    /\ Motion(w) = 0 => /\ Saving(w) = {} /\ Loading(w) = {}
                        /\ About(socket, w) = {} /\ About(pending, w) = {} /\ About(toPage, w) = {})'
BY MotionIsOne, PTL

\* What a step disturbs
LEMMA Undisturbed ==
  ASSUME NEW healed, NEW lost, Types, Types', Disturbs(healed, lost), NEW w \in Workspaces, w \notin disturbed'
  PROVE  Solo(w)' /\ (w \in disturbed => w \in healed) /\ w \notin lost
<1>1. ~(Motion(w)' > 1) /\ w \notin (disturbed \ healed) \cup lost
  BY DEF Disturbs
<1>2. Motion(w)' \in Nat /\ (Motion(w)' <= 1 => Solo(w)')
  BY MotionIsOneNext
<1>3. QED
  BY <1>1, <1>2

-----------------------------------------------------------------------------
(* Saves and loads.                                                        *)

\* What updates and undos do, whatever they ask for
Asks == \E c \in Changes, status \in {"asked", "threw"} :
          /\ Ask(c, status)
          /\ UNCHANGED <<server, gone, current, shown, triggered, subtitle, workerVars, messageVars, late>>
          /\ Disturbs({}, {})

LEMMA Asking ==
  ASSUME Types, (\E c \in UserChanges : UpdateWorkspace(c) \/ UpdateThrows(c)) \/ PerformUndo \/ PerformRedo
  PROVE  Asks
<1> USE DEF workerVars, messageVars
<1>1. ASSUME NEW c \in UserChanges, UpdateWorkspace(c) \/ UpdateThrows(c)
      PROVE  Asks
  BY <1>1, ContentTypes DEF UpdateWorkspace, UpdateThrows, Asks
<1>2. ASSUME NEW stack \in [Workspaces -> Seq(Actions)], stack[current] # <<>>
      PROVE  stack[current][Len(stack[current])].undo \in Changes
  <2>1. stack[current] \in Seq(Actions)
    BY DEF Types
  <2>2. stack[current][Len(stack[current])] \in Actions
    BY <1>2, <2>1
  <2>3. QED
    BY <2>2 DEF Actions
<1>3. undos \in [Workspaces -> Seq(Actions)] /\ redos \in [Workspaces -> Seq(Actions)]
  BY DEF Types
<1>4. CASE PerformUndo
  <2>1. undos[current][Len(undos[current])].undo \in Changes
    BY <1>2, <1>3, <1>4 DEF PerformUndo, Perform
  <2>2. QED
    BY <1>4, <2>1 DEF PerformUndo, Perform, Asks
<1>5. CASE PerformRedo
  <2>1. redos[current][Len(redos[current])].undo \in Changes
    BY <1>2, <1>3, <1>5 DEF PerformRedo, Perform
  <2>2. QED
    BY <1>5, <2>1 DEF PerformRedo, Perform, Asks
<1>6. QED
  BY <1>1, <1>4, <1>5

\* A save that is asked for was none before, and the others stay
LEMMA Asked ==
  ASSUME Types, AskedInv, Asks
  PROVE  /\ asked' = asked + 1 /\ asked' \in Ids /\ events' = events + 1
         /\ saves[asked'].status = "none" /\ saves[asked'].before = {}
         /\ saves'[asked'].status \in {"asked", "threw"} /\ saves'[asked'].before = {}
         /\ saves'[asked'].change \in Changes /\ saves'[asked'].workspaceId \in Workspaces
         /\ \A i \in Ids : i # asked' => saves'[i] = saves[i]
         /\ buffers' = buffers \cup {asked'}
         /\ UNCHANGED <<server, gone, current, shown, triggered, subtitle, workerVars, messageVars, late>>
         /\ Disturbs({}, {})
<1>1. PICK c \in Changes, status \in {"asked", "threw"} :
        /\ Ask(c, status)
        /\ UNCHANGED <<server, gone, current, shown, triggered, subtitle, workerVars, messageVars, late>>
        /\ Disturbs({}, {})
  BY DEF Asks
<1>2. status \in SaveStatuses
  BY DEF SaveStatuses
<1>3. /\ asked' = asked + 1 /\ asked' \in Ids /\ events' = events + 1
      /\ buffers' = buffers \cup {asked'}
      /\ saves'[asked'] = Save(status, c, current, Len(publicApi))
      /\ \A i \in Ids : i # asked' => saves'[i] = saves[i]
  BY <1>1, <1>2, AskTypes
<1>4. saves[asked'].status = "none" /\ saves[asked'].before = {}
  <2>1. asked \in Nat /\ asked' > asked
    BY <1>3 DEF Types
  <2>2. saves[asked'].status = "none"
    BY <1>3, <2>1 DEF AskedInv
  <2>3. saves[asked'].status \notin {"applied", "aborted", "answered", "told"}
    BY <2>2
  <2>4. QED
    BY <1>3, <2>2, <2>3 DEF AskedInv
<1>5. current \in Workspaces
  BY DEF Types
<1>6. QED
  BY <1>1, <1>3, <1>4, <1>5 DEF Save

\* What a save that is started does to the others
LEMMA Started ==
  ASSUME Types, AskedInv, NEW id \in Ids, StartSave(id)
  PROVE  /\ saves'[id].status \in {"threw", "answered", "sent"}
         /\ saves'[id].change = saves[id].change /\ saves'[id].before = saves[id].before /\ saves[id].before = {}
         /\ saves'[id].workspaceId \in Workspaces
         /\ \A i \in Ids : i # id =>
              /\ saves'[i].change = saves[i].change /\ saves'[i].before = saves[i].before
              /\ saves'[i].workspaceId = saves[i].workspaceId
              /\ saves'[i].status = CASE saves[i].status = "sent" -> "orphan"
                                      [] saves[i].status \in {"applied", "refused"} -> "aborted"
                                      [] OTHER -> saves[i].status
         /\ \/ toPage' = toPage /\ saves'[id].status # "answered"
            \/ toPage' = Append(toPage, Completed(id, FALSE, TRUE)) /\ saves'[id].status = "answered"
         /\ Disturbs({}, {saves[i].workspaceId : i \in {j \in Ids : saves[j].status = "applied"}})
<1> DEFINE w == Head(publicApi)
           To(status) == saves' = [Aborted(saves) EXCEPT ![id].status = status, ![id].workspaceId = w]
<1>1. w \in Workspaces /\ saves[id].status = "asked"
  BY DEF Types, StartSave
<1>2. \/ To("threw") /\ UNCHANGED toPage
      \/ To("answered") /\ toPage' = Append(toPage, Completed(id, FALSE, TRUE))
      \/ To("sent") /\ UNCHANGED toPage
  BY DEF StartSave
<1>3. \A i \in Ids : saves[i] \in SaveRecords
  BY DEF Types
<1>4. /\ Aborted(saves)[id] = saves[id]
      /\ \A i \in Ids :
           /\ Aborted(saves)[i].change = saves[i].change /\ Aborted(saves)[i].before = saves[i].before
           /\ Aborted(saves)[i].workspaceId = saves[i].workspaceId
           /\ Aborted(saves)[i].status = CASE saves[i].status = "sent" -> "orphan"
                                           [] saves[i].status \in {"applied", "refused"} -> "aborted"
                                           [] OTHER -> saves[i].status
  BY <1>1, <1>3 DEF Aborted, SaveRecords
<1>5. Aborted(saves) \in [Ids -> SaveRecords]
  BY SaveTypes
<1>6. saves[id].before = {}
  BY <1>1 DEF AskedInv
<1>7. ASSUME NEW status, To(status)
      PROVE  /\ saves'[id].status = status
             /\ saves'[id].change = saves[id].change /\ saves'[id].before = saves[id].before
             /\ saves'[id].workspaceId \in Workspaces
             /\ \A i \in Ids : i # id => saves'[i] = Aborted(saves)[i]
  <2> HIDE DEF w
  <2> DEFINE s == Aborted(saves)
  <2>1. s \in [Ids -> SaveRecords] /\ s[id] = saves[id] /\ s[id] \in SaveRecords
    BY <1>4, <1>5
  <2>2. saves' = [s EXCEPT ![id].status = status, ![id].workspaceId = w]
    BY <1>7
  <2> HIDE DEF s
  <2>3. /\ saves'[id].status = status
        /\ saves'[id].change = saves[id].change /\ saves'[id].before = saves[id].before
        /\ saves'[id].workspaceId = w
        /\ \A i \in Ids : i # id => saves'[i] = s[i]
    BY <2>1, <2>2 DEF SaveRecords
  <2>4. QED
    BY <1>1, <2>3 DEF s
<1> HIDE DEF To
<1>8. Disturbs({}, {saves[i].workspaceId : i \in {j \in Ids : saves[j].status = "applied"}})
  BY DEF StartSave
<1>9. PICK status \in {"threw", "answered", "sent"} :
        /\ To(status)
        /\ \/ toPage' = toPage /\ status # "answered"
           \/ toPage' = Append(toPage, Completed(id, FALSE, TRUE)) /\ status = "answered"
  BY <1>2
<1>10. QED
  BY <1>4, <1>6, <1>7, <1>8, <1>9, ZenonT(30)

\* What the server does with a save
LEMMA Served ==
  ASSUME Types, AskedInv, NEW id \in Ids, Serve(id)
  PROVE  /\ saves[id].status \in {"sent", "orphan"}
         /\ saves[id].workspaceId \in Workspaces /\ saves[id].change \in Changes
         /\ saves'[id].change = saves[id].change /\ saves'[id].workspaceId = saves[id].workspaceId
         /\ \A i \in Ids : i # id => saves'[i] = saves[i]
         /\ UNCHANGED <<gone, pageVars, asked, workerVars, messageVars, events, late>>
         /\ \/ /\ saves[id].workspaceId \notin gone
               /\ server' = [server EXCEPT ![saves[id].workspaceId] = Applied(@, saves[id].change)]
               /\ saves'[id].status = IF saves[id].status = "orphan" THEN "aborted" ELSE "applied"
               /\ saves'[id].before = IF saves[id].workspaceId \in disturbed THEN saves[id].before
                                      ELSE {server[saves[id].workspaceId][saves[id].change.vertex]}
               /\ Disturbs({}, IF saves[id].status = "orphan" THEN {saves[id].workspaceId} ELSE {})
            \/ /\ server' = server
               /\ saves'[id].status \in {"aborted", "refused"} /\ saves'[id].before = saves[id].before
               /\ Disturbs({}, {})
<1> DEFINE w == saves[id].workspaceId
           c == saves[id].change
           orphan == saves[id].status = "orphan"
<1>1. saves[id].status \in {"sent", "orphan"}
  BY DEF Serve
<1>2. w \in Workspaces /\ c \in Changes /\ saves[id] \in SaveRecords /\ saves \in [Ids -> SaveRecords]
  BY <1>1, SaveKnown DEF Types
<1>3. \/ /\ w \notin gone
         /\ server' = [server EXCEPT ![w] = Applied(@, c)]
         /\ saves' = [saves EXCEPT
              ![id].status = IF orphan THEN "aborted" ELSE "applied",
              ![id].before = IF w \in disturbed THEN @ ELSE {server[w][c.vertex]}]
         /\ Disturbs({}, IF orphan THEN {w} ELSE {})
      \/ /\ server' = server
         /\ saves' = [saves EXCEPT ![id].status = IF orphan THEN "aborted" ELSE "refused"]
         /\ Disturbs({}, {})
  BY DEF Serve
<1>4. UNCHANGED <<gone, pageVars, asked, workerVars, messageVars, events, late>>
  BY DEF Serve, boundVars
<1>5. CASE /\ w \notin gone
           /\ server' = [server EXCEPT ![w] = Applied(@, c)]
           /\ saves' = [saves EXCEPT
                ![id].status = IF orphan THEN "aborted" ELSE "applied",
                ![id].before = IF w \in disturbed THEN @ ELSE {server[w][c.vertex]}]
           /\ Disturbs({}, IF orphan THEN {w} ELSE {})
  <2> HIDE DEF orphan
  <2>1. /\ saves'[id].change = c /\ saves'[id].workspaceId = w
        /\ \A i \in Ids : i # id => saves'[i] = saves[i]
        /\ saves'[id].status = IF orphan THEN "aborted" ELSE "applied"
        /\ saves'[id].before = IF w \in disturbed THEN saves[id].before ELSE {server[w][c.vertex]}
    BY <1>2, <1>5 DEF SaveRecords
  <2>2. QED
    BY <1>1, <1>2, <1>4, <1>5, <2>1 DEF orphan
<1>6. CASE /\ server' = server
           /\ saves' = [saves EXCEPT ![id].status = IF orphan THEN "aborted" ELSE "refused"]
           /\ Disturbs({}, {})
  <2> HIDE DEF orphan
  <2>1. /\ saves'[id].change = c /\ saves'[id].workspaceId = w /\ saves'[id].before = saves[id].before
        /\ \A i \in Ids : i # id => saves'[i] = saves[i]
        /\ saves'[id].status = IF orphan THEN "aborted" ELSE "refused"
    BY <1>2, <1>6 DEF SaveRecords
  <2>2. saves'[id].status \in {"aborted", "refused"}
    BY <2>1
  <2>3. QED
    BY <1>1, <1>2, <1>4, <1>6, <2>1, <2>2
<1>7. QED
  BY <1>3, <1>5, <1>6

\* What an answer does
LEMMA Answered ==
  ASSUME Types, AskedInv, NEW id \in Ids, Answer(id)
  PROVE  /\ saves[id].status \in {"applied", "refused"}
         /\ saves[id].workspaceId \in Workspaces /\ saves[id].change \in Changes
         /\ saves' = [saves EXCEPT ![id].status = "answered"]
         /\ saves'[id] = [saves[id] EXCEPT !.status = "answered"] /\ saves'[id].status = "answered"
         /\ saves'[id].change = saves[id].change /\ saves'[id].workspaceId = saves[id].workspaceId
         /\ saves'[id].before = saves[id].before
         /\ \A i \in Ids : i # id => saves'[i] = saves[i]
         /\ \E saved \in BOOLEAN : toPage' = Append(toPage, Completed(id, saved, saved))
         /\ IF saves[id].status = "applied" /\ saves[id].workspaceId \in DOMAIN store
            THEN WasChangedRemotely(saves[id].workspaceId, Applied(store[saves[id].workspaceId], saves[id].change))
            ELSE UNCHANGED pending
<1> DEFINE w == saves[id].workspaceId
           updates == saves[id].status = "applied" /\ w \in DOMAIN store
<1>1. /\ saves[id].status \in {"applied", "refused"}
      /\ saves' = [saves EXCEPT ![id].status = "answered"]
      /\ toPage' = Append(toPage, Completed(id, updates, updates))
      /\ IF updates THEN WasChangedRemotely(w, Applied(store[w], saves[id].change)) ELSE UNCHANGED pending
  BY DEF Answer
<1>2. w \in Workspaces /\ saves[id].change \in Changes /\ saves[id] \in SaveRecords /\ saves \in [Ids -> SaveRecords]
  BY <1>1, SaveKnown DEF Types
<1>3. /\ saves'[id] = [saves[id] EXCEPT !.status = "answered"] /\ saves'[id].status = "answered"
      /\ saves'[id].change = saves[id].change /\ saves'[id].workspaceId = saves[id].workspaceId
      /\ saves'[id].before = saves[id].before
      /\ \A i \in Ids : i # id => saves'[i] = saves[i]
  BY <1>1, <1>2 DEF SaveRecords
<1>4. \E saved \in BOOLEAN : saved = updates
  OBVIOUS
<1>5. \E saved \in BOOLEAN : toPage' = Append(toPage, Completed(id, saved, saved))
  <2> HIDE DEF updates
  <2>1. QED
    BY <1>1, <1>4
<1>6. QED
  BY <1>1, <1>2, <1>3, <1>5

\* What the page does when it hears of a save
LEMMA Heard ==
  ASSUME Types, AskedInv, toPage # <<>>, SaveCompleted(Head(toPage)), Head(toPage).type = "dataRequestCompleted"
  PROVE  /\ Head(toPage).id \in Ids /\ saves[Head(toPage).id].status \in {"answered", "told"}
         /\ Head(toPage).workspaceId = NoWorkspace
         /\ \A i \in Ids : i # Head(toPage).id => saves'[i] = saves[i]
         /\ saves'[Head(toPage).id] = [saves[Head(toPage).id] EXCEPT !.status = "told"]
         /\ saves'[Head(toPage).id].status = "told"
         /\ saves'[Head(toPage).id].change = saves[Head(toPage).id].change
         /\ saves'[Head(toPage).id].workspaceId = saves[Head(toPage).id].workspaceId
         /\ saves'[Head(toPage).id].before = saves[Head(toPage).id].before
<1> DEFINE m == Head(toPage)
<1>1. m \in Messages /\ m = toPage[1] /\ 1 \in DOMAIN toPage
  BY QueueTypes
<1>2. m.id \in Ids /\ m.workspaceId = NoWorkspace
  BY <1>1, MessageKnown
<1>3. saves[m.id].status \in {"answered", "told"}
  BY <1>1 DEF AskedInv
<1>4. saves' = [saves EXCEPT ![m.id].status = "told"]
  BY DEF SaveCompleted
<1> HIDE DEF m
<1>5. saves \in [Ids -> SaveRecords] /\ saves[m.id] \in SaveRecords
  BY <1>2 DEF Types
<1>6. /\ \A i \in Ids : i # m.id => saves'[i] = saves[i]
      /\ saves'[m.id] = [saves[m.id] EXCEPT !.status = "told"]
      /\ saves'[m.id].status = "told"
      /\ saves'[m.id].change = saves[m.id].change
      /\ saves'[m.id].workspaceId = saves[m.id].workspaceId
      /\ saves'[m.id].before = saves[m.id].before
  BY <1>2, <1>4, <1>5 DEF SaveRecords
<1>7. QED
  BY <1>2, <1>3, <1>6 DEF m

\* The steps that leave saves alone
Quiet ==
  /\ UNCHANGED requestVars /\ events' \in {events, events + 1}
  /\ \/ toPage' = toPage
     \/ \E w \in Workspaces, vertices \in Contents, type \in {"workspaceUpdated", "workspaceLoaded"} :
          toPage' = Append(toPage, Told(type, w, vertices))

LEMMA QuietSteps ==
  ASSUME Types, LoadInv,
         \/ UNCHANGED vars \/ WorkspaceChange \/ PendingNext \/ LoadNext
         \/ \E id \in Ids : BufferFires(id)
         \/ \E w \in Workspaces : SwitchWorkspace(w) \/ WorkspaceDelete(w)
         \/ \E w \in Workspaces, c \in UserChanges : RemoteChange(w, c)
  PROVE  Quiet
<1> USE DEF vars, pageVars, workerVars, messageVars, requestVars, boundVars, Quiet
<1>1. CASE UNCHANGED vars \/ WorkspaceChange \/ \E id \in Ids : BufferFires(id)
  BY <1>1 DEF WorkspaceChange, BufferFires
<1>2. CASE \E w \in Workspaces : SwitchWorkspace(w) \/ WorkspaceDelete(w)
  BY <1>2 DEF SwitchWorkspace, WorkspaceDelete, Load, Event
<1>3. CASE \E w \in Workspaces, c \in UserChanges : RemoteChange(w, c)
  BY <1>3 DEF RemoteChange, Event
<1>4. ASSUME NEW i \in DOMAIN pending, Updated(i)
      PROVE  Quiet
  <2>1. pending[i] \in States
    BY DEF Types
  <2>2. pending[i].workspaceId \in Workspaces /\ pending[i].vertices \in Contents
    BY <2>1 DEF States
  <2>3. QED
    BY <1>4, <2>2 DEF Updated
<1>5. ASSUME NEW i \in DOMAIN pending, UpdateDropped(i)
      PROVE  Quiet
  BY <1>5 DEF UpdateDropped
<1>6. ASSUME NEW l \in Loads, GetWorkspace(l) \/ LoadFails(l)
      PROVE  Quiet
  BY <1>6 DEF GetWorkspace, LoadFails
<1>7. ASSUME NEW l \in Loads, WorkspaceGot(l)
      PROVE  Quiet
  <2>1. loads[l].vertices \in Contents /\ loads[l].workspaceId \in Workspaces
    BY <1>7 DEF Types, LoadRecords, LoadInv, WorkspaceGot
  <2>2. QED
    BY <1>7, <2>1 DEF WorkspaceGot
<1>8. QED
  BY <1>1, <1>2, <1>3, <1>4, <1>5, <1>6, <1>7 DEF PendingNext, LoadNext

\* The messages a step leaves are old ones, or one that is new
LEMMA MessageAdded ==
  ASSUME Types, NEW m \in Messages, toPage' = Append(toPage, m)
  PROVE  /\ \A k \in DOMAIN toPage' : \/ k \in DOMAIN toPage /\ toPage'[k] = toPage[k]
                                      \/ toPage'[k] = m
         /\ \A k \in DOMAIN toPage : k \in DOMAIN toPage' /\ toPage'[k] = toPage[k]
         /\ \E k \in DOMAIN toPage' : toPage'[k] = m
<1>1. toPage \in Seq(Messages)
  BY DEF Types
<1>2. /\ DOMAIN toPage = 1 .. Len(toPage) /\ Len(toPage) \in Nat
      /\ DOMAIN toPage' = 1 .. Len(toPage) + 1
      /\ toPage'[Len(toPage) + 1] = m
      /\ \A i \in 1 .. Len(toPage) : toPage'[i] = toPage[i]
  BY <1>1, Appended
<1>3. QED
  BY <1>2

LEMMA AskedStays == Types /\ AskedInv /\ LoadInv /\ [Next]_vars => AskedInv'
<1> SUFFICES ASSUME Types, AskedInv, LoadInv, [Next]_vars
             PROVE  AskedInv'
  OBVIOUS
<1>1. asked \in Nat /\ events \in Nat /\ asked <= events /\ Ids \subseteq Nat
  BY IdTypes DEF Types, AskedInv
<1>2. \A k \in DOMAIN toPage :
        /\ toPage[k] \in Messages
        /\ toPage[k].type = "dataRequestCompleted" =>
             toPage[k].id \in Ids /\ saves[toPage[k].id].status \in {"answered", "told"}
  BY MessageKnown DEF Types, AskedInv
<1>3. ASSUME asked' = asked, events' \in {events, events + 1},
             \A i \in Ids : /\ saves'[i].status = "none" <=> saves[i].status = "none"
                            /\ saves[i].status \in {"answered", "told"} => saves'[i].status \in {"answered", "told"}
                            /\ saves'[i].change = saves[i].change
                            /\ saves[i].status # "none" => saves'[i].workspaceId \in Workspaces
                            /\ saves'[i].before # {} =>
                                 saves'[i].status \in {"applied", "aborted", "answered", "told"},
             \A k \in DOMAIN toPage' : \/ \E j \in DOMAIN toPage : toPage'[k] = toPage[j]
                                       \/ toPage'[k].type # "dataRequestCompleted"
                                       \/ saves'[toPage'[k].id].status = "answered"
      PROVE  AskedInv'
  <2>1. asked' <= events'
    BY <1>1, <1>3
  <2>2. \A i \in Ids :
          /\ saves'[i].status = "none" <=> i > asked'
          /\ i <= asked' => saves'[i].change \in Changes /\ saves'[i].workspaceId \in Workspaces
          /\ saves'[i].before # {} => saves'[i].status \in {"applied", "aborted", "answered", "told"}
    BY <1>1, <1>3 DEF AskedInv
  <2>3. \A k \in DOMAIN toPage' :
          toPage'[k].type = "dataRequestCompleted" => saves'[toPage'[k].id].status \in {"answered", "told"}
    BY <1>2, <1>3
  <2>4. QED
    BY <2>1, <2>2, <2>3 DEF AskedInv
<1>4. \A i \in Ids : saves[i].status # "none" => saves[i].workspaceId \in Workspaces
  BY SaveKnown
<1>5. CASE Quiet
  <2>1. \A k \in DOMAIN toPage' : \/ \E j \in DOMAIN toPage : toPage'[k] = toPage[j]
                                  \/ toPage'[k].type # "dataRequestCompleted"
    <3>1. CASE toPage' = toPage
      BY <3>1
    <3>2. ASSUME NEW w \in Workspaces, NEW vertices \in Contents, NEW type \in {"workspaceUpdated", "workspaceLoaded"},
                 toPage' = Append(toPage, Told(type, w, vertices))
          PROVE  \A k \in DOMAIN toPage' : \/ \E j \in DOMAIN toPage : toPage'[k] = toPage[j]
                                           \/ toPage'[k].type # "dataRequestCompleted"
      <4>1. Told(type, w, vertices) \in Messages /\ Told(type, w, vertices).type # "dataRequestCompleted"
        BY MessageTypes DEF Told, Message
      <4>2. QED
        BY <3>2, <4>1, MessageAdded
    <3>3. QED
      BY <1>5, <3>1, <3>2 DEF Quiet
  <2>2. asked' = asked /\ saves' = saves /\ events' \in {events, events + 1}
    BY <1>5 DEF Quiet, requestVars
  <2>3. \A i \in Ids : /\ saves'[i].status = "none" <=> saves[i].status = "none"
                       /\ saves[i].status \in {"answered", "told"} => saves'[i].status \in {"answered", "told"}
                       /\ saves'[i].change = saves[i].change
                       /\ saves[i].status # "none" => saves'[i].workspaceId \in Workspaces
                       /\ saves'[i].before # {} =>
                            saves'[i].status \in {"applied", "aborted", "answered", "told"}
    BY <1>4, <2>2 DEF AskedInv
  <2>4. QED
    BY <1>3, <2>1, <2>2, <2>3
<1>6. CASE Asks
  <2>1. /\ asked' = asked + 1 /\ asked' \in Ids /\ events' = events + 1
        /\ saves'[asked'].status \in {"asked", "threw"} /\ saves'[asked'].before = {}
        /\ saves'[asked'].change \in Changes /\ saves'[asked'].workspaceId \in Workspaces
        /\ saves[asked'].status = "none"
        /\ \A i \in Ids : i # asked' => saves'[i] = saves[i]
        /\ toPage' = toPage
    BY <1>6, Asked DEF messageVars
  <2>2. \A i \in Ids :
          /\ saves'[i].status = "none" <=> i > asked'
          /\ i <= asked' => saves'[i].change \in Changes /\ saves'[i].workspaceId \in Workspaces
          /\ saves'[i].before # {} => saves'[i].status \in {"applied", "aborted", "answered", "told"}
    <3> SUFFICES ASSUME NEW i \in Ids
                 PROVE  /\ saves'[i].status = "none" <=> i > asked'
                        /\ i <= asked' => saves'[i].change \in Changes /\ saves'[i].workspaceId \in Workspaces
                        /\ saves'[i].before # {} => saves'[i].status \in {"applied", "aborted", "answered", "told"}
      OBVIOUS
    <3>1. CASE i = asked'
      <4>1. ~(i > asked')
        BY <1>1, <2>1, <3>1
      <4>2. QED
        BY <2>1, <3>1, <4>1
    <3>2. CASE i # asked'
      <4>1. i > asked' <=> i > asked
        BY <1>1, <2>1, <3>2
      <4>2. i <= asked' => i <= asked
        BY <1>1, <2>1, <3>2
      <4>3. QED
        BY <2>1, <3>2, <4>1, <4>2 DEF AskedInv
    <3>3. QED
      BY <3>1, <3>2
  <2>3. \A k \in DOMAIN toPage' :
          toPage'[k].type = "dataRequestCompleted" => saves'[toPage'[k].id].status \in {"answered", "told"}
    BY <1>2, <2>1
  <2>4. asked' <= events'
    BY <1>1, <2>1
  <2>5. QED
    BY <2>2, <2>3, <2>4 DEF AskedInv
<1>7. CASE SetPublicApi
  <2>1. /\ saves' = [i \in Ids |-> [saves[i] EXCEPT !.posts = IF @ > 1 THEN @ - 1 ELSE @]]
        /\ asked' = asked /\ events' = events /\ toPage' = toPage
    BY <1>7 DEF SetPublicApi, messageVars, boundVars
  <2>2. \A i \in Ids : saves[i] \in SaveRecords
    BY DEF Types
  <2>3. \A i \in Ids : /\ saves'[i].status = saves[i].status /\ saves'[i].change = saves[i].change
                       /\ saves'[i].workspaceId = saves[i].workspaceId /\ saves'[i].before = saves[i].before
    BY <2>1, <2>2 DEF SaveRecords
  <2>4. \A i \in Ids : saves'[i].before # {} => saves'[i].status \in {"applied", "aborted", "answered", "told"}
    BY <2>3 DEF AskedInv
  <2>5. QED
    BY <1>3, <1>4, <2>1, <2>3, <2>4
<1>8. ASSUME NEW id \in Ids, StartSave(id)
      PROVE  AskedInv'
  <2>1. asked' = asked /\ events' = events
    BY <1>8 DEF StartSave, boundVars
  <2>2. saves[id].status = "asked"
    BY <1>8 DEF StartSave
  <2>3. /\ saves'[id].status \in {"threw", "answered", "sent"}
        /\ saves'[id].change = saves[id].change /\ saves'[id].before = saves[id].before /\ saves[id].before = {}
        /\ saves'[id].workspaceId \in Workspaces
        /\ \A i \in Ids : i # id =>
             /\ saves'[i].change = saves[i].change /\ saves'[i].before = saves[i].before
             /\ saves'[i].workspaceId = saves[i].workspaceId
             /\ saves'[i].status = CASE saves[i].status = "sent" -> "orphan"
                                     [] saves[i].status \in {"applied", "refused"} -> "aborted"
                                     [] OTHER -> saves[i].status
        /\ \/ toPage' = toPage /\ saves'[id].status # "answered"
           \/ toPage' = Append(toPage, Completed(id, FALSE, TRUE)) /\ saves'[id].status = "answered"
    BY <1>8, Started
  <2>4. \A k \in DOMAIN toPage' : \/ \E j \in DOMAIN toPage : toPage'[k] = toPage[j]
                                  \/ toPage'[k].type # "dataRequestCompleted"
                                  \/ saves'[toPage'[k].id].status = "answered"
    <3>1. CASE toPage' = toPage
      BY <3>1
    <3>2. CASE toPage' = Append(toPage, Completed(id, FALSE, TRUE)) /\ saves'[id].status = "answered"
      <4>1. Completed(id, FALSE, TRUE) \in Messages /\ Completed(id, FALSE, TRUE).id = id
        BY MessageTypes DEF Completed, Message
      <4>2. QED
        BY <3>2, <4>1, MessageAdded, ZenonT(30)
    <3>3. QED
      BY <2>3, <3>1, <3>2
  <2>5. ASSUME NEW i \in Ids
        PROVE  /\ saves'[i].status = "none" <=> saves[i].status = "none"
               /\ saves[i].status \in {"answered", "told"} => saves'[i].status \in {"answered", "told"}
               /\ saves'[i].change = saves[i].change
               /\ saves[i].status # "none" => saves'[i].workspaceId \in Workspaces
               /\ saves'[i].before # {} => saves'[i].status \in {"applied", "aborted", "answered", "told"}
    <3>1. CASE i = id
      BY <2>2, <2>3, <3>1
    <3>2. CASE i # id
      <4>1. saves[i].before # {} => saves[i].status \in {"applied", "aborted", "answered", "told"}
        BY DEF AskedInv
      <4>2. QED
        BY <1>4, <2>3, <3>2, <4>1
    <3>3. QED
      BY <3>1, <3>2
  <2>6. QED
    BY <1>3, <2>1, <2>4, <2>5
<1>9. ASSUME NEW id \in Ids, Serve(id)
      PROVE  AskedInv'
  <2>1. asked' = asked /\ events' = events /\ toPage' = toPage
    BY <1>9, Served DEF messageVars
  <2>2. /\ saves[id].status \in {"sent", "orphan"}
        /\ saves[id].workspaceId \in Workspaces
        /\ saves'[id].change = saves[id].change /\ saves'[id].workspaceId = saves[id].workspaceId
        /\ \A i \in Ids : i # id => saves'[i] = saves[i]
        /\ \/ saves'[id].status \in {"aborted", "applied"}
           \/ saves'[id].status \in {"aborted", "refused"} /\ saves'[id].before = saves[id].before
    BY <1>9, Served
  <2>3. \A i \in Ids : saves[i].before # {} => saves[i].status \in {"applied", "aborted", "answered", "told"}
    BY DEF AskedInv
  <2>4. QED
    BY <1>3, <1>4, <2>1, <2>2, <2>3
<1>10. ASSUME NEW id \in Ids, Answer(id)
       PROVE  AskedInv'
  <2>1. asked' = asked /\ events' = events
    BY <1>10 DEF Answer, boundVars
  <2>2. /\ saves[id].status \in {"applied", "refused"}
        /\ saves[id].workspaceId \in Workspaces /\ saves'[id].status = "answered"
        /\ saves'[id].change = saves[id].change /\ saves'[id].workspaceId = saves[id].workspaceId
        /\ \A i \in Ids : i # id => saves'[i] = saves[i]
    BY <1>10, Answered
  <2>3. \A i \in Ids : saves[i].before # {} => saves[i].status \in {"applied", "aborted", "answered", "told"}
    BY DEF AskedInv
  <2>4. PICK saved \in BOOLEAN : toPage' = Append(toPage, Completed(id, saved, saved))
    BY <1>10, Answered
  <2>5. Completed(id, saved, saved) \in Messages /\ Completed(id, saved, saved).id = id
    BY MessageTypes DEF Completed, Message
  <2>6. \A k \in DOMAIN toPage' : \/ \E j \in DOMAIN toPage : toPage'[k] = toPage[j]
                                  \/ saves'[toPage'[k].id].status = "answered"
    BY <2>2, <2>4, <2>5, MessageAdded
  <2>7. QED
    BY <1>3, <1>4, <2>1, <2>2, <2>3, <2>6
<1>11. CASE ProcessWorkerMessage
  <2>1. toPage # <<>> /\ toPage' = Tail(toPage) /\ asked' = asked /\ events' = events
    BY <1>11 DEF ProcessWorkerMessage, boundVars
  <2>2. \A k \in DOMAIN toPage' : \E j \in DOMAIN toPage : toPage'[k] = toPage[j]
    <3>1. /\ Len(toPage) \in Nat \ {0} /\ DOMAIN toPage = 1 .. Len(toPage)
          /\ DOMAIN toPage' = 1 .. Len(toPage) - 1
          /\ \A i \in 1 .. Len(toPage) - 1 : toPage'[i] = toPage[i + 1]
      BY <2>1, QueueTypes
    <3>2. \A i \in 1 .. Len(toPage) - 1 : i + 1 \in 1 .. Len(toPage)
      BY <3>1
    <3>3. QED
      BY <3>1, <3>2
  <2>3. \A i \in Ids : saves[i].before # {} => saves[i].status \in {"applied", "aborted", "answered", "told"}
    BY DEF AskedInv
  <2>4. CASE saves' = saves
    BY <1>3, <1>4, <2>1, <2>2, <2>3, <2>4
  <2>5. CASE Head(toPage).type = "dataRequestCompleted" /\ SaveCompleted(Head(toPage))
    <3> DEFINE id == Head(toPage).id
    <3>1. /\ id \in Ids /\ saves[id].status \in {"answered", "told"} /\ saves'[id].status = "told"
          /\ saves'[id].change = saves[id].change /\ saves'[id].workspaceId = saves[id].workspaceId
          /\ \A i \in Ids : i # id => saves'[i] = saves[i]
      BY <2>1, <2>5, Heard
    <3> HIDE DEF id
    <3>2. QED
      BY <1>3, <1>4, <2>1, <2>2, <2>3, <3>1
  <2>6. QED
    BY <1>11, <2>4, <2>5 DEF ProcessWorkerMessage, WorkspaceUpdated, WorkspaceLoaded
<1>12. QED
  BY <1>5, <1>6, <1>7, <1>8, <1>9, <1>10, <1>11, QuietSteps, Asking
     DEF Next, StartSaveNext, ServeNext, AnswerNext

\* What happens to the loads
LEMMA Called ==
  ASSUME Types, LoadInv, NEW w \in Workspaces, Load(w)
  PROVE  \E l \in Loads :
           /\ loads[l].status = "none" /\ loads'[l].status = "asked" /\ loads'[l].workspaceId = w
           /\ \A k \in Loads : k # l => loads'[k] = loads[k]
           /\ events' = events + 1
<1>1. PICK l \in Loads :
        /\ loads[l].status = "none"
        /\ loads' = [loads EXCEPT ![l].status = "asked", ![l].workspaceId = w]
        /\ events' = events + 1
  BY LoadCalled
<1>2. loads \in [Loads -> LoadRecords] /\ loads[l] \in LoadRecords
  BY DEF Types
<1>3. QED
  BY <1>1, <1>2 DEF LoadRecords

LEMMA LoadSteps ==
  ASSUME Types, LoadInv, NEW l \in Loads
  PROVE  /\ loads[l].status \notin {"none", "done"} => loads[l].workspaceId \in Workspaces
         /\ loads[l].vertices \in Contents
         /\ GetWorkspace(l) =>
              \E w \in Workspaces \ gone :
                /\ loads[l].status = "asked" /\ loads'[l].status = "got"
                /\ loads'[l].workspaceId = w /\ loads'[l].vertices = server[w]
                /\ \A k \in Loads : k # l => loads'[k] = loads[k]
                /\ loads[l].workspaceId \notin gone => w = loads[l].workspaceId
                /\ SetWorkspace(w, server[w])
                /\ UNCHANGED <<server, gone, pageVars, requestVars, publicApi, pending, messageVars, boundVars, late>>
                /\ Disturbs({w}, {})
         /\ WorkspaceGot(l) =>
              /\ loads[l].status = "got" /\ loads'[l].status = "done"
              /\ \A k \in Loads : k # l => loads'[k] = loads[k]
         /\ LoadFails(l) =>
              /\ loads[l].status = "asked" => loads'[l].status = "failed"
              /\ loads[l].status = "got" => loads'[l].status = "half"
              /\ loads[l].status \in {"asked", "got"}
              /\ loads'[l].workspaceId = loads[l].workspaceId
              /\ \A k \in Loads : k # l => loads'[k] = loads[k]
<1>1. loads \in [Loads -> LoadRecords] /\ loads[l] \in LoadRecords
  BY DEF Types
<1>2. ASSUME GetWorkspace(l)
      PROVE  \E w \in Workspaces \ gone :
                /\ loads[l].status = "asked" /\ loads'[l].status = "got"
                /\ loads'[l].workspaceId = w /\ loads'[l].vertices = server[w]
                /\ \A k \in Loads : k # l => loads'[k] = loads[k]
                /\ loads[l].workspaceId \notin gone => w = loads[l].workspaceId
                /\ SetWorkspace(w, server[w])
                /\ UNCHANGED <<server, gone, pageVars, requestVars, publicApi, pending, messageVars, boundVars, late>>
                /\ Disturbs({w}, {})
  <2>1. loads[l].status = "asked"
    BY <1>2 DEF GetWorkspace
  <2>2. PICK w \in Workspaces \ gone :
          /\ loads[l].workspaceId \notin gone => w = loads[l].workspaceId
          /\ loads' = [loads EXCEPT ![l] = [status |-> "got", workspaceId |-> w, vertices |-> server[w]]]
          /\ SetWorkspace(w, server[w])
          /\ UNCHANGED <<server, gone, pageVars, requestVars, publicApi, pending, messageVars, boundVars, late>>
          /\ Disturbs({w}, {})
    BY <1>2 DEF GetWorkspace
  <2>3. loads'[l] = [status |-> "got", workspaceId |-> w, vertices |-> server[w]]
        /\ \A k \in Loads : k # l => loads'[k] = loads[k]
    BY <1>1, <2>2
  <2> WITNESS w \in Workspaces \ gone
  <2>4. QED
    BY <2>1, <2>2, <2>3
<1>3. ASSUME WorkspaceGot(l)
      PROVE  /\ loads[l].status = "got" /\ loads'[l].status = "done"
             /\ \A k \in Loads : k # l => loads'[k] = loads[k]
  BY <1>1, <1>3 DEF WorkspaceGot, NoLoad
<1>4. ASSUME LoadFails(l)
      PROVE  /\ loads[l].status = "asked" => loads'[l].status = "failed"
             /\ loads[l].status = "got" => loads'[l].status = "half"
             /\ loads[l].status \in {"asked", "got"}
             /\ loads'[l].workspaceId = loads[l].workspaceId
             /\ \A k \in Loads : k # l => loads'[k] = loads[k]
  BY <1>1, <1>4 DEF LoadFails, LoadRecords
<1>5. QED
  BY <1>1, <1>2, <1>3, <1>4 DEF LoadInv, LoadRecords

\* All other steps
LEMMA LoadsStayThere ==
  ASSUME NEW id, UNCHANGED vars \/ Asks \/ BufferFires(id) \/ SetPublicApi \/ StartSave(id) \/ Serve(id)
                   \/ Answer(id) \/ WorkspaceChange \/ PendingNext \/ ProcessWorkerMessage
                   \/ \E w \in Workspaces, c \in UserChanges : RemoteChange(w, c)
  PROVE  loads' = loads
BY DEF vars, workerVars, Asks, BufferFires, SetPublicApi, StartSave, Serve, Answer, WorkspaceChange, PendingNext,
       Updated, UpdateDropped, ProcessWorkerMessage, RemoteChange

LEMMA LoadStays == Types /\ AskedInv /\ LoadInv /\ [Next]_vars => LoadInv'
<1> SUFFICES ASSUME Types, AskedInv, LoadInv, [Next]_vars
             PROVE  LoadInv'
  OBVIOUS
<1>1. asked \in Nat /\ events \in Nat /\ IsFiniteSet(Used) /\ Cardinality(Used) \in Nat
  <2>1. IsFiniteSet(Loads) /\ Used \subseteq Loads
    BY FS_Interval, IdTypes DEF Loads, Used
  <2>2. IsFiniteSet(Used)
    BY <2>1, FS_Subset
  <2>3. QED
    BY <2>2, FS_CardinalityType DEF Types
<1>2. ASSUME \A k \in Loads : /\ loads'[k].status = "none" <=> loads[k].status = "none"
                              /\ loads'[k].status \notin {"none", "done"} => loads'[k].workspaceId \in Workspaces,
             \/ asked' = asked /\ events' \in {events, events + 1}
             \/ asked' = asked + 1 /\ events' = events + 1
      PROVE  LoadInv'
  <2>1. Used' = Used
    BY <1>2 DEF Used
  <2>2. Cardinality(Used) + asked' <= events'
    BY <1>1, <1>2 DEF LoadInv
  <2>3. QED
    BY <1>2, <2>1, <2>2 DEF LoadInv
<1>3. ASSUME NEW w \in Workspaces, Load(w), asked' = asked
      PROVE  LoadInv'
  <2>1. PICK l \in Loads :
          /\ loads[l].status = "none" /\ loads'[l].status = "asked" /\ loads'[l].workspaceId = w
          /\ \A k \in Loads : k # l => loads'[k] = loads[k]
          /\ events' = events + 1
    BY <1>3, Called
  <2>2. Used' = Used \cup {l} /\ l \notin Used
    BY <2>1 DEF Used
  <2>3. Cardinality(Used') = Cardinality(Used) + 1
    BY <1>1, <2>2, FS_AddElement
  <2>4. Cardinality(Used') + asked' <= events'
    BY <1>1, <1>3, <2>1, <2>3 DEF LoadInv
  <2>5. \A k \in Loads : loads'[k].status \notin {"none", "done"} => loads'[k].workspaceId \in Workspaces
    BY <2>1 DEF LoadInv
  <2>6. QED
    BY <2>4, <2>5 DEF LoadInv
<1>4. ASSUME loads' = loads,
             \/ asked' = asked /\ events' \in {events, events + 1}
             \/ asked' = asked + 1 /\ events' = events + 1
      PROVE  LoadInv'
  BY <1>2, <1>4 DEF LoadInv
<1>5. CASE Asks
  <2>1. loads' = loads
    BY <1>5, LoadsStayThere
  <2>2. QED
    BY <1>4, <1>5, <2>1, Asked
<1>6. ASSUME NEW id, \/ UNCHANGED vars \/ BufferFires(id) \/ SetPublicApi \/ StartSave(id) \/ Serve(id)
                     \/ Answer(id) \/ WorkspaceChange \/ PendingNext \/ ProcessWorkerMessage
                     \/ \E w \in Workspaces, c \in UserChanges : RemoteChange(w, c)
      PROVE  LoadInv'
  <2>1. loads' = loads
    BY <1>6, LoadsStayThere
  <2>2. asked' = asked /\ events' \in {events, events + 1}
    BY <1>6 DEF vars, requestVars, boundVars, BufferFires, SetPublicApi, StartSave, Serve, Answer, WorkspaceChange,
                PendingNext, Updated, UpdateDropped, ProcessWorkerMessage, RemoteChange, Event
  <2>3. QED
    BY <1>4, <2>1, <2>2
<1>7. ASSUME NEW w \in Workspaces, SwitchWorkspace(w) \/ WorkspaceDelete(w)
      PROVE  LoadInv'
  BY <1>3, <1>7 DEF SwitchWorkspace, WorkspaceDelete, requestVars
<1>8. ASSUME NEW l \in Loads, GetWorkspace(l)
      PROVE  LoadInv'
  <2>1. PICK w \in Workspaces \ gone :
          /\ loads[l].status = "asked" /\ loads'[l].status = "got" /\ loads'[l].workspaceId = w
          /\ \A k \in Loads : k # l => loads'[k] = loads[k]
          /\ UNCHANGED <<requestVars, boundVars>>
    BY <1>8, LoadSteps
  <2>2. asked' = asked /\ events' = events
    BY <2>1 DEF requestVars, boundVars
  <2>3. QED
    BY <1>2, <2>1, <2>2 DEF LoadInv
<1>9. ASSUME NEW l \in Loads, WorkspaceGot(l) \/ LoadFails(l)
      PROVE  LoadInv'
  <2>1. /\ loads[l].status \in {"asked", "got"}
        /\ \/ loads'[l].status = "done"
           \/ loads'[l].status \in {"failed", "half"} /\ loads'[l].workspaceId = loads[l].workspaceId
        /\ \A k \in Loads : k # l => loads'[k] = loads[k]
    BY <1>9, LoadSteps
  <2>2. asked' = asked /\ events' = events
    BY <1>9 DEF WorkspaceGot, LoadFails, requestVars, boundVars
  <2>3. QED
    BY <1>2, <2>1, <2>2 DEF LoadInv
<1>10. QED
  BY <1>5, <1>6, <1>7, <1>8, <1>9, Asking DEF Next, StartSaveNext, ServeNext, AnswerNext, LoadNext

\* Page and worker speak of the same workspace
LEMMA AgreeStays == Types /\ PageAndWorkerAgree /\ [Next]_vars => PageAndWorkerAgree'
<1> SUFFICES ASSUME Types, PageAndWorkerAgree, [Next]_vars
             PROVE  PageAndWorkerAgree'
  OBVIOUS
<1> USE DEF vars, pageVars, workerVars, messageVars, requestVars, boundVars
<1>1. publicApi \in Seq(Workspaces) /\ publicApi # <<>> /\ Len(publicApi) \in Nat
  BY DEF Types
<1>2. \A w \in Workspaces : LET p == Append(publicApi, w) IN p[Len(p)] = w
  BY <1>1
<1>3. CASE UNCHANGED <<current, publicApi>> /\ shown'.workspaceId = shown.workspaceId
  BY <1>3 DEF PageAndWorkerAgree
<1>4. CASE (\E c \in UserChanges : UpdateWorkspace(c) \/ UpdateThrows(c)) \/ PerformUndo \/ PerformRedo
  <2>1. UNCHANGED <<current, publicApi, shown>>
    BY <1>4 DEF UpdateWorkspace, UpdateThrows, PerformUndo, PerformRedo, Perform
  <2>2. QED
    BY <1>3, <2>1
<1>5. ASSUME NEW w \in Workspaces, SwitchWorkspace(w)
      PROVE  PageAndWorkerAgree'
  BY <1>2, <1>5 DEF SwitchWorkspace, PageAndWorkerAgree
<1>6. CASE SetPublicApi
  <2>1. Len(publicApi) > 1 /\ publicApi' = Tail(publicApi) /\ UNCHANGED <<current, shown>>
    BY <1>6 DEF SetPublicApi
  <2>2. Len(publicApi') = Len(publicApi) - 1 /\ publicApi'[Len(publicApi) - 1] = publicApi[Len(publicApi)]
    BY <1>1, <2>1
  <2>3. QED
    BY <2>1, <2>2 DEF PageAndWorkerAgree
<1>7. CASE ProcessWorkerMessage
  <2> DEFINE m == Head(toPage)
  <2>1. m \in Messages
    BY <1>7, QueueTypes DEF ProcessWorkerMessage
  <2>2. CASE m.type = "workspaceLoaded" /\ WorkspaceLoaded(m)
    <3>1. m.workspaceId \in Workspaces
      BY <2>1, <2>2, MessageKnown
    <3>2. QED
      BY <1>2, <2>2, <3>1 DEF WorkspaceLoaded, PageAndWorkerAgree
  <2>3. CASE SaveCompleted(m) \/ WorkspaceUpdated(m)
    <3>1. UNCHANGED <<current, publicApi>> /\ shown'.workspaceId = shown.workspaceId
      BY <2>3 DEF SaveCompleted, WorkspaceUpdated, Types
    <3>2. QED
      BY <1>3, <3>1
  <2>4. QED
    BY <1>7, <2>2, <2>3 DEF ProcessWorkerMessage
<1>8. CASE UNCHANGED <<current, publicApi, shown>>
  BY <1>3, <1>8
<1>9. ASSUME NEW id, \/ UNCHANGED vars \/ BufferFires(id) \/ StartSave(id) \/ Serve(id)
                     \/ Answer(id) \/ WorkspaceChange \/ PendingNext
                     \/ \E w \in Workspaces, c \in UserChanges : RemoteChange(w, c)
                     \/ \E w \in Workspaces : WorkspaceDelete(w)
      PROVE  PageAndWorkerAgree'
  <2>1. UNCHANGED <<current, publicApi, shown>>
    BY <1>9 DEF BufferFires, StartSave, Serve, Answer, WorkspaceChange,
                PendingNext, Updated, UpdateDropped, RemoteChange, WorkspaceDelete
  <2>2. QED
    BY <1>8, <2>1
<1>10. CASE LoadNext
  <2>1. UNCHANGED <<current, publicApi, shown>>
    BY <1>10 DEF LoadNext, GetWorkspace, WorkspaceGot, LoadFails
  <2>2. QED
    BY <1>8, <2>1
<1>11. QED
  BY <1>4, <1>5, <1>6, <1>7, <1>9, <1>10 DEF Next, StartSaveNext, ServeNext, AnswerNext

-----------------------------------------------------------------------------
(* The store follows the server.                                           *)

LEMMA InitialStore == Init => StoreInv /\ PageInv
<1> SUFFICES ASSUME Init
             PROVE  StoreInv /\ PageInv
  OBVIOUS
<1>1. /\ \A i \in Ids : saves[i].status = "none" /\ saves[i].workspaceId = NoWorkspace
      /\ \A l \in Loads : loads[l].status = "none"
  BY DEF Init, NoSave, Save, NoLoad
<1>2. \A w : /\ About(socket, w) = {} /\ About(pending, w) = {} /\ About(toPage, w) = {}
             /\ Values(socket, w) = {} /\ Values(pending, w) = {}
  BY DEF Init, About, Values
<1>3. DOMAIN store = {Home} /\ store[Home] = server[Home] /\ shown = [workspaceId |-> Home, vertices |-> server[Home]]
  BY DEF Init
<1>4. \A w \in Workspaces : Saving(w) = {} /\ Loading(w) = {}
  BY <1>1 DEF Saving, Loading, UnderWay
<1>5. \A w \in Workspaces : Solo(w)
  BY <1>2, <1>4 DEF Solo
<1>6. \A w \in Workspaces : Brings(w)
  BY <1>1, <1>2, <1>3 DEF Brings, Ahead, Got
<1>7. \A w \in DOMAIN store : Tells(w)
  BY <1>2, <1>3 DEF Tells
<1>8. QED
  BY <1>5, <1>6, <1>7 DEF StoreInv, PageInv

\* What else is not in motion when one thing is
LEMMA SoloMeans ==
  \A w \in Workspaces : Solo(w) =>
    /\ Saving(w) # {} => /\ \A i, j \in Saving(w) : i = j
                         /\ \A l \in Loads : ~Got(w, l)
                         /\ Values(socket, w) = {} /\ Values(pending, w) = {} /\ About(toPage, w) = {}
    /\ \A l \in Loading(w) : /\ Saving(w) = {} /\ \A i \in Ids : ~Ahead(w, i)
                             /\ \A k \in Loads : Got(w, k) => k = l
                             /\ Values(socket, w) = {} /\ Values(pending, w) = {}
    /\ About(socket, w) # {} => /\ Saving(w) = {} /\ \A i \in Ids : ~Ahead(w, i)
                                /\ \A l \in Loads : ~Got(w, l)
                                /\ Values(pending, w) = {}
                                /\ \A x, y \in About(socket, w) : x = y
    /\ About(pending, w) # {} => /\ Saving(w) = {} /\ \A i \in Ids : ~Ahead(w, i)
                                 /\ \A l \in Loads : ~Got(w, l)
                                 /\ Values(socket, w) = {}
                                 /\ \A x, y \in About(pending, w) : x = y
<1> SUFFICES ASSUME NEW w \in Workspaces, Solo(w)
             PROVE  /\ Saving(w) # {} => /\ \A i, j \in Saving(w) : i = j
                                         /\ \A l \in Loads : ~Got(w, l)
                                         /\ Values(socket, w) = {} /\ Values(pending, w) = {} /\ About(toPage, w) = {}
                    /\ \A l \in Loading(w) : /\ Saving(w) = {} /\ \A i \in Ids : ~Ahead(w, i)
                                             /\ \A k \in Loads : Got(w, k) => k = l
                                             /\ Values(socket, w) = {} /\ Values(pending, w) = {}
                    /\ About(socket, w) # {} => /\ Saving(w) = {} /\ \A i \in Ids : ~Ahead(w, i)
                                                /\ \A l \in Loads : ~Got(w, l)
                                                /\ Values(pending, w) = {}
                                                /\ \A x, y \in About(socket, w) : x = y
                    /\ About(pending, w) # {} => /\ Saving(w) = {} /\ \A i \in Ids : ~Ahead(w, i)
                                                 /\ \A l \in Loads : ~Got(w, l)
                                                 /\ Values(socket, w) = {}
                                                 /\ \A x, y \in About(pending, w) : x = y
  OBVIOUS
<1>1. \A i \in Ids : Ahead(w, i) => i \in Saving(w)
  BY DEF Ahead, Saving, UnderWay
<1>2. \A l \in Loads : Got(w, l) => l \in Loading(w)
  BY DEF Got, Loading
<1>3. /\ About(socket, w) = {} => Values(socket, w) = {}
      /\ About(pending, w) = {} => Values(pending, w) = {}
  BY DEF Values
<1>4. /\ \A x, y \in Saving(w) : x = y
      /\ \A x, y \in Loading(w) : x = y
      /\ \A x, y \in About(socket, w) : x = y
      /\ \A x, y \in About(pending, w) : x = y
  BY DEF Solo
<1>5. /\ Saving(w) # {} =>
           Loading(w) = {} /\ About(socket, w) = {} /\ About(pending, w) = {} /\ About(toPage, w) = {}
      /\ Loading(w) # {} => About(socket, w) = {} /\ About(pending, w) = {} /\ About(toPage, w) = {}
      /\ About(socket, w) # {} => About(pending, w) = {} /\ About(toPage, w) = {}
      /\ About(pending, w) # {} => About(toPage, w) = {}
  BY DEF Solo
<1>6. Saving(w) # {} => /\ \A i, j \in Saving(w) : i = j
                        /\ \A l \in Loads : ~Got(w, l)
                        /\ Values(socket, w) = {} /\ Values(pending, w) = {} /\ About(toPage, w) = {}
  BY <1>2, <1>3, <1>4, <1>5
<1>7. \A l \in Loading(w) : /\ Saving(w) = {} /\ \A i \in Ids : ~Ahead(w, i)
                            /\ \A k \in Loads : Got(w, k) => k = l
                            /\ Values(socket, w) = {} /\ Values(pending, w) = {}
  BY <1>1, <1>2, <1>3, <1>4, <1>5
<1>8. About(socket, w) # {} => /\ Saving(w) = {} /\ \A i \in Ids : ~Ahead(w, i)
                               /\ \A l \in Loads : ~Got(w, l)
                               /\ Values(pending, w) = {}
  BY <1>1, <1>2, <1>3, <1>5
<1>9. About(pending, w) # {} => /\ Saving(w) = {} /\ \A i \in Ids : ~Ahead(w, i)
                                /\ \A l \in Loads : ~Got(w, l)
                                /\ Values(socket, w) = {}
  BY <1>1, <1>2, <1>3, <1>5
<1>10. QED
  BY <1>4, <1>6, <1>7, <1>8, <1>9

LEMMA SoloMeansNext ==
  (\A w \in Workspaces : Solo(w) =>
    /\ Saving(w) # {} => /\ \A i, j \in Saving(w) : i = j
                         /\ \A l \in Loads : ~Got(w, l)
                         /\ Values(socket, w) = {} /\ Values(pending, w) = {} /\ About(toPage, w) = {}
    /\ \A l \in Loading(w) : /\ Saving(w) = {} /\ \A i \in Ids : ~Ahead(w, i)
                             /\ \A k \in Loads : Got(w, k) => k = l
                             /\ Values(socket, w) = {} /\ Values(pending, w) = {}
    /\ About(socket, w) # {} => /\ Saving(w) = {} /\ \A i \in Ids : ~Ahead(w, i)
                                /\ \A l \in Loads : ~Got(w, l)
                                /\ Values(pending, w) = {}
                                /\ \A x, y \in About(socket, w) : x = y
    /\ About(pending, w) # {} => /\ Saving(w) = {} /\ \A i \in Ids : ~Ahead(w, i)
                                 /\ \A l \in Loads : ~Got(w, l)
                                 /\ Values(socket, w) = {}
                                 /\ \A x, y \in About(pending, w) : x = y)'
BY SoloMeans, PTL

\* A step that has nothing to do with w
LEMMA BringsStays ==
  ASSUME NEW w \in Workspaces, Brings(w),
         server'[w] = server[w],
         w \in DOMAIN store' => w \in DOMAIN store /\ store'[w] = store[w],
         \A i \in Ids : /\ Ahead(w, i)' <=> Ahead(w, i)
                        /\ Ahead(w, i) => saves'[i].change = saves[i].change,
         \A l \in Loads : Got(w, l)' => Got(w, l) /\ loads'[l].vertices = loads[l].vertices,
         Values(socket, w)' = Values(socket, w),
         Values(pending, w)' = Values(pending, w)
  PROVE  Brings(w)'
<1>1. \A i \in Ids : Ahead(w, i)' /\ w \in DOMAIN store' => server'[w] = Applied(store'[w], saves'[i].change)
  BY DEF Brings
<1>2. \A l \in Loads : Got(w, l)' => loads'[l].vertices = server'[w]
  BY DEF Brings
<1>3. Values(socket, w)' \subseteq {server'[w]} /\ Values(pending, w)' \subseteq {server'[w]}
  BY DEF Brings
<1>4. w \in DOMAIN store' /\ (\A i \in Ids : ~Ahead(w, i)') /\ Values(socket, w)' = {} /\ Values(pending, w)' = {} =>
        store'[w] = server'[w]
  BY DEF Brings
<1>5. QED
  BY <1>1, <1>2, <1>3, <1>4 DEF Brings

LEMMA NotHealed ==
  ASSUME NEW lost, Types, Types', StoreInv, Disturbs({}, lost), NEW w \in Workspaces, w \notin disturbed' \cup gone
  PROVE  Solo(w)' /\ w \notin disturbed /\ Solo(w) /\ Brings(w) /\ w \notin lost
BY Undisturbed DEF StoreInv

LEMMA SameParts ==
  ASSUME NEW w
  PROVE  /\ socket' = socket => Values(socket, w)' = Values(socket, w) /\ About(socket, w)' = About(socket, w)
         /\ pending' = pending => Values(pending, w)' = Values(pending, w) /\ About(pending, w)' = About(pending, w)
         /\ loads' = loads => \A l \in Loads : Got(w, l)' <=> Got(w, l)
         /\ \A l \in Loads : loads'[l] = loads[l] => (Got(w, l)' <=> Got(w, l))
         /\ \A i \in Ids : saves'[i] = saves[i] => (Ahead(w, i)' <=> Ahead(w, i))
         /\ \A i \in Ids : saves[i].status # "applied" => ~Ahead(w, i)
         /\ \A i \in Ids : saves'[i].status # "applied" => ~Ahead(w, i)'
BY DEF Values, About, Got, Ahead

\* w hears of a change, or the store has it already
LEMMA HeardOf ==
  ASSUME Types, NEW v \in Workspaces, NEW vertices \in Contents, WasChangedRemotely(v, vertices), NEW w \in Workspaces
  PROVE  /\ w # v => Values(pending, w)' = Values(pending, w)
         /\ w = v => \/ /\ Values(pending, w)' = Values(pending, w) /\ w \in DOMAIN store /\ store[w] = vertices
                     \/ /\ Values(pending, w)' = Values(pending, w) \cup {vertices}
<1> DEFINE x == [workspaceId |-> v, vertices |-> vertices]
<1>1. x \in States /\ pending \in Seq(States)
  BY DEF States, Types
<1>2. CASE v \in DOMAIN store /\ store[v] = vertices
  BY <1>2, SameParts DEF WasChangedRemotely
<1>3. CASE ~(v \in DOMAIN store /\ store[v] = vertices)
  <2>1. pending' = Append(pending, x)
    BY <1>3 DEF WasChangedRemotely
  <2>2. /\ x.workspaceId = w => Values(Append(pending, x), w) = Values(pending, w) \cup {x.vertices}
        /\ x.workspaceId # w => Values(Append(pending, x), w) = Values(pending, w)
    BY <1>1, Appended
  <2>3. Values(pending, w)' = Values(pending', w)
    BY DEF Values, About
  <2>4. QED
    BY <2>1, <2>2, <2>3
<1>4. QED
  BY <1>2, <1>3

\* Where a change applied by the server meets one that is not, the first is alone
LEMMA StoreStaysForSaves ==
  ASSUME Types, Types', AskedInv, LoadInv, StoreInv,
         Asks \/ StartSaveNext \/ ServeNext \/ AnswerNext
  PROVE  StoreInv'
<1> USE DEF pageVars, workerVars, messageVars, requestVars, boundVars
<1>1. CASE Asks
  <2> SUFFICES ASSUME NEW w \in Workspaces, w \notin disturbed' \cup gone'
               PROVE  Solo(w)' /\ Brings(w)'
    BY DEF StoreInv
  <2>1. /\ saves[asked'].status = "none" /\ saves'[asked'].status \in {"asked", "threw"} /\ asked' \in Ids
        /\ \A i \in Ids : i # asked' => saves'[i] = saves[i]
        /\ UNCHANGED <<server, gone, workerVars, messageVars>>
        /\ Disturbs({}, {})
    BY <1>1, Asked
  <2>2. Solo(w)' /\ Brings(w)
    BY <2>1, NotHealed
  <2>3. \A i \in Ids : /\ Ahead(w, i)' <=> Ahead(w, i)
                       /\ Ahead(w, i) => saves'[i].change = saves[i].change
    BY <2>1, SameParts DEF Ahead
  <2>4. QED
    BY <2>1, <2>2, <2>3, BringsStays, SameParts
<1>2. ASSUME NEW id \in Ids, StartSave(id)
      PROVE  StoreInv'
  <2> SUFFICES ASSUME NEW w \in Workspaces, w \notin disturbed' \cup gone'
               PROVE  Solo(w)' /\ Brings(w)'
    BY DEF StoreInv
  <2>1. UNCHANGED <<server, gone, publicApi, store, pending, loads, socket>>
    BY <1>2 DEF StartSave
  <2>2. /\ saves'[id].status \in {"threw", "answered", "sent"}
        /\ \A i \in Ids : i # id =>
             saves'[i].status = CASE saves[i].status = "sent" -> "orphan"
                                  [] saves[i].status \in {"applied", "refused"} -> "aborted"
                                  [] OTHER -> saves[i].status
        /\ Disturbs({}, {saves[i].workspaceId : i \in {j \in Ids : saves[j].status = "applied"}})
    BY <1>2, Started
  <2>3. Solo(w)' /\ Brings(w) /\ w \notin {saves[i].workspaceId : i \in {j \in Ids : saves[j].status = "applied"}}
    BY <2>1, <2>2, NotHealed
  <2>4. \A i \in Ids : ~Ahead(w, i) /\ ~Ahead(w, i)'
    <3>1. \A i \in Ids : saves'[i].status # "applied"
      BY <2>2
    <3>2. QED
      BY <2>3, <3>1 DEF Ahead
  <2>5. QED
    BY <2>1, <2>3, <2>4, BringsStays, SameParts
<1>3. ASSUME NEW id \in Ids, Serve(id)
      PROVE  StoreInv'
  <2> SUFFICES ASSUME NEW w \in Workspaces, w \notin disturbed' \cup gone'
               PROVE  Solo(w)' /\ Brings(w)'
    BY DEF StoreInv
  <2> DEFINE v == saves[id].workspaceId
             c == saves[id].change
  <2>1. /\ saves[id].status \in {"sent", "orphan"} /\ v \in Workspaces /\ c \in Changes
        /\ saves'[id].change = c /\ saves'[id].workspaceId = v
        /\ \A i \in Ids : i # id => saves'[i] = saves[i]
        /\ UNCHANGED <<gone, publicApi, store, pending, loads, socket>>
    BY <1>3, Served
  <2>2. CASE /\ server' = server /\ saves'[id].status \in {"aborted", "refused"} /\ Disturbs({}, {})
    <3>1. Solo(w)' /\ Brings(w)
      BY <2>1, <2>2, NotHealed
    <3>2. \A i \in Ids : /\ Ahead(w, i)' <=> Ahead(w, i)
                         /\ Ahead(w, i) => saves'[i].change = saves[i].change
      BY <2>1, <2>2 DEF Ahead
    <3>3. QED
      BY <2>1, <2>2, <3>1, <3>2, BringsStays, SameParts
  <2>3. CASE /\ server' = [server EXCEPT ![v] = Applied(@, c)]
             /\ saves'[id].status = IF saves[id].status = "orphan" THEN "aborted" ELSE "applied"
             /\ Disturbs({}, IF saves[id].status = "orphan" THEN {v} ELSE {})
    <3>1. /\ Solo(w)' /\ Solo(w) /\ Brings(w)
          /\ w \notin (IF saves[id].status = "orphan" THEN {v} ELSE {})
      BY <2>1, <2>3, NotHealed
    <3>2. server \in [Workspaces -> Contents]
      BY DEF Types
    <3>3. CASE w # v
      <4>1. server'[w] = server[w]
        BY <2>1, <2>3, <3>2, <3>3
      <4>2. \A i \in Ids : /\ Ahead(w, i)' <=> Ahead(w, i)
                           /\ Ahead(w, i) => saves'[i].change = saves[i].change
        BY <2>1, <3>3 DEF Ahead
      <4>3. QED
        BY <2>1, <3>1, <4>1, <4>2, BringsStays, SameParts
    <3>4. CASE w = v
      <4>1. saves[id].status = "sent" /\ saves'[id].status = "applied" /\ server'[w] = Applied(server[w], c)
        BY <2>1, <2>3, <3>1, <3>2, <3>4
      <4>2. id \in Saving(w)
        BY <3>4, <4>1 DEF Saving, UnderWay
      <4>3. /\ \A i, j \in Saving(w) : i = j
            /\ \A l \in Loads : ~Got(w, l)
            /\ Values(socket, w) = {} /\ Values(pending, w) = {}
        BY <3>1, <4>2, SoloMeans
      <4>4. \A i \in Ids : ~Ahead(w, i)
        BY <4>1, <4>2, <4>3 DEF Ahead, Saving, UnderWay
      <4>5. w \in DOMAIN store => store[w] = server[w]
        BY <3>1, <4>3, <4>4 DEF Brings
      <4>6. Ahead(w, id)' /\ saves'[id].change = c
        BY <2>1, <3>4, <4>1 DEF Ahead
      <4>7. \A i \in Ids : i # id => ~Ahead(w, i)'
        BY <2>1, <4>4, SameParts
      <4>8. \A l \in Loads : ~Got(w, l)'
        BY <2>1, <4>3, SameParts
      <4>9. Values(socket, w)' = {} /\ Values(pending, w)' = {}
        BY <2>1, <4>3, SameParts
      <4>10. \A i \in Ids : Ahead(w, i)' /\ w \in DOMAIN store' => server'[w] = Applied(store'[w], saves'[i].change)
        BY <2>1, <4>1, <4>5, <4>6, <4>7
      <4>11. Brings(w)'
        BY <4>6, <4>8, <4>9, <4>10 DEF Brings
      <4>12. QED
        BY <3>1, <4>11
    <3>5. QED
      BY <3>3, <3>4
  <2>4. QED
    BY <1>3, <2>2, <2>3, Served
<1>4. ASSUME NEW id \in Ids, Answer(id)
      PROVE  StoreInv'
  <2> SUFFICES ASSUME NEW w \in Workspaces, w \notin disturbed' \cup gone'
               PROVE  Solo(w)' /\ Brings(w)'
    BY DEF StoreInv
  <2> DEFINE v == saves[id].workspaceId
             c == saves[id].change
             updates == saves[id].status = "applied" /\ v \in DOMAIN store
  <2>1. /\ saves[id].status \in {"applied", "refused"} /\ v \in Workspaces /\ c \in Changes
        /\ saves'[id].status = "answered"
        /\ \A i \in Ids : i # id => saves'[i] = saves[i]
        /\ IF updates THEN WasChangedRemotely(v, Applied(store[v], c)) ELSE UNCHANGED pending
    BY <1>4, Answered
  <2>2. UNCHANGED <<server, gone, publicApi, store, loads, socket>> /\ Disturbs({}, {})
    BY <1>4 DEF Answer
  <2>3. Solo(w)' /\ Solo(w) /\ Brings(w)
    BY <2>2, NotHealed
  <2>4. ~Ahead(w, id)' /\ \A i \in Ids : i # id => /\ Ahead(w, i)' <=> Ahead(w, i)
                                                   /\ saves'[i].change = saves[i].change
    BY <2>1, SameParts
  <2>5. CASE ~updates
    <3>1. Values(pending, w)' = Values(pending, w)
      BY <2>1, <2>5, SameParts
    <3>2. CASE saves[id].status = "applied" /\ w = v
      <4>1. w \notin DOMAIN store'
        BY <2>2, <2>5, <3>2
      <4>2. \A l \in Loads : Got(w, l)' => loads'[l].vertices = server'[w]
        BY <2>2, <2>3, SameParts DEF Brings
      <4>3. Values(socket, w)' \subseteq {server'[w]} /\ Values(pending, w)' \subseteq {server'[w]}
        BY <2>2, <2>3, <3>1, SameParts DEF Brings
      <4>4. QED
        BY <2>3, <4>1, <4>2, <4>3 DEF Brings
    <3>3. CASE ~(saves[id].status = "applied" /\ w = v)
      <4>1. ~Ahead(w, id)
        BY <3>3 DEF Ahead
      <4>2. \A i \in Ids : /\ Ahead(w, i)' <=> Ahead(w, i)
                           /\ Ahead(w, i) => saves'[i].change = saves[i].change
        BY <2>4, <4>1
      <4>3. QED
        BY <2>2, <2>3, <3>1, <4>2, BringsStays, SameParts
    <3>4. QED
      BY <3>2, <3>3
  <2>6. CASE updates
    <3>1. Applied(store[v], c) \in Contents /\ WasChangedRemotely(v, Applied(store[v], c))
      BY <2>1, <2>6, StoreTypes, ContentTypes
    <3>2. CASE w # v
      <4>1. Values(pending, w)' = Values(pending, w)
        BY <2>1, <3>1, <3>2, HeardOf
      <4>2. ~Ahead(w, id)
        BY <3>2 DEF Ahead
      <4>3. \A i \in Ids : /\ Ahead(w, i)' <=> Ahead(w, i)
                           /\ Ahead(w, i) => saves'[i].change = saves[i].change
        BY <2>4, <4>2
      <4>4. QED
        BY <2>2, <2>3, <4>1, <4>3, BringsStays, SameParts
    <3>3. CASE w = v
      <4>1. Ahead(w, id) /\ id \in Saving(w)
        BY <2>6, <3>3 DEF Ahead, Saving, UnderWay
      <4>2. /\ \A i, j \in Saving(w) : i = j
            /\ \A l \in Loads : ~Got(w, l)
            /\ Values(socket, w) = {} /\ Values(pending, w) = {}
        BY <2>3, <4>1, SoloMeans
      <4>3. \A i \in Ids : ~Ahead(w, i)'
        <5>1. \A i \in Ids : Ahead(w, i) => i = id
          BY <4>1, <4>2 DEF Ahead, Saving, UnderWay
        <5>2. QED
          BY <2>4, <5>1
      <4>4. server'[w] = Applied(store[v], c)
        BY <2>2, <2>3, <2>6, <3>3, <4>1 DEF Brings
      <4>5. \/ Values(pending, w)' = {} /\ store'[w] = server'[w]
            \/ Values(pending, w)' = {server'[w]}
        <5>1. \/ Values(pending, w)' = {} /\ store[w] = Applied(store[v], c)
              \/ Values(pending, w)' = {} \cup {Applied(store[v], c)}
          BY <2>1, <3>1, <3>3, <4>2, HeardOf
        <5>2. QED
          BY <2>2, <4>4, <5>1
      <4>6. Values(socket, w)' = {} /\ \A l \in Loads : ~Got(w, l)'
        BY <2>2, <4>2, SameParts
      <4>7. QED
        BY <2>3, <4>3, <4>5, <4>6 DEF Brings
    <3>4. QED
      BY <3>2, <3>3
  <2>7. QED
    BY <2>5, <2>6
<1>5. QED
  BY <1>1, <1>2, <1>3, <1>4 DEF StartSaveNext, ServeNext, AnswerNext

LEMMA StoreStaysForOthers ==
  ASSUME Types, Types', AskedInv, LoadInv, StoreInv,
         \/ UNCHANGED vars \/ SetPublicApi \/ ProcessWorkerMessage
         \/ \E id \in Ids : BufferFires(id)
         \/ \E w \in Workspaces : SwitchWorkspace(w) \/ WorkspaceDelete(w)
         \/ \E w \in Workspaces, c \in UserChanges : RemoteChange(w, c)
  PROVE  StoreInv'
<1> USE DEF vars, pageVars, workerVars, messageVars, requestVars, boundVars
<1>1. CASE UNCHANGED vars \/ \E id \in Ids : BufferFires(id)
  <2>1. UNCHANGED <<server, gone, requestVars, workerVars, messageVars, disturbed>>
    BY <1>1 DEF BufferFires
  <2>2. \A w : Solo(w)' <=> Solo(w)
    BY <2>1 DEF Solo, Saving, UnderWay, Loading, About
  <2>3. \A w : Brings(w)' <=> Brings(w)
    BY <2>1 DEF Brings, Ahead, Got, Values, About
  <2>4. QED
    BY <2>1, <2>2, <2>3 DEF StoreInv
<1>2. CASE SetPublicApi
  <2> SUFFICES ASSUME NEW w \in Workspaces, w \notin disturbed' \cup gone'
               PROVE  Solo(w)' /\ Brings(w)'
    BY DEF StoreInv
  <2>1. /\ UNCHANGED <<server, gone, asked, store, pending, loads, messageVars, disturbed>>
        /\ saves' = [i \in Ids |-> [saves[i] EXCEPT !.posts = IF @ > 1 THEN @ - 1 ELSE @]]
    BY <1>2 DEF SetPublicApi
  <2>2. \A i \in Ids : saves[i] \in SaveRecords
    BY DEF Types
  <2>3. \A i \in Ids : /\ saves'[i].status = saves[i].status /\ saves'[i].change = saves[i].change
                       /\ saves'[i].workspaceId = saves[i].workspaceId
    BY <2>1, <2>2 DEF SaveRecords
  <2>4. Solo(w) /\ Brings(w)
    BY <2>1 DEF StoreInv
  <2>5. Saving(w)' = Saving(w) /\ Loading(w)' = Loading(w)
        /\ About(socket, w)' = About(socket, w) /\ About(pending, w)' = About(pending, w) /\ About(toPage, w)' = About(toPage, w)
    BY <2>1, <2>3 DEF Saving, UnderWay, Loading, About
  <2>6. Solo(w)'
    BY <2>4, <2>5 DEF Solo
  <2>7. \A i \in Ids : /\ Ahead(w, i)' <=> Ahead(w, i)
                       /\ Ahead(w, i) => saves'[i].change = saves[i].change
    BY <2>3 DEF Ahead
  <2>8. QED
    BY <2>1, <2>4, <2>6, <2>7, BringsStays, SameParts
<1>3. CASE ProcessWorkerMessage
  <2> SUFFICES ASSUME NEW w \in Workspaces, w \notin disturbed' \cup gone'
               PROVE  Solo(w)' /\ Brings(w)'
    BY DEF StoreInv
  <2>1. UNCHANGED <<server, gone, store, pending, loads, socket>> /\ Disturbs({}, {}) /\ toPage # <<>>
    BY <1>3 DEF ProcessWorkerMessage
  <2>2. Solo(w)' /\ Brings(w)
    BY <2>1, NotHealed
  <2>3. \A i \in Ids : /\ Ahead(w, i)' <=> Ahead(w, i)
                       /\ Ahead(w, i) => saves'[i].change = saves[i].change
    <3>1. CASE saves' = saves
      BY <3>1, SameParts
    <3>2. CASE Head(toPage).type = "dataRequestCompleted" /\ SaveCompleted(Head(toPage))
      <4> DEFINE id == Head(toPage).id
      <4>1. /\ saves[id].status \in {"answered", "told"} /\ saves'[id].status = "told"
            /\ \A i \in Ids : i # id => saves'[i] = saves[i]
        BY <2>1, <3>2, Heard
      <4> HIDE DEF id
      <4>2. QED
        BY <4>1 DEF Ahead
    <3>3. QED
      BY <1>3, <3>1, <3>2 DEF ProcessWorkerMessage, WorkspaceUpdated, WorkspaceLoaded
  <2>4. QED
    BY <2>1, <2>2, <2>3, BringsStays, SameParts
<1>4. ASSUME NEW v \in Workspaces, SwitchWorkspace(v) \/ WorkspaceDelete(v)
      PROVE  StoreInv'
  <2> SUFFICES ASSUME NEW w \in Workspaces, w \notin disturbed' \cup gone'
               PROVE  Solo(w)' /\ Brings(w)'
    BY DEF StoreInv
  <2>1. /\ Load(v) /\ UNCHANGED <<server, requestVars, pending, messageVars>> /\ Disturbs({}, {})
        /\ gone \subseteq gone'
    BY <1>4 DEF SwitchWorkspace, WorkspaceDelete
  <2>2. Solo(w)' /\ Brings(w)
    BY <2>1, NotHealed
  <2>3. w \in DOMAIN store' => w \in DOMAIN store /\ store'[w] = store[w]
    BY <1>4 DEF SwitchWorkspace, WorkspaceDelete
  <2>4. PICK l \in Loads : /\ loads'[l].status = "asked"
                           /\ \A k \in Loads : k # l => loads'[k] = loads[k]
    BY <2>1, Called
  <2>5. \A k \in Loads : Got(w, k)' => Got(w, k) /\ loads'[k].vertices = loads[k].vertices
    BY <2>4 DEF Got
  <2>6. QED
    BY <2>1, <2>2, <2>3, <2>5, BringsStays, SameParts
<1>5. ASSUME NEW v \in Workspaces, NEW c \in UserChanges, RemoteChange(v, c)
      PROVE  StoreInv'
  <2> SUFFICES ASSUME NEW w \in Workspaces, w \notin disturbed' \cup gone'
               PROVE  Solo(w)' /\ Brings(w)'
    BY DEF StoreInv
  <2> DEFINE x == [workspaceId |-> v, vertices |-> server'[v]]
  <2>1. /\ server' = [server EXCEPT ![v] = Applied(@, c)]
        /\ UNCHANGED <<gone, pageVars, requestVars, workerVars, toPage>>
        /\ \/ socket' = Append(socket, x) /\ Disturbs({v}, {})
           \/ socket' = socket /\ Disturbs({}, {v})
    BY <1>5 DEF RemoteChange
  <2>2. x \in States /\ socket \in Seq(States) /\ server \in [Workspaces -> Contents]
    <3>1. server' \in [Workspaces -> Contents]
      BY DEF Types
    <3>2. QED
      BY <3>1 DEF States, Types
  <2>3. CASE w # v
    <3>1. Solo(w)' /\ w \notin disturbed
      BY <2>1, <2>3, Undisturbed
    <3>2. Brings(w)
      BY <2>1, <3>1 DEF StoreInv
    <3>3. server'[w] = server[w]
      BY <2>1, <2>2, <2>3
    <3>4. Values(socket, w)' = Values(socket, w)
      <4>1. x.workspaceId # w
        BY <2>3
      <4>2. Values(Append(socket, x), w) = Values(socket, w)
        BY <2>2, <4>1, Appended
      <4>3. Values(socket, w)' = Values(socket', w)
        BY DEF Values, About
      <4>4. QED
        BY <2>1, <4>2, <4>3
    <3>5. QED
      BY <2>1, <3>1, <3>2, <3>3, <3>4, BringsStays, SameParts
  <2>4. CASE w = v
    <3>1. Solo(w)' /\ socket' = Append(socket, x)
      BY <2>1, <2>4, Undisturbed
    <3>2. x.workspaceId = w /\ x.vertices = server'[w]
      BY <2>4
    <3>3. About(socket, w)' = About(socket, w) \cup {Len(socket) + 1} /\ socket'[Len(socket) + 1] = x
      <4>1. About(Append(socket, x), w) = About(socket, w) \cup {Len(socket) + 1} /\ Append(socket, x)[Len(socket) + 1] = x
        BY <2>2, <3>2, Appended
      <4>2. About(socket, w)' = About(socket', w)
        BY DEF About
      <4>3. QED
        BY <3>1, <4>1, <4>2
    <3>4. About(socket, w)' # {}
      BY <3>3
    <3>5. /\ \A i \in Ids : ~Ahead(w, i)'
          /\ \A l \in Loads : ~Got(w, l)'
          /\ Values(pending, w)' = {}
          /\ \A y, z \in About(socket, w)' : y = z
      BY <3>1, <3>4, SoloMeansNext
    <3>6. Values(socket, w)' = {server'[w]}
      <4>1. About(socket, w)' = {Len(socket) + 1}
        BY <3>3, <3>5
      <4>2. QED
        BY <3>2, <3>3, <4>1 DEF Values
    <3>7. QED
      BY <3>1, <3>5, <3>6 DEF Brings
  <2>5. QED
    BY <2>3, <2>4
<1>6. QED
  BY <1>1, <1>2, <1>3, <1>4, <1>5

LEMMA StoreStaysForStore ==
  ASSUME Types, Types', AskedInv, LoadInv, StoreInv, WorkspaceChange \/ PendingNext \/ LoadNext
  PROVE  StoreInv'
<1> USE DEF pageVars, workerVars, messageVars, requestVars, boundVars
<1>1. CASE WorkspaceChange
  <2> SUFFICES ASSUME NEW w \in Workspaces, w \notin disturbed' \cup gone'
               PROVE  Solo(w)' /\ Brings(w)'
    BY DEF StoreInv
  <2> DEFINE v == Head(socket).workspaceId
             vertices == Head(socket).vertices
  <2>1. /\ socket # <<>> /\ socket' = Tail(socket) /\ WasChangedRemotely(v, vertices)
        /\ UNCHANGED <<server, gone, requestVars, store, loads>> /\ Disturbs({}, {})
    BY <1>1 DEF WorkspaceChange
  <2>2. v \in Workspaces /\ vertices \in Contents /\ socket \in Seq(States)
    BY <2>1, QueueTypes DEF States, Types
  <2>3. Solo(w)' /\ Solo(w) /\ Brings(w)
    BY <2>1, NotHealed
  <2>4. /\ Values(socket, w)' = Values(socket', w)
        /\ Rest(socket, socket')
    BY <2>1, QueueTypes DEF Values, About, Rest
  <2>5. CASE w # v
    <3>1. Values(socket, w)' = Values(socket, w)
      BY <2>1, <2>2, <2>4, <2>5, Shortened
    <3>2. Values(pending, w)' = Values(pending, w)
      BY <2>1, <2>2, <2>5, HeardOf
    <3>3. QED
      BY <2>1, <2>3, <3>1, <3>2, BringsStays, SameParts
  <2>6. CASE w = v
    <3>1. 1 \in About(socket, w) /\ vertices \in Values(socket, w)
      BY <2>1, <2>2, <2>4, <2>6, Shortened
    <3>2. /\ \A i \in Ids : ~Ahead(w, i)
          /\ \A l \in Loads : ~Got(w, l)
          /\ Values(pending, w) = {}
          /\ \A x, y \in About(socket, w) : x = y
      BY <2>3, <3>1, SoloMeans
    <3>3. vertices = server[w]
      BY <2>3, <3>1 DEF Brings
    <3>4. Values(socket, w)' = {}
      <4>1. About(socket, w) = {1}
        BY <3>1, <3>2
      <4>2. QED
        BY <2>1, <2>2, <2>4, <4>1, Shortened
    <3>5. \/ Values(pending, w)' = {} /\ w \in DOMAIN store /\ store[w] = vertices
          \/ Values(pending, w)' = {vertices}
      BY <2>1, <2>2, <2>6, <3>2, HeardOf
    <3>6. (\A i \in Ids : ~Ahead(w, i)') /\ (\A l \in Loads : ~Got(w, l)')
      BY <2>1, <3>2, SameParts
    <3>7. server'[w] = server[w] /\ store' = store
      BY <2>1
    <3>8. QED
      BY <2>3, <3>3, <3>4, <3>5, <3>6, <3>7 DEF Brings
  <2>7. QED
    BY <2>5, <2>6
<1>2. ASSUME NEW i \in DOMAIN pending, Updated(i)
      PROVE  StoreInv'
  <2> SUFFICES ASSUME NEW w \in Workspaces, w \notin disturbed' \cup gone'
               PROVE  Solo(w)' /\ Brings(w)'
    BY DEF StoreInv
  <2> DEFINE v == pending[i].workspaceId
             vertices == pending[i].vertices
  <2>1. /\ pending' = RemoveAt(pending, i) /\ SetWorkspace(v, vertices)
        /\ UNCHANGED <<server, gone, requestVars, loads, socket>> /\ Disturbs({}, {})
    BY <1>2 DEF Updated
  <2>2. pending \in Seq(States) /\ v \in Workspaces /\ vertices \in Contents
    <3>1. pending \in Seq(States)
      BY DEF Types
    <3>2. pending[i] \in States
      BY <3>1
    <3>3. QED
      BY <3>1, <3>2 DEF States
  <2>3. Solo(w)' /\ Solo(w) /\ Brings(w)
    BY <2>1, NotHealed
  <2>4. /\ DOMAIN store' = DOMAIN store \cup {v} /\ store'[v] = vertices
        /\ \A u \in DOMAIN store : u # v => store'[u] = store[u]
    BY <2>1, <2>2, StoreSet
  <2>5. Values(pending, w)' = Values(RemoveAt(pending, i), w)
    BY <2>1 DEF Values, About
  <2>6. CASE w # v
    <3>1. Values(pending, w)' = Values(pending, w)
      BY <2>2, <2>5, <2>6, Emptied
    <3>2. w \in DOMAIN store' => w \in DOMAIN store /\ store'[w] = store[w]
      BY <2>4, <2>6
    <3>3. QED
      BY <2>1, <2>3, <3>1, <3>2, BringsStays, SameParts
  <2>7. CASE w = v
    <3>1. vertices \in Values(pending, w) /\ i \in About(pending, w)
      BY <2>2, <2>7, Emptied
    <3>2. /\ \A k \in Ids : ~Ahead(w, k)
          /\ \A l \in Loads : ~Got(w, l)
          /\ Values(socket, w) = {}
          /\ \A x, y \in About(pending, w) : x = y
      BY <2>3, <3>1, SoloMeans
    <3>3. vertices = server[w]
      BY <2>3, <3>1 DEF Brings
    <3>4. Values(pending, w)' = {}
      <4>1. About(pending, w) = {i}
        BY <3>1, <3>2
      <4>2. QED
        BY <2>2, <2>5, <4>1, Emptied
    <3>5. (\A k \in Ids : ~Ahead(w, k)') /\ (\A l \in Loads : ~Got(w, l)') /\ Values(socket, w)' = {}
      BY <2>1, <3>2, SameParts
    <3>6. store'[w] = server'[w]
      BY <2>1, <2>4, <2>7, <3>3
    <3>7. QED
      BY <2>3, <3>4, <3>5, <3>6 DEF Brings
  <2>8. QED
    BY <2>6, <2>7
<1>3. ASSUME NEW i \in DOMAIN pending, UpdateDropped(i)
      PROVE  StoreInv'
  <2> SUFFICES ASSUME NEW w \in Workspaces, w \notin disturbed' \cup gone'
               PROVE  Solo(w)' /\ Brings(w)'
    BY DEF StoreInv
  <2>1. /\ pending' = RemoveAt(pending, i)
        /\ UNCHANGED <<server, gone, requestVars, store, loads, socket>> /\ Disturbs({}, {pending[i].workspaceId})
    BY <1>3 DEF UpdateDropped
  <2>2. Solo(w)' /\ Brings(w) /\ pending[i].workspaceId # w
    BY <2>1, NotHealed
  <2>3. pending \in Seq(States)
    BY DEF Types
  <2>4. Values(pending, w)' = Values(RemoveAt(pending, i), w)
    BY <2>1 DEF Values, About
  <2>5. Values(pending, w)' = Values(pending, w)
    BY <2>2, <2>3, <2>4, Emptied
  <2>6. QED
    BY <2>1, <2>2, <2>5, BringsStays, SameParts
<1>4. ASSUME NEW l \in Loads, GetWorkspace(l)
      PROVE  StoreInv'
  <2> SUFFICES ASSUME NEW w \in Workspaces, w \notin disturbed' \cup gone'
               PROVE  Solo(w)' /\ Brings(w)'
    BY DEF StoreInv
  <2>1. PICK v \in Workspaces \ gone :
          /\ loads[l].status = "asked" /\ loads'[l].status = "got"
          /\ loads'[l].workspaceId = v /\ loads'[l].vertices = server[v]
          /\ \A k \in Loads : k # l => loads'[k] = loads[k]
          /\ SetWorkspace(v, server[v])
          /\ UNCHANGED <<server, gone, requestVars, pending, messageVars>>
          /\ Disturbs({v}, {})
    BY <1>4, LoadSteps
  <2>2. server[v] \in Contents
    BY DEF Types
  <2>3. /\ DOMAIN store' = DOMAIN store \cup {v} /\ store'[v] = server[v]
        /\ \A u \in DOMAIN store : u # v => store'[u] = store[u]
    BY <2>1, <2>2, StoreSet
  <2>4. Solo(w)' /\ (w \in disturbed => w = v)
    BY <2>1, Undisturbed
  <2>5. CASE w # v
    <3>1. Brings(w)
      BY <2>1, <2>4, <2>5 DEF StoreInv
    <3>2. w \in DOMAIN store' => w \in DOMAIN store /\ store'[w] = store[w]
      BY <2>3, <2>5
    <3>3. \A k \in Loads : Got(w, k)' => Got(w, k) /\ loads'[k].vertices = loads[k].vertices
      BY <2>1, <2>5 DEF Got
    <3>4. QED
      BY <2>1, <2>4, <3>1, <3>2, <3>3, BringsStays, SameParts
  <2>6. CASE w = v
    <3>1. l \in Loading(w)'
      BY <2>1, <2>6 DEF Loading
    <3>2. /\ \A i \in Ids : ~Ahead(w, i)'
          /\ \A k \in Loads : Got(w, k)' => k = l
          /\ Values(socket, w)' = {} /\ Values(pending, w)' = {}
      BY <2>4, <3>1, SoloMeansNext
    <3>3. store'[w] = server'[w] /\ loads'[l].vertices = server'[w]
      BY <2>1, <2>3, <2>6
    <3>4. QED
      BY <2>4, <3>2, <3>3 DEF Brings
  <2>7. QED
    BY <2>5, <2>6
<1>5. ASSUME NEW l \in Loads, WorkspaceGot(l)
      PROVE  StoreInv'
  <2> SUFFICES ASSUME NEW w \in Workspaces, w \notin disturbed' \cup gone'
               PROVE  Solo(w)' /\ Brings(w)'
    BY DEF StoreInv
  <2> DEFINE v == loads[l].workspaceId
             vertices == loads[l].vertices
  <2>1. /\ SetWorkspace(v, vertices)
        /\ UNCHANGED <<server, gone, requestVars, pending, socket>> /\ Disturbs({}, {})
    BY <1>5 DEF WorkspaceGot
  <2>2. /\ loads[l].status = "got" /\ loads'[l].status = "done"
        /\ \A k \in Loads : k # l => loads'[k] = loads[k]
        /\ v \in Workspaces /\ vertices \in Contents
    BY <1>5, LoadSteps
  <2>3. Solo(w)' /\ Solo(w) /\ Brings(w)
    BY <2>1, NotHealed
  <2>4. /\ DOMAIN store' = DOMAIN store \cup {v} /\ store'[v] = vertices
        /\ \A u \in DOMAIN store : u # v => store'[u] = store[u]
    BY <2>1, <2>2, StoreSet
  <2>5. \A k \in Loads : Got(w, k)' => k # l /\ Got(w, k) /\ loads'[k].vertices = loads[k].vertices
    BY <2>2 DEF Got
  <2>6. CASE w # v
    <3>1. w \in DOMAIN store' => w \in DOMAIN store /\ store'[w] = store[w]
      BY <2>4, <2>6
    <3>2. QED
      BY <2>1, <2>3, <2>5, <3>1, BringsStays, SameParts
  <2>7. CASE w = v
    <3>1. Got(w, l) /\ l \in Loading(w)
      BY <2>2, <2>7 DEF Got, Loading
    <3>2. /\ \A i \in Ids : ~Ahead(w, i)
          /\ \A k \in Loads : Got(w, k) => k = l
          /\ Values(socket, w) = {} /\ Values(pending, w) = {}
      BY <2>3, <3>1, SoloMeans
    <3>3. vertices = server[w]
      BY <2>3, <3>1 DEF Brings
    <3>4. \A k \in Loads : ~Got(w, k)'
      BY <2>5, <3>2
    <3>5. (\A i \in Ids : ~Ahead(w, i)') /\ Values(socket, w)' = {} /\ Values(pending, w)' = {}
      BY <2>1, <3>2, SameParts
    <3>6. store'[w] = server'[w]
      BY <2>1, <2>4, <2>7, <3>3
    <3>7. QED
      BY <2>3, <3>4, <3>5, <3>6 DEF Brings
  <2>8. QED
    BY <2>6, <2>7
<1>6. ASSUME NEW l \in Loads, LoadFails(l)
      PROVE  StoreInv'
  <2> SUFFICES ASSUME NEW w \in Workspaces, w \notin disturbed' \cup gone'
               PROVE  Solo(w)' /\ Brings(w)'
    BY DEF StoreInv
  <2>1. /\ UNCHANGED <<server, gone, requestVars, store, pending, messageVars>>
        /\ Disturbs({}, {loads[l].workspaceId})
    BY <1>6 DEF LoadFails
  <2>2. /\ loads'[l].status \in {"failed", "half"}
        /\ \A k \in Loads : k # l => loads'[k] = loads[k]
    BY <1>6, LoadSteps
  <2>3. Solo(w)' /\ Brings(w)
    BY <2>1, NotHealed
  <2>4. \A k \in Loads : Got(w, k)' => Got(w, k) /\ loads'[k].vertices = loads[k].vertices
    BY <2>2 DEF Got
  <2>5. QED
    BY <2>1, <2>3, <2>4, BringsStays, SameParts
<1>7. QED
  BY <1>1, <1>2, <1>3, <1>4, <1>5, <1>6 DEF PendingNext, LoadNext

LEMMA StoreStays == Types /\ AskedInv /\ LoadInv /\ StoreInv /\ [Next]_vars => StoreInv'
BY NextTypes, Asking, StoreStaysForSaves, StoreStaysForOthers, StoreStaysForStore DEF Next

-----------------------------------------------------------------------------
(* The page follows the store.                                             *)

\* A load that failed halfway stays
LEMMA HalfStays ==
  ASSUME Types, LoadInv, [Next]_vars, NEW l \in Loads, loads[l].status = "half"
  PROVE  loads'[l] = loads[l]
<1>1. CASE loads' = loads
  BY <1>1
<1>2. ASSUME NEW w \in Workspaces, SwitchWorkspace(w) \/ WorkspaceDelete(w)
      PROVE  loads'[l] = loads[l]
  BY <1>2, Called DEF SwitchWorkspace, WorkspaceDelete
<1>3. ASSUME NEW k \in Loads, GetWorkspace(k) \/ WorkspaceGot(k) \/ LoadFails(k)
      PROVE  loads'[l] = loads[l]
  <2>1. CASE k = l
    BY <1>3, <2>1, LoadSteps
  <2>2. CASE k # l
    BY <1>3, <2>2, LoadSteps
  <2>3. QED
    BY <2>1, <2>2
<1>4. QED
  BY <1>1, <1>2, <1>3, Asking, LoadsStayThere DEF Next, StartSaveNext, ServeNext, AnswerNext, LoadNext

LEMMA HalvedStays == \A w : Types /\ LoadInv /\ [Next]_vars /\ ~Halved(w)' => ~Halved(w)
<1> SUFFICES ASSUME NEW w, Types, LoadInv, [Next]_vars, Halved(w)
             PROVE  Halved(w)'
  OBVIOUS
<1>1. PICK l \in Loads : loads[l].status = "half" /\ loads[l].workspaceId = w
  BY DEF Halved
<1>2. loads'[l] = loads[l]
  BY <1>1, HalfStays
<1>3. QED
  BY <1>1, <1>2 DEF Halved

LEMMA TellsStays ==
  ASSUME NEW w, Tells(w), store'[w] = store[w],
         About(toPage, w)' = About(toPage, w),
         \A i \in About(toPage, w) : toPage'[i].vertices = toPage[i].vertices,
         shown'.workspaceId = w => shown' = shown
  PROVE  Tells(w)'
<1>1. \A i \in About(toPage, w)' : (\A j \in About(toPage, w)' : j <= i) => toPage'[i].vertices = store'[w]
  BY DEF Tells
<1>2. About(toPage, w)' = {} /\ shown'.workspaceId = w => shown'.vertices = store'[w]
  BY DEF Tells
<1>3. QED
  BY <1>1, <1>2 DEF Tells

\* The messages about w after one was added
LEMMA AboutAdded ==
  ASSUME Types, NEW m \in Messages, toPage' = Append(toPage, m), NEW w
  PROVE  /\ m.workspaceId # w => /\ About(toPage, w)' = About(toPage, w)
                                 /\ \A i \in About(toPage, w) : toPage'[i] = toPage[i]
         /\ m.workspaceId = w => /\ About(toPage, w)' # {}
                                 /\ \A i \in About(toPage, w)' :
                                      (\A j \in About(toPage, w)' : j <= i) => toPage'[i] = m
<1>1. toPage \in Seq(Messages)
  BY DEF Types
<1>2. /\ DOMAIN toPage = 1 .. Len(toPage) /\ Len(toPage) \in Nat
      /\ toPage'[Len(toPage) + 1] = m
      /\ \A i \in 1 .. Len(toPage) : toPage'[i] = toPage[i]
      /\ m.workspaceId = w => About(toPage', w) = About(toPage, w) \cup {Len(toPage) + 1}
      /\ m.workspaceId # w => About(toPage', w) = About(toPage, w)
  BY <1>1, Appended
<1>3. About(toPage, w)' = About(toPage', w)
  BY DEF About
<1>4. About(toPage, w) \subseteq 1 .. Len(toPage)
  BY <1>2 DEF About
<1>5. ASSUME m.workspaceId = w
      PROVE  /\ About(toPage, w)' # {}
             /\ \A i \in About(toPage, w)' :
                  (\A j \in About(toPage, w)' : j <= i) => toPage'[i] = m
  <2>1. Len(toPage) + 1 \in About(toPage, w)'
    BY <1>2, <1>3, <1>5
  <2>2. ASSUME NEW i \in About(toPage, w)', \A j \in About(toPage, w)' : j <= i
        PROVE  i = Len(toPage) + 1
    <3>1. i \in 1 .. Len(toPage) + 1 /\ Len(toPage) + 1 <= i
      BY <1>2, <1>3, <1>4, <1>5, <2>1, <2>2
    <3>2. QED
      BY <1>2, <3>1
  <2>3. QED
    BY <1>2, <2>1, <2>2
<1>6. QED
  BY <1>2, <1>3, <1>4, <1>5

\* The messages about w after the first was read
LEMMA AboutRead ==
  ASSUME Types, toPage # <<>>, toPage' = Tail(toPage), NEW w
  PROVE  /\ \A i \in About(toPage, w)' : (\A j \in About(toPage, w)' : j <= i) =>
              \E k \in About(toPage, w) : (\A j \in About(toPage, w) : j <= k) /\ toPage'[i] = toPage[k]
         /\ About(toPage, w)' = {} => About(toPage, w) \subseteq {1}
         /\ Head(toPage).workspaceId # w /\ About(toPage, w)' = {} => About(toPage, w) = {}
         /\ Head(toPage).workspaceId = w => 1 \in About(toPage, w)
         /\ Head(toPage) = toPage[1]
<1>1. toPage \in Seq(Messages)
  BY DEF Types
<1>2. /\ 1 \in DOMAIN toPage /\ Head(toPage) = toPage[1] /\ About(toPage, w) \subseteq Nat
      /\ \A i \in About(toPage', w) : i + 1 \in About(toPage, w) /\ toPage'[i] = toPage[i + 1]
      /\ \A i \in About(toPage, w) : i # 1 => i - 1 \in About(toPage', w) /\ toPage'[i - 1] = toPage[i]
      /\ Head(toPage).workspaceId = w => 1 \in About(toPage, w)
      /\ Head(toPage).workspaceId # w => 1 \notin About(toPage, w)
  <2>0. Rest(toPage, toPage')
    BY QueueTypes DEF Rest
  <2>1. 1 \in DOMAIN toPage /\ Head(toPage) = toPage[1] /\ About(toPage, w) \subseteq Nat
    BY <1>1, <2>0, Shortened
  <2>4. /\ Head(toPage).workspaceId = w => 1 \in About(toPage, w)
        /\ Head(toPage).workspaceId # w => 1 \notin About(toPage, w)
    BY <1>1, <2>0, Shortened
  <2>6. Len(toPage) \in Nat \ {0} /\ DOMAIN toPage = 1 .. Len(toPage)
    BY QueueTypes
  <2>2. \A i \in About(toPage', w) : i + 1 \in About(toPage, w) /\ toPage'[i] = toPage[i + 1]
    BY ONLY <2>0, <2>6 DEF About, Rest
  <2>3. ASSUME NEW i \in About(toPage, w), i # 1
        PROVE  i - 1 \in About(toPage', w) /\ toPage'[i - 1] = toPage[i]
    <3>1. i \in 1 .. Len(toPage) /\ i - 1 \in 1 .. Len(toPage) - 1 /\ (i - 1) + 1 = i
      BY <2>3, <2>6 DEF About
    <3>2. QED
      BY ONLY <2>0, <2>6, <3>1, i \in About(toPage, w) DEF About, Rest
  <2>5. QED
    BY <2>1, <2>2, <2>3, <2>4
<1>3. About(toPage, w)' = About(toPage', w)
  BY DEF About
<1>4. ASSUME NEW i \in About(toPage, w)', \A j \in About(toPage, w)' : j <= i
      PROVE  \E k \in About(toPage, w) : (\A j \in About(toPage, w) : j <= k) /\ toPage'[i] = toPage[k]
  <2>1. i + 1 \in About(toPage, w) /\ toPage'[i] = toPage[i + 1]
    BY <1>2, <1>3
  <2>2. i \in Nat
    <3>1. DOMAIN Tail(toPage) \subseteq Nat
      BY <1>1, QueueTypes
    <3>2. QED
      BY <1>3, <3>1 DEF About
  <2>3. ASSUME NEW j \in About(toPage, w)
        PROVE  j <= i + 1
    <3>1. j \in Nat
      BY <1>2
    <3>2. CASE j = 1
      BY <2>2, <3>2
    <3>3. CASE j # 1
      <4>1. j - 1 <= i
        BY <1>2, <1>3, <1>4, <3>3
      <4>2. QED
        BY <2>2, <3>1, <4>1
    <3>4. QED
      BY <3>2, <3>3
  <2>4. QED
    BY <2>1, <2>3
<1>5. About(toPage, w)' = {} => About(toPage, w) \subseteq {1}
  BY <1>2, <1>3
<1>6. QED
  BY <1>2, <1>4, <1>5

LEMMA PageStays == Types /\ AskedInv /\ LoadInv /\ PageInv /\ [Next]_vars => PageInv'
<1> SUFFICES ASSUME Types, AskedInv, LoadInv, PageInv, [Next]_vars,
                    NEW w \in DOMAIN store', ~Halved(w)', \A l \in Loads : ~Got(w, l)'
             PROVE  Tells(w)'
  BY DEF PageInv
<1> USE DEF vars, pageVars, workerVars, messageVars, requestVars, boundVars
<1>1. ~Halved(w)
  BY HalvedStays
<1>2. w \in Workspaces /\ w # NoWorkspace
  <2>1. Types'
    BY NextTypes
  <2>2. QED
    BY <2>1, ConstantsAssumption DEF Types
<1>3. (\A l \in Loads : ~Got(w, l)) /\ w \in DOMAIN store => Tells(w)
  BY <1>1 DEF PageInv
<1>4. CASE loads' = loads /\ store' = store /\ shown' = shown /\ toPage' = toPage
  <2>1. (\A l \in Loads : ~Got(w, l)) /\ w \in DOMAIN store
    BY <1>4, SameParts
  <2>2. About(toPage, w)' = About(toPage, w)
    BY <1>4 DEF About
  <2>3. QED
    BY <1>3, <1>4, <2>1, <2>2, TellsStays
<1>5. ASSUME NEW m \in Messages, m.workspaceId = NoWorkspace, loads' = loads, store' = store, shown' = shown,
             toPage' = Append(toPage, m)
      PROVE  Tells(w)'
  <2>1. (\A l \in Loads : ~Got(w, l)) /\ w \in DOMAIN store
    BY <1>5, SameParts
  <2>2. /\ About(toPage, w)' = About(toPage, w)
        /\ \A i \in About(toPage, w) : toPage'[i] = toPage[i]
    BY <1>2, <1>5, AboutAdded, ZenonT(30)
  <2>3. QED
    BY <1>3, <1>5, <2>1, <2>2, TellsStays
<1>6. ASSUME NEW id \in Ids, StartSave(id)
      PROVE  Tells(w)'
  <2>1. loads' = loads /\ store' = store /\ shown' = shown
    BY <1>6 DEF StartSave
  <2>2. toPage' = toPage \/ toPage' = Append(toPage, Completed(id, FALSE, TRUE))
    BY <1>6, Started
  <2>3. Completed(id, FALSE, TRUE) \in Messages /\ Completed(id, FALSE, TRUE).workspaceId = NoWorkspace
    BY MessageTypes DEF Completed, Message
  <2>4. QED
    BY <1>4, <1>5, <2>1, <2>2, <2>3
<1>7. ASSUME NEW id \in Ids, Answer(id)
      PROVE  Tells(w)'
  <2>1. loads' = loads /\ store' = store /\ shown' = shown
    BY <1>7 DEF Answer
  <2>2. PICK saved \in BOOLEAN : toPage' = Append(toPage, Completed(id, saved, saved))
    BY <1>7, Answered
  <2>3. Completed(id, saved, saved) \in Messages /\ Completed(id, saved, saved).workspaceId = NoWorkspace
    BY MessageTypes DEF Completed, Message
  <2>4. QED
    BY <1>5, <2>1, <2>2, <2>3
<1>8. ASSUME NEW v \in Workspaces, SwitchWorkspace(v) \/ WorkspaceDelete(v)
      PROVE  Tells(w)'
  <2>1. toPage' = toPage /\ Load(v)
    BY <1>8 DEF SwitchWorkspace, WorkspaceDelete
  <2>2. w \in DOMAIN store /\ store'[w] = store[w]
    BY <1>8 DEF SwitchWorkspace, WorkspaceDelete
  <2>3. shown'.workspaceId = w => shown' = shown
    BY <1>2, <1>8 DEF SwitchWorkspace, WorkspaceDelete
  <2>4. \A l \in Loads : ~Got(w, l)
    <3>1. PICK l \in Loads : /\ loads[l].status = "none"
                             /\ \A k \in Loads : k # l => loads'[k] = loads[k]
      BY <2>1, Called
    <3>2. QED
      BY <3>1 DEF Got
  <2>5. About(toPage, w)' = About(toPage, w)
    BY <2>1 DEF About
  <2>6. QED
    BY <1>3, <2>1, <2>2, <2>3, <2>4, <2>5, TellsStays
<1>9. ASSUME NEW v \in Workspaces, NEW vertices \in Contents, NEW type \in {"workspaceUpdated", "workspaceLoaded"},
             SetWorkspace(v, vertices), toPage' = Append(toPage, Told(type, v, vertices)), shown' = shown,
             \A l \in Loads : Got(w, l) => w = v
      PROVE  Tells(w)'
  <2>1. /\ Told(type, v, vertices) \in Messages
        /\ Told(type, v, vertices).workspaceId = v /\ Told(type, v, vertices).vertices = vertices
    BY MessageTypes DEF Told, Message
  <2>2. /\ DOMAIN store' = DOMAIN store \cup {v} /\ store'[v] = vertices
        /\ \A u \in DOMAIN store : u # v => store'[u] = store[u]
    BY <1>9, StoreSet
  <2>3. CASE w = v
    <3>1. /\ About(toPage, w)' # {}
          /\ \A i \in About(toPage, w)' :
               (\A j \in About(toPage, w)' : j <= i) => toPage'[i] = Told(type, v, vertices)
      BY <1>9, <2>1, <2>3, AboutAdded
    <3>2. QED
      BY <2>1, <2>2, <2>3, <3>1 DEF Tells
  <2>4. CASE w # v
    <3>1. /\ About(toPage, w)' = About(toPage, w)
          /\ \A i \in About(toPage, w) : toPage'[i] = toPage[i]
      BY <1>9, <2>1, <2>4, AboutAdded
    <3>2. w \in DOMAIN store /\ store'[w] = store[w]
      BY <2>2, <2>4
    <3>3. QED
      BY <1>3, <1>9, <2>4, <3>1, <3>2, TellsStays
  <2>5. QED
    BY <2>3, <2>4
<1>10. ASSUME NEW i \in DOMAIN pending, Updated(i)
       PROVE  Tells(w)'
  <2>1. pending[i] \in States
    BY DEF Types
  <2>2. pending[i].workspaceId \in Workspaces /\ pending[i].vertices \in Contents
    BY <2>1 DEF States
  <2>3. \A l \in Loads : ~Got(w, l)
    BY <1>10, SameParts DEF Updated
  <2>4. QED
    BY <1>9, <1>10, <2>2, <2>3 DEF Updated
<1>11. ASSUME NEW i \in DOMAIN pending, UpdateDropped(i)
       PROVE  Tells(w)'
  BY <1>4, <1>11 DEF UpdateDropped
<1>12. ASSUME NEW l \in Loads, GetWorkspace(l)
       PROVE  Tells(w)'
  <2>1. PICK v \in Workspaces \ gone :
          /\ loads[l].status = "asked" /\ loads'[l].status = "got" /\ loads'[l].workspaceId = v
          /\ \A k \in Loads : k # l => loads'[k] = loads[k]
          /\ SetWorkspace(v, server[v])
          /\ UNCHANGED <<shown, toPage>>
    BY <1>12, LoadSteps
  <2>2. server[v] \in Contents
    BY DEF Types
  <2>3. /\ DOMAIN store' = DOMAIN store \cup {v}
        /\ \A u \in DOMAIN store : u # v => store'[u] = store[u]
    BY <2>1, <2>2, StoreSet
  <2>4. w # v
    BY <2>1 DEF Got
  <2>5. \A k \in Loads : ~Got(w, k)
    BY <2>1 DEF Got
  <2>6. w \in DOMAIN store /\ store'[w] = store[w]
    BY <2>3, <2>4
  <2>7. About(toPage, w)' = About(toPage, w)
    BY <2>1 DEF About
  <2>8. QED
    BY <1>3, <2>1, <2>5, <2>6, <2>7, TellsStays
<1>13. ASSUME NEW l \in Loads, WorkspaceGot(l)
       PROVE  Tells(w)'
  <2>1. loads[l].workspaceId \in Workspaces /\ loads[l].vertices \in Contents
    BY <1>13, LoadSteps DEF WorkspaceGot
  <2>2. \A k \in Loads : Got(w, k) => w = loads[l].workspaceId
    <3>1. \A k \in Loads : k # l => loads'[k] = loads[k]
      BY <1>13, LoadSteps
    <3>2. QED
      BY <3>1 DEF Got
  <2>3. QED
    BY <1>9, <1>13, <2>1, <2>2 DEF WorkspaceGot
<1>14. ASSUME NEW l \in Loads, LoadFails(l)
       PROVE  Tells(w)'
  <2>1. /\ loads[l].status = "got" => loads'[l].status = "half"
        /\ loads'[l].workspaceId = loads[l].workspaceId
        /\ \A k \in Loads : k # l => loads'[k] = loads[k]
    BY <1>14, LoadSteps
  <2>2. \A k \in Loads : ~Got(w, k)
    BY <2>1 DEF Got, Halved
  <2>3. store' = store /\ toPage' = toPage /\ shown' = shown
    BY <1>14 DEF LoadFails
  <2>4. About(toPage, w)' = About(toPage, w)
    BY <2>3 DEF About
  <2>5. QED
    BY <1>3, <2>2, <2>3, <2>4, TellsStays
<1>15. CASE ProcessWorkerMessage
  <2> DEFINE m == Head(toPage)
  <2>1. toPage # <<>> /\ toPage' = Tail(toPage) /\ store' = store /\ loads' = loads
    BY <1>15 DEF ProcessWorkerMessage
  <2>2. Tells(w) /\ m \in Messages
    BY <1>3, <2>1, SameParts, QueueTypes
  <2>3. /\ \A i \in About(toPage, w)' : (\A j \in About(toPage, w)' : j <= i) =>
             \E k \in About(toPage, w) : (\A j \in About(toPage, w) : j <= k) /\ toPage'[i] = toPage[k]
        /\ About(toPage, w)' = {} => About(toPage, w) \subseteq {1}
        /\ m.workspaceId # w /\ About(toPage, w)' = {} => About(toPage, w) = {}
        /\ m.workspaceId = w => 1 \in About(toPage, w)
        /\ m = toPage[1]
    BY <2>1, AboutRead
  <2>4. \A i \in About(toPage, w)' : (\A j \in About(toPage, w)' : j <= i) => toPage'[i].vertices = store'[w]
    BY <2>1, <2>2, <2>3 DEF Tells
  <2>5. m.workspaceId = w /\ About(toPage, w)' = {} => m.vertices = store[w]
    <3>1. m.workspaceId = w /\ About(toPage, w)' = {} => About(toPage, w) = {1}
      BY <2>3
    <3>2. QED
      BY <2>2, <2>3, <3>1 DEF Tells
  <2>6. ASSUME About(toPage, w)' = {}, shown'.workspaceId = w
        PROVE  shown'.vertices = store'[w]
    <3> HIDE DEF m
    <3>1. CASE m.type = "dataRequestCompleted" /\ SaveCompleted(m)
      <4>1. m.workspaceId # w
        BY <1>2, <2>2, <3>1, MessageKnown
      <4>2. QED
        BY <2>1, <2>2, <2>3, <2>6, <3>1, <4>1 DEF SaveCompleted, Tells
    <3>2. CASE WorkspaceUpdated(m)
      <4>1. shown \in [workspaceId : Workspaces \cup {NoWorkspace}, vertices : Contents]
        BY DEF Types
      <4>2. CASE shown.workspaceId = m.workspaceId
        <5>1. shown' = [shown EXCEPT !.vertices = m.vertices]
          BY <3>2, <4>2 DEF WorkspaceUpdated
        <5>2. shown'.workspaceId = m.workspaceId /\ shown'.vertices = m.vertices
          BY <4>1, <4>2, <5>1
        <5>3. QED
          BY <2>1, <2>5, <2>6, <5>2
      <4>3. CASE shown.workspaceId # m.workspaceId
        <5>1. shown' = shown
          BY <3>2, <4>3 DEF WorkspaceUpdated
        <5>2. QED
          BY <2>1, <2>2, <2>3, <2>6, <4>3, <5>1 DEF Tells
      <4>4. QED
        BY <4>2, <4>3
    <3>3. CASE WorkspaceLoaded(m)
      BY <2>1, <2>5, <2>6, <3>3 DEF WorkspaceLoaded
    <3>4. QED
      BY <1>15, <3>1, <3>2, <3>3 DEF ProcessWorkerMessage, m
  <2>7. QED
    BY <2>4, <2>6 DEF Tells
<1>16. CASE Asks
  BY <1>4, <1>16 DEF Asks
<1>17. ASSUME NEW id \in Ids, BufferFires(id) \/ Serve(id)
       PROVE  Tells(w)'
  BY <1>4, <1>17 DEF BufferFires, Serve
<1>18. CASE UNCHANGED vars \/ SetPublicApi \/ WorkspaceChange
  BY <1>4, <1>18 DEF SetPublicApi, WorkspaceChange
<1>19. ASSUME NEW v \in Workspaces, NEW c \in UserChanges, RemoteChange(v, c)
       PROVE  Tells(w)'
  BY <1>4, <1>19 DEF RemoteChange
<1>20. QED
  BY <1>6, <1>7, <1>8, <1>10, <1>11, <1>12, <1>13, <1>14, <1>15, <1>16, <1>17, <1>18, <1>19, Asking
     DEF Next, StartSaveNext, ServeNext, AnswerNext, PendingNext, LoadNext

\* The messages on their way after a step
LEMMA MessagesAfter ==
  ASSUME Types, AskedInv, LoadInv, [Next]_vars
  PROVE  \/ toPage' = toPage
         \/ ProcessWorkerMessage /\ \A k \in DOMAIN toPage' : \E j \in DOMAIN toPage : toPage'[k] = toPage[j]
         \/ \E m \in Messages :
              /\ toPage' = Append(toPage, m)
              /\ \/ m.type = "dataRequestCompleted" /\ m.workspaceId = NoWorkspace
                 \/ m.type # "dataRequestCompleted" /\ SetWorkspace(m.workspaceId, m.vertices)
<1> USE DEF vars, pageVars, workerVars, messageVars, requestVars, boundVars
<1> DEFINE Goal ==
             \/ toPage' = toPage
             \/ ProcessWorkerMessage /\ \A k \in DOMAIN toPage' : \E j \in DOMAIN toPage : toPage'[k] = toPage[j]
             \/ \E m \in Messages :
                  /\ toPage' = Append(toPage, m)
                  /\ \/ m.type = "dataRequestCompleted" /\ m.workspaceId = NoWorkspace
                     \/ m.type # "dataRequestCompleted" /\ SetWorkspace(m.workspaceId, m.vertices)
<1>1. ASSUME toPage' = toPage
      PROVE  Goal
  BY <1>1
<1>2. ASSUME NEW id \in Ids, NEW saved \in BOOLEAN, NEW success \in BOOLEAN,
             toPage' = Append(toPage, Completed(id, saved, success))
      PROVE  Goal
  <2>1. /\ Completed(id, saved, success) \in Messages
        /\ Completed(id, saved, success).type = "dataRequestCompleted"
        /\ Completed(id, saved, success).workspaceId = NoWorkspace
    BY MessageTypes DEF Completed, Message
  <2>2. QED
    BY <1>2, <2>1
<1>3. ASSUME NEW v \in Workspaces, NEW vertices \in Contents, NEW type \in {"workspaceUpdated", "workspaceLoaded"},
             SetWorkspace(v, vertices), toPage' = Append(toPage, Told(type, v, vertices))
      PROVE  Goal
  <2>1. /\ Told(type, v, vertices) \in Messages
        /\ Told(type, v, vertices).workspaceId = v /\ Told(type, v, vertices).vertices = vertices
        /\ Told(type, v, vertices).type # "dataRequestCompleted"
    BY MessageTypes DEF Told, Message
  <2>2. QED
    BY <1>3, <2>1
<1>4. ASSUME NEW id \in Ids, StartSave(id)
      PROVE  Goal
  <2> HIDE DEF Goal
  <2>1. toPage' = toPage \/ toPage' = Append(toPage, Completed(id, FALSE, TRUE))
    BY <1>4, Started
  <2>2. PICK saved \in BOOLEAN, success \in BOOLEAN : saved = FALSE /\ success = TRUE
    OBVIOUS
  <2>3. toPage' = toPage \/ toPage' = Append(toPage, Completed(id, saved, success))
    BY <2>1, <2>2
  <2>4. QED
    BY <1>1, <1>2, <2>3
<1>5. ASSUME NEW id \in Ids, Answer(id)
      PROVE  Goal
  <2> HIDE DEF Goal
  <2>1. \E saved \in BOOLEAN : toPage' = Append(toPage, Completed(id, saved, saved))
    BY <1>5, Answered
  <2>2. QED
    BY <1>2, <2>1
<1>6. ASSUME NEW i \in DOMAIN pending, Updated(i)
      PROVE  Goal
  <2> HIDE DEF Goal
  <2>1. pending[i] \in States
    BY DEF Types
  <2>2. pending[i].workspaceId \in Workspaces /\ pending[i].vertices \in Contents
    BY <2>1 DEF States
  <2>3. QED
    BY <1>3, <1>6, <2>2 DEF Updated
<1>7. ASSUME NEW l \in Loads, WorkspaceGot(l)
      PROVE  Goal
  <2> HIDE DEF Goal
  <2>1. loads[l].workspaceId \in Workspaces /\ loads[l].vertices \in Contents
    BY <1>7, LoadSteps DEF WorkspaceGot
  <2>2. QED
    BY <1>3, <1>7, <2>1 DEF WorkspaceGot
<1>8. CASE ProcessWorkerMessage
  <2>1. /\ toPage # <<>> /\ toPage' = Tail(toPage)
    BY <1>8 DEF ProcessWorkerMessage
  <2>2. /\ Len(toPage) \in Nat \ {0} /\ DOMAIN toPage = 1 .. Len(toPage)
        /\ DOMAIN toPage' = 1 .. Len(toPage) - 1
        /\ \A i \in 1 .. Len(toPage) - 1 : toPage'[i] = toPage[i + 1]
    BY <2>1, QueueTypes
  <2>3. \A i \in 1 .. Len(toPage) - 1 : i + 1 \in 1 .. Len(toPage)
    BY <2>2
  <2>4. QED
    BY <1>8, <2>2, <2>3
<1>9. CASE \/ UNCHANGED vars \/ Asks \/ SetPublicApi \/ ServeNext \/ WorkspaceChange
           \/ \E id \in Ids : BufferFires(id)
           \/ \E w \in Workspaces : SwitchWorkspace(w) \/ WorkspaceDelete(w)
           \/ \E w \in Workspaces, c \in UserChanges : RemoteChange(w, c)
           \/ \E i \in DOMAIN pending : UpdateDropped(i)
           \/ \E l \in Loads : GetWorkspace(l) \/ LoadFails(l)
  <2>1. toPage' = toPage
    BY <1>9 DEF Asks, SetPublicApi, ServeNext, Serve, WorkspaceChange, BufferFires, SwitchWorkspace, WorkspaceDelete,
                RemoteChange, UpdateDropped, GetWorkspace, LoadFails
  <2>2. QED
    BY <2>1
<1>10. QED
  BY <1>4, <1>5, <1>6, <1>7, <1>8, <1>9, Asking DEF Next, StartSaveNext, AnswerNext, PendingNext, LoadNext

\* What shown becomes
LEMMA ShownAfter ==
  ASSUME Types, [Next]_vars
  PROVE  \/ shown' = shown
         \/ \E w \in Workspaces : SwitchWorkspace(w) /\ shown'.workspaceId = NoWorkspace
         \/ /\ ProcessWorkerMessage /\ toPage # <<>> /\ 1 \in DOMAIN toPage
            /\ Head(toPage) = toPage[1] /\ Head(toPage) \in Messages
            /\ \/ Head(toPage).type = "workspaceUpdated" /\ shown'.workspaceId = shown.workspaceId
               \/ Head(toPage).type = "workspaceLoaded" /\ shown'.workspaceId = Head(toPage).workspaceId
<1> USE DEF vars, pageVars, workerVars, messageVars, requestVars, boundVars
<1>1. CASE ProcessWorkerMessage
  <2>1. toPage # <<>> /\ 1 \in DOMAIN toPage /\ Head(toPage) = toPage[1] /\ Head(toPage) \in Messages
    <3>1. toPage # <<>>
      BY <1>1 DEF ProcessWorkerMessage
    <3>2. Len(toPage) \in Nat \ {0} /\ DOMAIN toPage = 1 .. Len(toPage)
      BY <3>1, QueueTypes
    <3>3. Head(toPage) = toPage[1] /\ Head(toPage) \in Messages
      BY <3>1, QueueTypes
    <3>4. QED
      BY <3>1, <3>2, <3>3
  <2>2. shown \in [workspaceId : Workspaces \cup {NoWorkspace}, vertices : Contents]
    BY DEF Types
  <2>3. SaveCompleted(Head(toPage)) => shown' = shown
    BY DEF SaveCompleted
  <2>4. WorkspaceUpdated(Head(toPage)) => shown'.workspaceId = shown.workspaceId
    BY <2>2 DEF WorkspaceUpdated
  <2>5. WorkspaceLoaded(Head(toPage)) => shown'.workspaceId = Head(toPage).workspaceId
    BY DEF WorkspaceLoaded
  <2>6. QED
    BY <1>1, <2>1, <2>3, <2>4, <2>5 DEF ProcessWorkerMessage
<1>2. ASSUME NEW w \in Workspaces, SwitchWorkspace(w)
      PROVE  shown'.workspaceId = NoWorkspace
  BY <1>2 DEF SwitchWorkspace
<1>3. CASE \/ UNCHANGED vars \/ Asks \/ SetPublicApi \/ ServeNext \/ WorkspaceChange
           \/ \E id \in Ids : BufferFires(id)
           \/ \E w \in Workspaces : WorkspaceDelete(w)
           \/ \E w \in Workspaces, c \in UserChanges : RemoteChange(w, c)
           \/ StartSaveNext \/ AnswerNext \/ PendingNext \/ LoadNext
  BY <1>3 DEF Asks, SetPublicApi, ServeNext, Serve, WorkspaceChange, BufferFires, WorkspaceDelete,
              RemoteChange, StartSaveNext, StartSave, AnswerNext, Answer, PendingNext, Updated, UpdateDropped,
              LoadNext, GetWorkspace, WorkspaceGot, LoadFails
<1>4. QED
  BY <1>1, <1>2, <1>3, Asking DEF Next

\* The store forgets what is gone, and nothing else
LEMMA StoreKeeps ==
  ASSUME Types, LoadInv, [Next]_vars
  PROVE  DOMAIN store \cup gone \subseteq DOMAIN store' \cup gone'
<1> USE DEF vars, pageVars, workerVars, messageVars, requestVars, boundVars
<1>1. ASSUME NEW w \in Workspaces, WorkspaceDelete(w)
      PROVE  DOMAIN store \cup gone \subseteq DOMAIN store' \cup gone'
  BY <1>1 DEF WorkspaceDelete
<1>2. ASSUME NEW w, NEW vertices, SetWorkspace(w, vertices), gone' = gone
      PROVE  DOMAIN store \cup gone \subseteq DOMAIN store' \cup gone'
  BY <1>2 DEF SetWorkspace
<1>3. CASE PendingNext
  BY <1>2, <1>3 DEF PendingNext, Updated, UpdateDropped
<1>4. CASE LoadNext
  BY <1>2, <1>4 DEF LoadNext, GetWorkspace, WorkspaceGot, LoadFails
<1>5. CASE \/ UNCHANGED vars \/ Asks \/ SetPublicApi \/ ServeNext \/ WorkspaceChange
           \/ \E id \in Ids : BufferFires(id)
           \/ \E w \in Workspaces : SwitchWorkspace(w)
           \/ \E w \in Workspaces, c \in UserChanges : RemoteChange(w, c)
           \/ StartSaveNext \/ AnswerNext \/ ProcessWorkerMessage
  BY <1>5 DEF Asks, SetPublicApi, ServeNext, Serve, WorkspaceChange, BufferFires, SwitchWorkspace,
              RemoteChange, StartSaveNext, StartSave, AnswerNext, Answer, ProcessWorkerMessage
<1>6. QED
  BY <1>1, <1>3, <1>4, <1>5, Asking DEF Next

LEMMA ToldStays == Types /\ AskedInv /\ LoadInv /\ ToldInv /\ [Next]_vars => ToldInv'
<1> SUFFICES ASSUME Types, AskedInv, LoadInv, ToldInv, [Next]_vars
             PROVE  ToldInv'
  OBVIOUS
<1>1. DOMAIN store \cup gone \subseteq DOMAIN store' \cup gone'
  BY StoreKeeps
<1>2. shown'.workspaceId \in DOMAIN store' \cup gone' \cup {NoWorkspace}
  BY <1>1, ShownAfter DEF ToldInv
<1>3. ASSUME NEW m \in Messages, toPage' = Append(toPage, m),
             \/ m.type = "dataRequestCompleted" /\ m.workspaceId = NoWorkspace
             \/ m.type # "dataRequestCompleted" /\ SetWorkspace(m.workspaceId, m.vertices)
      PROVE  \A k \in DOMAIN toPage' : toPage'[k].workspaceId \in DOMAIN store' \cup gone' \cup {NoWorkspace}
  <2>1. m.workspaceId \in DOMAIN store' \cup {NoWorkspace}
    BY <1>3 DEF SetWorkspace
  <2>2. \A k \in DOMAIN toPage' : \/ k \in DOMAIN toPage /\ toPage'[k] = toPage[k]
                                  \/ toPage'[k] = m
    BY <1>3, MessageAdded
  <2>3. QED
    BY <1>1, <2>1, <2>2 DEF ToldInv
<1>4. \A k \in DOMAIN toPage' : toPage'[k].workspaceId \in DOMAIN store' \cup gone' \cup {NoWorkspace}
  BY <1>1, <1>3, MessagesAfter DEF ToldInv
<1>5. QED
  BY <1>2, <1>4 DEF ToldInv

-----------------------------------------------------------------------------
(* Undo puts back what the server had.                                     *)

\* The server has not heard of the save
Unserved(i) == saves[i].status \in {"asked", "sent", "orphan"}

\* What a step makes of a save
LEMMA SaveAfter ==
  ASSUME Types, AskedInv, LoadInv, [Next]_vars, NEW i \in Ids, i <= asked
  PROVE  /\ i <= asked' /\ saves'[i].change = saves[i].change
         /\ \/ /\ saves'[i].before = saves[i].before /\ saves'[i].workspaceId = saves[i].workspaceId
               /\ Unserved(i)' => Unserved(i) /\ (saves'[i].status = "asked" => saves[i].status = "asked")
            \/ saves[i].status = "asked" /\ saves'[i].before = {}
            \/ /\ saves[i].status \in {"sent", "orphan"} /\ ~Unserved(i)'
               /\ saves'[i].workspaceId = saves[i].workspaceId
               /\ saves[i].workspaceId \notin gone \cup disturbed
               /\ saves'[i].before = {server[saves[i].workspaceId][saves[i].change.vertex]}
<1> USE DEF vars, pageVars, workerVars, messageVars, requestVars, boundVars
<1> DEFINE Goal ==
             /\ i <= asked' /\ saves'[i].change = saves[i].change
             /\ \/ /\ saves'[i].before = saves[i].before /\ saves'[i].workspaceId = saves[i].workspaceId
                   /\ Unserved(i)' => Unserved(i) /\ (saves'[i].status = "asked" => saves[i].status = "asked")
                \/ saves[i].status = "asked" /\ saves'[i].before = {}
                \/ /\ saves[i].status \in {"sent", "orphan"} /\ ~Unserved(i)'
                   /\ saves'[i].workspaceId = saves[i].workspaceId
                   /\ saves[i].workspaceId \notin gone \cup disturbed
                   /\ saves'[i].before = {server[saves[i].workspaceId][saves[i].change.vertex]}
<1>1. ASSUME asked' = asked, saves'[i] = saves[i]
      PROVE  Goal
  BY <1>1 DEF Unserved
<1>2. CASE Quiet
  BY <1>1, <1>2 DEF Quiet
<1>3. CASE Asks
  <2>1. asked' = asked + 1 /\ asked \in Nat /\ i \in Nat /\ \A k \in Ids : k # asked' => saves'[k] = saves[k]
    BY <1>3, Asked, IdTypes DEF Types
  <2>2. i <= asked' /\ i # asked'
    BY <2>1
  <2>3. saves'[i] = saves[i]
    BY <2>1, <2>2
  <2>4. QED
    BY <2>2, <2>3 DEF Unserved
<1>4. CASE SetPublicApi
  <2>1. asked' = asked /\ saves' = [k \in Ids |-> [saves[k] EXCEPT !.posts = IF @ > 1 THEN @ - 1 ELSE @]]
    BY <1>4 DEF SetPublicApi
  <2>2. saves[i] \in SaveRecords
    BY DEF Types
  <2>3. /\ saves'[i].status = saves[i].status /\ saves'[i].change = saves[i].change
        /\ saves'[i].workspaceId = saves[i].workspaceId /\ saves'[i].before = saves[i].before
    BY <2>1, <2>2 DEF SaveRecords
  <2>4. QED
    BY <2>1, <2>3 DEF Unserved
<1>5. ASSUME NEW id \in Ids, StartSave(id)
      PROVE  Goal
  <2>1. asked' = asked /\ saves[id].status = "asked"
    BY <1>5 DEF StartSave
  <2>2. /\ saves'[id].change = saves[id].change /\ saves'[id].before = saves[id].before /\ saves[id].before = {}
        /\ \A k \in Ids : k # id =>
             /\ saves'[k].change = saves[k].change /\ saves'[k].before = saves[k].before
             /\ saves'[k].workspaceId = saves[k].workspaceId
             /\ saves'[k].status = CASE saves[k].status = "sent" -> "orphan"
                                     [] saves[k].status \in {"applied", "refused"} -> "aborted"
                                     [] OTHER -> saves[k].status
    BY <1>5, Started
  <2>3. CASE i = id
    BY <2>1, <2>2, <2>3
  <2>4. CASE i # id
    BY <2>1, <2>2, <2>4 DEF Unserved
  <2>5. QED
    BY <2>3, <2>4
<1>6. ASSUME NEW id \in Ids, Serve(id)
      PROVE  Goal
  <2>1. /\ asked' = asked /\ saves[id].status \in {"sent", "orphan"}
        /\ saves'[id].change = saves[id].change /\ saves'[id].workspaceId = saves[id].workspaceId
        /\ \A k \in Ids : k # id => saves'[k] = saves[k]
        /\ \/ /\ saves[id].workspaceId \notin gone
              /\ saves'[id].status \in {"aborted", "applied"}
              /\ saves'[id].before = IF saves[id].workspaceId \in disturbed THEN saves[id].before
                                     ELSE {server[saves[id].workspaceId][saves[id].change.vertex]}
           \/ saves'[id].status \in {"aborted", "refused"} /\ saves'[id].before = saves[id].before
    BY <1>6, Served
  <2>2. CASE i = id
    BY <2>1, <2>2 DEF Unserved
  <2>3. CASE i # id
    BY <1>1, <2>1, <2>3
  <2>4. QED
    BY <2>2, <2>3
<1>7. ASSUME NEW id \in Ids, Answer(id)
      PROVE  Goal
  <2>1. asked' = asked
    BY <1>7 DEF Answer
  <2>2. /\ saves'[id].status = "answered"
        /\ saves'[id].change = saves[id].change /\ saves'[id].workspaceId = saves[id].workspaceId
        /\ saves'[id].before = saves[id].before
        /\ \A k \in Ids : k # id => saves'[k] = saves[k]
    BY <1>7, Answered
  <2>3. QED
    BY <2>1, <2>2 DEF Unserved
<1>8. CASE ProcessWorkerMessage
  <2>1. toPage # <<>> /\ asked' = asked
    BY <1>8 DEF ProcessWorkerMessage
  <2>2. CASE Head(toPage).type = "dataRequestCompleted" /\ SaveCompleted(Head(toPage))
    <3> DEFINE id == Head(toPage).id
    <3>1. /\ \A k \in Ids : k # id => saves'[k] = saves[k]
          /\ saves'[id].status = "told"
          /\ saves'[id].change = saves[id].change /\ saves'[id].workspaceId = saves[id].workspaceId
          /\ saves'[id].before = saves[id].before
      BY <2>1, <2>2, Heard
    <3> HIDE DEF id
    <3>2. QED
      BY <2>1, <3>1 DEF Unserved
  <2>3. CASE saves' = saves
    BY <1>1, <2>1, <2>3
  <2>4. QED
    BY <1>8, <2>2, <2>3 DEF ProcessWorkerMessage, WorkspaceUpdated, WorkspaceLoaded
<1>9. QED
  BY <1>2, <1>3, <1>4, <1>5, <1>6, <1>7, <1>8, QuietSteps, Asking
     DEF Next, StartSaveNext, ServeNext, AnswerNext

\* While it has not, and nothing disturbs the workspace, the server's state of it stays
LEMMA ServerStays ==
  ASSUME Types, AskedInv, LoadInv, StoreInv, [Next]_vars, NEW w \in Workspaces, w \notin disturbed' \cup gone',
         NEW i \in Ids, UnderWay(i, w), UnderWay(i, w)', Unserved(i)'
  PROVE  w \notin disturbed \cup gone /\ server'[w] = server[w]
<1> USE DEF vars, pageVars, workerVars, messageVars, requestVars, boundVars
<1> DEFINE Goal == w \notin disturbed \cup gone /\ server'[w] = server[w]
<1>1. Types'
  BY NextTypes
<1>2. i \in Saving(w) /\ i \in Saving(w)'
  BY DEF Saving
<1>3. ASSUME NEW lost, Disturbs({}, lost), server' = server, gone \subseteq gone'
      PROVE  Goal
  BY <1>1, <1>3, NotHealed
<1>4. CASE UNCHANGED <<disturbed, server, gone>>
  BY <1>4
<1>5. CASE Asks
  BY <1>3, <1>5 DEF Asks
<1>6. CASE UNCHANGED vars \/ SetPublicApi \/ \E id \in Ids : BufferFires(id)
  BY <1>4, <1>6 DEF SetPublicApi, BufferFires
<1>7. ASSUME NEW v \in Workspaces, SwitchWorkspace(v) \/ WorkspaceDelete(v)
      PROVE  Goal
  <2>1. Disturbs({}, {}) /\ server' = server /\ gone \subseteq gone'
    BY <1>7 DEF SwitchWorkspace, WorkspaceDelete
  <2>2. QED
    BY <1>3, <2>1
<1>8. ASSUME NEW v \in Workspaces, NEW c \in UserChanges, RemoteChange(v, c)
      PROVE  Goal
  <2> DEFINE x == [workspaceId |-> v, vertices |-> server'[v]]
  <2>1. /\ server' = [server EXCEPT ![v] = Applied(@, c)] /\ gone' = gone
        /\ \/ socket' = Append(socket, x) /\ Disturbs({v}, {})
           \/ Disturbs({}, {v})
    BY <1>8 DEF RemoteChange
  <2>2. w # v
    <3> SUFFICES ASSUME w = v
                 PROVE  FALSE
      OBVIOUS
    <3>1. Solo(w)' /\ socket' = Append(socket, x)
      BY <1>1, <2>1, Undisturbed
    <3>2. x \in States /\ socket \in Seq(States) /\ x.workspaceId = w
      BY <1>1 DEF States, Types
    <3> HIDE DEF x
    <3>3. About(Append(socket, x), w) = About(socket, w) \cup {Len(socket) + 1}
      BY <3>2, Appended
    <3>4. About(socket, w)' # {}
      BY <3>1, <3>3 DEF About
    <3>5. Saving(w)' = {}
      BY <3>1, <3>4, SoloMeansNext
    <3>6. QED
      BY <1>2, <3>5
  <2>3. w \notin disturbed
    BY <1>1, <2>1, <2>2, Undisturbed
  <2>4. server'[w] = server[w]
    BY <2>1, <2>2 DEF Types
  <2>5. QED
    BY <2>1, <2>3, <2>4
<1>9. ASSUME NEW id \in Ids, StartSave(id)
      PROVE  Goal
  BY <1>3, <1>9 DEF StartSave
<1>10. ASSUME NEW id \in Ids, Serve(id)
       PROVE  Goal
  <2> DEFINE v == saves[id].workspaceId
  <2>1. /\ saves[id].status \in {"sent", "orphan"} /\ v \in Workspaces /\ gone' = gone
        /\ \/ /\ server' = [server EXCEPT ![v] = Applied(@, saves[id].change)]
              /\ saves'[id].status \in {"aborted", "applied"}
              /\ Disturbs({}, IF saves[id].status = "orphan" THEN {v} ELSE {})
           \/ server' = server /\ Disturbs({}, {})
    BY <1>10, Served
  <2>2. CASE server' = server /\ Disturbs({}, {})
    BY <1>3, <2>1, <2>2
  <2>3. CASE /\ server' = [server EXCEPT ![v] = Applied(@, saves[id].change)]
             /\ saves'[id].status \in {"aborted", "applied"}
             /\ Disturbs({}, IF saves[id].status = "orphan" THEN {v} ELSE {})
    <3>1. w \notin disturbed /\ Solo(w)
      BY <1>1, <2>1, <2>3, NotHealed
    <3>2. id # i
      BY <2>3 DEF Unserved
    <3>3. w # v
      <4> SUFFICES ASSUME w = v
                   PROVE  FALSE
        OBVIOUS
      <4>1. id \in Saving(w)
        BY <2>1 DEF Saving, UnderWay
      <4>2. \A j, k \in Saving(w) : j = k
        BY <3>1, <4>1, SoloMeans
      <4>3. QED
        BY <1>2, <3>2, <4>1, <4>2
    <3>4. server'[w] = server[w]
      BY <2>3, <3>3 DEF Types
    <3>5. QED
      BY <2>1, <3>1, <3>4
  <2>4. QED
    BY <2>1, <2>2, <2>3
<1>11. ASSUME NEW id \in Ids, Answer(id)
       PROVE  Goal
  BY <1>3, <1>11 DEF Answer
<1>12. CASE WorkspaceChange \/ ProcessWorkerMessage
  BY <1>3, <1>12 DEF WorkspaceChange, ProcessWorkerMessage
<1>13. CASE PendingNext
  BY <1>3, <1>13 DEF PendingNext, Updated, UpdateDropped
<1>14. ASSUME NEW l \in Loads, GetWorkspace(l)
       PROVE  Goal
  <2>1. PICK v \in Workspaces \ gone :
          /\ loads'[l].status = "got" /\ loads'[l].workspaceId = v
          /\ UNCHANGED <<server, gone>>
          /\ Disturbs({v}, {})
    BY <1>14, LoadSteps
  <2>2. Solo(w)' /\ (w \in disturbed => w = v)
    BY <1>1, <2>1, Undisturbed
  <2>3. w # v
    <3> SUFFICES ASSUME w = v
                 PROVE  FALSE
      OBVIOUS
    <3>1. l \in Loading(w)'
      BY <2>1 DEF Loading
    <3>2. Saving(w)' = {}
      BY <2>2, <3>1, SoloMeansNext
    <3>3. QED
      BY <1>2, <3>2
  <2>4. QED
    BY <2>1, <2>2, <2>3
<1>15. ASSUME NEW l \in Loads, WorkspaceGot(l) \/ LoadFails(l)
       PROVE  Goal
  BY <1>3, <1>15 DEF WorkspaceGot, LoadFails
<1>16. QED
  BY <1>5, <1>6, <1>7, <1>8, <1>9, <1>10, <1>11, <1>12, <1>13, <1>14, <1>15, Asking
     DEF Next, StartSaveNext, ServeNext, AnswerNext, LoadNext

LEMMA TakesBackStays ==
  ASSUME Types, AskedInv, LoadInv, StoreInv, [Next]_vars,
         NEW w \in Workspaces, NEW undo, NEW redo, NEW i \in Ids, TakesBack(w, undo, redo, i)
  PROVE  TakesBack(w, undo, redo, i)'
<1>1. i <= asked /\ redo = saves[i].change
  BY DEF TakesBack
<1>2. i <= asked' /\ saves'[i].change = saves[i].change
  BY <1>1, SaveAfter
<1>3. ASSUME ~Halved(w)', saves'[i].before # {}, saves'[i].workspaceId = w
      PROVE  \E p \in Positions \cup {0} : saves'[i].before = {p} /\ undo = PutBack(saves[i].change.vertex, p)
  <2>1. ~Halved(w)
    BY <1>3, HalvedStays
  <2>2. CASE saves'[i].before = saves[i].before /\ saves'[i].workspaceId = saves[i].workspaceId
    BY <1>3, <2>1, <2>2 DEF TakesBack
  <2>3. CASE /\ saves[i].status \in {"sent", "orphan"}
             /\ saves'[i].workspaceId = saves[i].workspaceId
             /\ saves[i].workspaceId \notin gone \cup disturbed
             /\ saves'[i].before = {server[saves[i].workspaceId][saves[i].change.vertex]}
    <3>1. UnderWay(i, w) /\ w \notin gone \cup disturbed
      BY <1>3, <2>3 DEF UnderWay
    <3>2. undo = PutBack(saves[i].change.vertex, server[w][saves[i].change.vertex])
      BY <2>1, <2>3, <3>1 DEF TakesBack
    <3>3. saves[i].change \in Changes
      BY <1>1 DEF AskedInv
    <3>4. server[w][saves[i].change.vertex] \in Positions \cup {0}
      BY <3>3 DEF Types, Contents, Changes
    <3>5. QED
      BY <1>3, <2>3, <3>2, <3>4
  <2>4. QED
    BY <1>1, <1>3, <2>2, <2>3, SaveAfter
<1>4. ASSUME ~Halved(w)', w \notin (disturbed \cup gone)', UnderWay(i, w)', Unserved(i)'
      PROVE  undo = PutBack(saves[i].change.vertex, server'[w][saves[i].change.vertex])
  <2>1. ~Halved(w)
    BY <1>4, HalvedStays
  <2>2. UnderWay(i, w) /\ Unserved(i)
    BY <1>1, <1>4, SaveAfter DEF UnderWay, Unserved
  <2>3. w \notin disturbed \cup gone /\ server'[w] = server[w]
    BY <1>4, <2>2, ServerStays
  <2>4. QED
    BY <2>1, <2>2, <2>3 DEF TakesBack, Unserved
<1>5. QED
  BY <1>1, <1>2, <1>3, <1>4 DEF TakesBack, Unserved

\* What is on a stack after something was put there, and after the last was taken
LEMMA Pushed ==
  ASSUME NEW S, NEW q \in Seq(S), NEW x \in S
  PROVE  \A k \in DOMAIN Append(q, x) : \/ k \in DOMAIN q /\ Append(q, x)[k] = q[k]
                                        \/ Append(q, x)[k] = x
OBVIOUS

LEMMA Popped ==
  ASSUME NEW S, NEW q \in Seq(S), q # <<>>
  PROVE  /\ Len(q) \in DOMAIN q /\ q[Len(q)] \in S
         /\ \A k \in DOMAIN SubSeq(q, 1, Len(q) - 1) : k \in DOMAIN q /\ SubSeq(q, 1, Len(q) - 1)[k] = q[k]
OBVIOUS

\* Turned round twice an action is what it was
LEMMA TurnedRound ==
  ASSUME NEW a \in Actions
  PROVE  /\ Action(a.redo, a.undo, a.id) \in Actions
         /\ Action(a.redo, a.undo, a.id).undo = a.redo /\ Action(a.redo, a.undo, a.id).redo = a.undo
         /\ Action(a.redo, a.undo, a.id).id = a.id
         /\ Action(a.undo, a.redo, a.id) = a
BY DEF Actions, Action

LEMMA KeptTypes ==
  ASSUME Types, NEW w \in Workspaces, NEW a \in Kept(w)
  PROVE  a \in Actions /\ a.id \in Ids
<1>1. undos[w] \in Seq(Actions) /\ redos[w] \in Seq(Actions)
  BY DEF Types
<1>2. \A k \in DOMAIN undos[w] : undos[w][k] \in Actions
  BY <1>1
<1>3. \A k \in DOMAIN redos[w] : redos[w][k] \in Actions
  BY <1>1
<1>4. a \in Actions
  BY <1>2, <1>3, TurnedRound DEF Kept
<1>5. QED
  BY <1>4 DEF Actions

\* An update keeps an action of its own; undo and redo take one from one stack to the other
LEMMA KeptAfter ==
  ASSUME Types, AskedInv, [Next]_vars, NEW w \in Workspaces, NEW a \in Kept(w)'
  PROVE  \/ a \in Kept(w)
         \/ \E c \in UserChanges : /\ UpdateWorkspace(c) /\ w = shown.workspaceId
                                   /\ a = Action(InverseChange(c, shown.vertices), c, asked')
<1> USE DEF vars, pageVars, workerVars, messageVars, requestVars, boundVars
<1> DEFINE New(c) == Action(InverseChange(c, shown.vertices), c, asked')
           Goal == \/ a \in Kept(w)
                   \/ \E c \in UserChanges : UpdateWorkspace(c) /\ w = shown.workspaceId /\ a = New(c)
<1>1. /\ undos \in [Workspaces -> Seq(Actions)] /\ redos \in [Workspaces -> Seq(Actions)]
      /\ undos[w] \in Seq(Actions) /\ redos[w] \in Seq(Actions) /\ current \in Workspaces
  BY DEF Types
<1>2. \/ \E k \in DOMAIN undos'[w] : a = undos'[w][k]
      \/ \E k \in DOMAIN redos'[w] : a = Action(redos'[w][k].redo, redos'[w][k].undo, redos'[w][k].id)
  BY DEF Kept
<1>3. CASE undos' = undos /\ redos' = redos
  BY <1>2, <1>3 DEF Kept
<1>4. ASSUME NEW c \in UserChanges, UpdateWorkspace(c)
      PROVE  Goal
  <2>1. /\ undos' = [undos EXCEPT ![shown.workspaceId] = Append(@, New(c))]
        /\ redos' = redos /\ Ask(c, "asked")
    BY <1>4 DEF UpdateWorkspace
  <2>2. New(c) \in Actions
    <3>1. shown.vertices \in Contents /\ c \in Changes
      BY ContentTypes DEF Types
    <3>2. asked' \in Ids
      BY <2>1, <3>1, AskTypes DEF SaveStatuses
    <3>3. InverseChange(c, shown.vertices) \in Changes
      BY <3>1, ContentTypes
    <3>4. QED
      BY <3>1, <3>2, <3>3 DEF Actions, Action
  <2>3. CASE w = shown.workspaceId
    <3>1. undos'[w] = Append(undos[w], New(c))
      BY <1>1, <2>1, <2>3
    <3> HIDE DEF New
    <3>2. \A k \in DOMAIN undos'[w] : (k \in DOMAIN undos[w] /\ undos'[w][k] = undos[w][k]) \/ undos'[w][k] = New(c)
      BY <1>1, <2>2, <3>1, Pushed
    <3>3. QED
      BY <1>2, <1>4, <2>1, <2>3, <3>2 DEF Kept
  <2>4. CASE w # shown.workspaceId
    BY <1>1, <1>2, <2>1, <2>4 DEF Kept
  <2>5. QED
    BY <2>3, <2>4
<1>5. ASSUME NEW c \in UserChanges, UpdateThrows(c)
      PROVE  Goal
  BY <1>3, <1>5 DEF UpdateThrows
<1>6. ASSUME NEW s \in Seq(Actions), NEW t \in Seq(Actions), NEW action, s # <<>>, action = s[Len(s)]
      PROVE  /\ action \in Actions /\ Len(s) \in DOMAIN s
             /\ \A k \in DOMAIN SubSeq(s, 1, Len(s) - 1) : k \in DOMAIN s /\ SubSeq(s, 1, Len(s) - 1)[k] = s[k]
             /\ \A k \in DOMAIN Append(t, Action(action.redo, action.undo, action.id)) :
                  \/ /\ k \in DOMAIN t
                     /\ Append(t, Action(action.redo, action.undo, action.id))[k] = t[k]
                  \/ Append(t, Action(action.redo, action.undo, action.id))[k] = Action(action.redo, action.undo, action.id)
  <2>1. action \in Actions /\ Len(s) \in DOMAIN s
        /\ \A k \in DOMAIN SubSeq(s, 1, Len(s) - 1) : k \in DOMAIN s /\ SubSeq(s, 1, Len(s) - 1)[k] = s[k]
    BY <1>6, Popped
  <2>2. Action(action.redo, action.undo, action.id) \in Actions
    BY <2>1, TurnedRound
  <2>3. QED
    BY <2>1, <2>2, Pushed
<1>7. CASE PerformUndo
  <2>1. PICK action : /\ undos[current] # <<>> /\ action = undos[current][Len(undos[current])]
                      /\ redos' = [redos EXCEPT ![current] = Append(@, Action(action.redo, action.undo, action.id))]
                      /\ undos' = [undos EXCEPT ![current] = SubSeq(@, 1, Len(@) - 1)]
    BY <1>7 DEF PerformUndo, Perform
  <2>2. CASE w = current
    <3>1. /\ redos'[w] = Append(redos[w], Action(action.redo, action.undo, action.id))
          /\ undos'[w] = SubSeq(undos[w], 1, Len(undos[w]) - 1)
      BY <1>1, <2>1, <2>2
    <3>2. /\ action \in Actions /\ action \in Kept(w)
          /\ \A k \in DOMAIN undos'[w] : k \in DOMAIN undos[w] /\ undos'[w][k] = undos[w][k]
          /\ \A k \in DOMAIN redos'[w] : \/ k \in DOMAIN redos[w] /\ redos'[w][k] = redos[w][k]
                                         \/ redos'[w][k] = Action(action.redo, action.undo, action.id)
      <4>1. undos[w] \in Seq(Actions) /\ redos[w] \in Seq(Actions) /\ undos[w] # <<>> /\ action = undos[w][Len(undos[w])]
        BY <1>1, <2>1, <2>2
      <4>2. action \in Actions /\ Len(undos[w]) \in DOMAIN undos[w]
        BY <1>6, <4>1
      <4>3. action \in Kept(w)
        BY <4>1, <4>2, ZenonT(30) DEF Kept
      <4>4. QED
        BY <1>6, <3>1, <4>1, <4>2, <4>3
    <3>3. /\ Action(action.redo, action.undo, action.id).undo = action.redo
          /\ Action(action.redo, action.undo, action.id).redo = action.undo
          /\ Action(action.redo, action.undo, action.id).id = action.id
          /\ Action(action.undo, action.redo, action.id) = action
      BY <3>2, TurnedRound
    <3>4. QED
      BY <1>2, <3>2, <3>3 DEF Kept
  <2>3. CASE w # current
    BY <1>1, <1>2, <2>1, <2>3 DEF Kept
  <2>4. QED
    BY <2>2, <2>3
<1>8. CASE PerformRedo
  <2>1. PICK action : /\ redos[current] # <<>> /\ action = redos[current][Len(redos[current])]
                      /\ undos' = [undos EXCEPT ![current] = Append(@, Action(action.redo, action.undo, action.id))]
                      /\ redos' = [redos EXCEPT ![current] = SubSeq(@, 1, Len(@) - 1)]
    BY <1>8 DEF PerformRedo, Perform
  <2>2. CASE w = current
    <3>1. /\ undos'[w] = Append(undos[w], Action(action.redo, action.undo, action.id))
          /\ redos'[w] = SubSeq(redos[w], 1, Len(redos[w]) - 1)
      BY <1>1, <2>1, <2>2
    <3>2. /\ Action(action.redo, action.undo, action.id) \in Kept(w)
          /\ \A k \in DOMAIN redos'[w] : k \in DOMAIN redos[w] /\ redos'[w][k] = redos[w][k]
          /\ \A k \in DOMAIN undos'[w] : \/ k \in DOMAIN undos[w] /\ undos'[w][k] = undos[w][k]
                                         \/ undos'[w][k] = Action(action.redo, action.undo, action.id)
      BY <1>1, <1>6, <2>1, <2>2, <3>1, SMTT(30) DEF Kept
    <3>3. QED
      BY <1>2, <3>2 DEF Kept
  <2>3. CASE w # current
    BY <1>1, <1>2, <2>1, <2>3 DEF Kept
  <2>4. QED
    BY <2>2, <2>3
<1>9. CASE \/ UNCHANGED vars \/ SetPublicApi \/ ServeNext \/ WorkspaceChange
           \/ \E id \in Ids : BufferFires(id)
           \/ \E v \in Workspaces : SwitchWorkspace(v) \/ WorkspaceDelete(v)
           \/ \E v \in Workspaces, c \in UserChanges : RemoteChange(v, c)
           \/ StartSaveNext \/ AnswerNext \/ PendingNext \/ LoadNext \/ ProcessWorkerMessage
  <2>1. undos' = undos /\ redos' = redos
    BY <1>9 DEF SetPublicApi, ServeNext, Serve, WorkspaceChange, BufferFires, SwitchWorkspace, WorkspaceDelete,
                RemoteChange, StartSaveNext, StartSave, AnswerNext, Answer, PendingNext, Updated, UpdateDropped,
                LoadNext, GetWorkspace, WorkspaceGot, LoadFails, ProcessWorkerMessage
  <2>2. QED
    BY <1>3, <2>1
<1>10. QED
  BY <1>4, <1>5, <1>7, <1>8, <1>9 DEF Next

\* The inverse of a change is what the server has, if nothing else is in motion
LEMMA InverseIsTrue ==
  ASSUME Types, AskedInv, LoadInv, PageAndWorkerAgree, StoreInv, PageInv, ToldInv,
         NEW c \in UserChanges, UpdateWorkspace(c), NEW w \in Workspaces, w = shown.workspaceId,
         NEW undo, undo = InverseChange(c, shown.vertices), NEW i, i = asked'
  PROVE  TakesBack(w, undo, c, i)'
<1> USE DEF pageVars, workerVars, messageVars, requestVars, boundVars
<1>1. Types' /\ Asks
  BY NextTypes, Asking DEF Next
<1>2. c \in Changes /\ "asked" \in SaveStatuses /\ Ask(c, "asked")
  BY ContentTypes DEF SaveStatuses, UpdateWorkspace
<1>3. /\ asked' \in Ids /\ asked' \in Nat
      /\ saves'[asked'] = Save("asked", c, current, Len(publicApi))
      /\ \A j \in Ids : j # asked' => saves'[j] = saves[j]
  BY <1>2, AskTypes
<1>4. saves[asked'].status = "none"
  BY <1>1, Asked
<1>5. saves'[asked'].status = "asked" /\ saves'[asked'].change = c /\ saves'[asked'].before = {}
  BY <1>3 DEF Save
<1>6. /\ UNCHANGED <<server, gone, shown, store, pending, loads, socket, toPage>>
      /\ Disturbs({}, {})
  BY DEF UpdateWorkspace
<1>7. ASSUME ~Halved(w)', w \notin (disturbed \cup gone)'
      PROVE  InverseChange(c, shown.vertices) = PutBack(c.vertex, server[w][c.vertex])
  <2>1. Solo(w)' /\ Brings(w)
    BY <1>1, <1>6, <1>7, NotHealed
  <2>2. asked' \in Saving(w)'
    BY <1>3, <1>5 DEF Saving, UnderWay
  <2>3. /\ \A j, k \in Saving(w)' : j = k
        /\ \A l \in Loads : ~Got(w, l)'
        /\ Values(socket, w)' = {} /\ Values(pending, w)' = {} /\ About(toPage, w)' = {}
    BY <2>1, <2>2, SoloMeansNext
  <2>4. \A l \in Loads : ~Got(w, l)
    BY <1>6, <2>3 DEF Got
  <2>5. Values(socket, w) = {} /\ Values(pending, w) = {} /\ About(toPage, w) = {}
    BY <1>6, <2>3 DEF Values, About
  <2>6. ASSUME NEW j \in Ids, Ahead(w, j)
        PROVE  FALSE
    <3>1. j # asked'
      BY <1>4, <2>6 DEF Ahead
    <3>2. saves'[j] = saves[j]
      BY <1>3, <3>1
    <3>3. j \in Saving(w)'
      BY <2>6, <3>2 DEF Saving, UnderWay, Ahead
    <3>4. QED
      BY <2>2, <2>3, <3>1, <3>3
  <2>7. w \in DOMAIN store
    BY <1>6, <1>7, ConstantsAssumption DEF ToldInv
  <2>8. store[w] = server[w]
    BY <2>1, <2>5, <2>6, <2>7 DEF Brings
  <2>9. ~Halved(w)
    BY <1>6, <1>7 DEF Halved
  <2>10. shown.vertices = store[w]
    BY <2>4, <2>5, <2>7, <2>9 DEF PageInv, Tells
  <2>11. QED
    BY <2>8, <2>10, InverseIsPutBack
<1>8. QED
  BY <1>3, <1>5, <1>6, <1>7 DEF TakesBack

LEMMA UndoStays ==
  Types /\ AskedInv /\ LoadInv /\ PageAndWorkerAgree /\ StoreInv /\ PageInv /\ ToldInv /\ UndoInv /\ [Next]_vars =>
    UndoInv'
<1> SUFFICES ASSUME Types, AskedInv, LoadInv, PageAndWorkerAgree, StoreInv, PageInv, ToldInv, UndoInv, [Next]_vars,
                    NEW w \in Workspaces, NEW a \in Kept(w)'
             PROVE  TakesBack(w, a.undo, a.redo, a.id)'
  BY DEF UndoInv
<1>1. CASE a \in Kept(w)
  <2>1. TakesBack(w, a.undo, a.redo, a.id) /\ a.id \in Ids
    BY <1>1, KeptTypes DEF UndoInv
  <2>2. QED
    BY <2>1, TakesBackStays
<1>2. ASSUME NEW c \in UserChanges, UpdateWorkspace(c), w = shown.workspaceId,
             a = Action(InverseChange(c, shown.vertices), c, asked')
      PROVE  TakesBack(w, a.undo, a.redo, a.id)'
  <2>1. a.undo = InverseChange(c, shown.vertices) /\ a.redo = c /\ a.id = asked'
    BY <1>2 DEF Action
  <2>2. TakesBack(w, a.undo, c, a.id)'
    BY <1>2, <2>1, InverseIsTrue
  <2>3. QED
    BY <2>1, <2>2
<1>3. QED
  BY <1>1, <1>2, KeptAfter

-----------------------------------------------------------------------------
(* What is waited for comes.                                               *)

\* The messages the page has not read stay
LEMMA MessagesLeft ==
  ASSUME Types, ProcessWorkerMessage
  PROVE  /\ toPage # <<>> /\ Head(toPage) = toPage[1] /\ Head(toPage) \in Messages
         /\ \A k \in DOMAIN toPage : k # 1 => \E j \in DOMAIN toPage' : toPage'[j] = toPage[k]
<1>1. toPage # <<>> /\ toPage' = Tail(toPage)
  BY DEF ProcessWorkerMessage
<1>2. /\ Len(toPage) \in Nat \ {0} /\ DOMAIN toPage = 1 .. Len(toPage)
      /\ Head(toPage) = toPage[1] /\ Head(toPage) \in Messages
      /\ DOMAIN toPage' = 1 .. Len(toPage) - 1
      /\ \A i \in 1 .. Len(toPage) - 1 : toPage'[i] = toPage[i + 1]
  BY <1>1, QueueTypes
<1>3. ASSUME NEW k \in DOMAIN toPage, k # 1
      PROVE  \E j \in DOMAIN toPage' : toPage'[j] = toPage[k]
  <2>1. k - 1 \in 1 .. Len(toPage) - 1 /\ (k - 1) + 1 = k
    BY <1>2, <1>3
  <2>2. QED
    BY <1>2, <2>1
<1>4. QED
  BY <1>1, <1>2, <1>3

\* The answer of a save is its last state but one: nothing but an answer makes it, and the page hears of it
LEMMA AnswerAfter ==
  ASSUME Types, AskedInv, LoadInv, [Next]_vars, NEW i \in Ids
  PROVE  /\ saves'[i].status = "answered" =>
              \/ saves[i].status = "answered"
              \/ \E m \in Messages : /\ toPage' = Append(toPage, m)
                                     /\ m.type = "dataRequestCompleted" /\ m.id = i
         /\ saves'[i].status = "told" =>
              \/ saves[i].status = "told"
              \/ ProcessWorkerMessage /\ SaveCompleted(Head(toPage)) /\ Head(toPage).id = i
<1> USE DEF vars, pageVars, workerVars, messageVars, requestVars, boundVars
<1> DEFINE Goal == /\ saves'[i].status = "answered" =>
                        \/ saves[i].status = "answered"
                        \/ \E m \in Messages : /\ toPage' = Append(toPage, m)
                                               /\ m.type = "dataRequestCompleted" /\ m.id = i
                   /\ saves'[i].status = "told" =>
                        \/ saves[i].status = "told"
                        \/ ProcessWorkerMessage /\ SaveCompleted(Head(toPage)) /\ Head(toPage).id = i
<1>1. ASSUME \/ saves'[i].status = saves[i].status
             \/ saves'[i].status \notin {"answered", "told"}
      PROVE  Goal
  BY <1>1
<1>2. ASSUME NEW saved \in BOOLEAN, NEW success \in BOOLEAN, toPage' = Append(toPage, Completed(i, saved, success)),
             saves'[i].status = "answered"
      PROVE  Goal
  <2>1. /\ Completed(i, saved, success) \in Messages
        /\ Completed(i, saved, success).type = "dataRequestCompleted" /\ Completed(i, saved, success).id = i
    BY MessageTypes DEF Completed, Message
  <2>2. QED
    BY <1>2, <2>1
<1>3. CASE Quiet
  BY <1>1, <1>3 DEF Quiet
<1>4. CASE Asks
  <2>1. saves'[asked'].status \in {"asked", "threw"} /\ \A k \in Ids : k # asked' => saves'[k] = saves[k]
    BY <1>4, Asked
  <2>2. saves'[i].status = saves[i].status \/ saves'[i].status \notin {"answered", "told"}
    BY <2>1
  <2>3. QED
    BY <1>1, <2>2
<1>5. CASE SetPublicApi
  <2>1. saves' = [k \in Ids |-> [saves[k] EXCEPT !.posts = IF @ > 1 THEN @ - 1 ELSE @]]
    BY <1>5 DEF SetPublicApi
  <2>2. saves[i] \in SaveRecords
    BY DEF Types
  <2>3. saves'[i].status = saves[i].status
    BY <2>1, <2>2 DEF SaveRecords
  <2>4. QED
    BY <1>1, <2>3
<1>6. ASSUME NEW id \in Ids, StartSave(id)
      PROVE  Goal
  <2> HIDE DEF Goal
  <2>1. /\ saves'[id].status \in {"threw", "answered", "sent"}
        /\ \A k \in Ids : k # id => saves'[k].status = CASE saves[k].status = "sent" -> "orphan"
                                     [] saves[k].status \in {"applied", "refused"} -> "aborted"
                                     [] OTHER -> saves[k].status
        /\ \/ toPage' = toPage /\ saves'[id].status # "answered"
           \/ toPage' = Append(toPage, Completed(id, FALSE, TRUE)) /\ saves'[id].status = "answered"
    BY <1>6, Started
  <2>2. CASE i # id
    BY <1>1, <2>1, <2>2
  <2>3. CASE i = id
    <3>1. PICK saved \in BOOLEAN, success \in BOOLEAN : saved = FALSE /\ success = TRUE
      OBVIOUS
    <3>2. CASE saves'[i].status = "answered"
      <4>1. toPage' = Append(toPage, Completed(i, saved, success))
        BY <2>1, <2>3, <3>1, <3>2
      <4>2. QED
        BY <1>2, <3>2, <4>1
    <3>3. CASE saves'[i].status # "answered"
      BY <1>1, <2>1, <2>3, <3>3
    <3>4. QED
      BY <3>2, <3>3
  <2>4. QED
    BY <2>2, <2>3
<1>7. ASSUME NEW id \in Ids, Serve(id)
      PROVE  Goal
  <2>1. saves'[id].status \in {"aborted", "applied", "refused"} /\ \A k \in Ids : k # id => saves'[k] = saves[k]
    BY <1>7, Served
  <2>2. saves'[i].status = saves[i].status \/ saves'[i].status \notin {"answered", "told"}
    BY <2>1
  <2>3. QED
    BY <1>1, <2>2
<1>8. ASSUME NEW id \in Ids, Answer(id)
      PROVE  Goal
  <2> HIDE DEF Goal
  <2>1. /\ saves'[id].status = "answered" /\ \A k \in Ids : k # id => saves'[k] = saves[k]
        /\ \E saved \in BOOLEAN : toPage' = Append(toPage, Completed(id, saved, saved))
    BY <1>8, Answered
  <2>2. CASE i = id
    BY <1>2, <2>1, <2>2
  <2>3. CASE i # id
    BY <1>1, <2>1, <2>3
  <2>4. QED
    BY <2>2, <2>3
<1>9. CASE ProcessWorkerMessage
  <2>1. toPage # <<>>
    BY <1>9 DEF ProcessWorkerMessage
  <2>2. CASE Head(toPage).type = "dataRequestCompleted" /\ SaveCompleted(Head(toPage))
    <3> DEFINE id == Head(toPage).id
    <3>1. saves'[id].status = "told" /\ \A k \in Ids : k # id => saves'[k] = saves[k]
      BY <2>1, <2>2, Heard
    <3> HIDE DEF id
    <3>2. CASE i # id
      BY <1>1, <3>1, <3>2
    <3>3. CASE i = id
      BY <1>9, <2>2, <3>1, <3>3 DEF id
    <3>4. QED
      BY <3>2, <3>3
  <2>3. CASE saves' = saves
    BY <1>1, <2>3
  <2>4. QED
    BY <1>9, <2>2, <2>3 DEF ProcessWorkerMessage, WorkspaceUpdated, WorkspaceLoaded
<1>10. QED
  BY <1>3, <1>4, <1>5, <1>6, <1>7, <1>8, <1>9, QuietSteps, Asking
     DEF Next, StartSaveNext, ServeNext, AnswerNext

LEMMA AnsweredStays == Types /\ AskedInv /\ LoadInv /\ AnsweredInv /\ [Next]_vars => AnsweredInv'
<1> SUFFICES ASSUME Types, AskedInv, LoadInv, AnsweredInv, [Next]_vars,
                    NEW i \in Ids, saves'[i].status = "answered"
             PROVE  \E k \in DOMAIN toPage' : toPage'[k].type = "dataRequestCompleted" /\ toPage'[k].id = i
  BY DEF AnsweredInv
<1>1. ASSUME NEW m \in Messages, toPage' = Append(toPage, m), m.type = "dataRequestCompleted", m.id = i
      PROVE  \E k \in DOMAIN toPage' : toPage'[k].type = "dataRequestCompleted" /\ toPage'[k].id = i
  BY <1>1, MessageAdded
<1>2. ASSUME saves[i].status = "answered"
      PROVE  \E k \in DOMAIN toPage' : toPage'[k].type = "dataRequestCompleted" /\ toPage'[k].id = i
  <2>1. PICK k \in DOMAIN toPage : toPage[k].type = "dataRequestCompleted" /\ toPage[k].id = i
    BY <1>2 DEF AnsweredInv
  <2>2. ASSUME NEW m \in Messages, toPage' = Append(toPage, m)
        PROVE  k \in DOMAIN toPage' /\ toPage'[k] = toPage[k]
    BY <2>2, MessageAdded
  <2>3. CASE ProcessWorkerMessage
    <3>1. Head(toPage) = toPage[1] /\ Head(toPage) \in Messages /\ toPage # <<>>
      BY <2>3, MessagesLeft
    <3>2. k # 1
      <4> SUFFICES ASSUME k = 1
                   PROVE  FALSE
        OBVIOUS
      <4>1. Head(toPage).type = "dataRequestCompleted" /\ Head(toPage).id = i
        BY <2>1, <3>1
      <4>2. SaveCompleted(Head(toPage))
        BY <2>3, <4>1 DEF ProcessWorkerMessage
      <4>3. saves'[Head(toPage).id].status = "told"
        BY <3>1, <4>1, <4>2, Heard
      <4>4. QED
        BY <4>1, <4>3
    <3>3. QED
      BY <2>1, <2>3, <3>2, MessagesLeft
  <2>4. QED
    BY <2>1, <2>2, <2>3, MessagesAfter
<1>3. QED
  BY <1>1, <1>2, AnswerAfter

\* A save whose timer runs, or ran
LEMMA TimersStay ==
  ASSUME Types, AskedInv, LoadInv, WaitInv, [Next]_vars
  PROVE  /\ \A i \in (buffers \cup triggered)' : i <= asked'
         /\ triggered \subseteq triggered' /\ late \subseteq late'
<1> USE DEF vars, pageVars, workerVars, messageVars, requestVars, boundVars
<1>1. asked \in Nat /\ \A i \in buffers \cup triggered : i <= asked /\ i \in Nat
  BY IdTypes DEF WaitInv, Types
<1>2. CASE Asks
  <2>1. asked' = asked + 1 /\ buffers' = buffers \cup {asked'} /\ triggered' = triggered /\ late' = late
    BY <1>2, Asked
  <2>2. QED
    BY <1>1, <2>1
<1>3. ASSUME NEW id \in Ids, BufferFires(id)
      PROVE  /\ \A i \in (buffers \cup triggered)' : i <= asked'
             /\ triggered \subseteq triggered' /\ late \subseteq late'
  BY <1>1, <1>3 DEF BufferFires
<1>4. CASE ProcessWorkerMessage
  <2>1. asked' = asked /\ buffers' \subseteq buffers /\ triggered' = triggered /\ late' = late
    BY <1>4 DEF ProcessWorkerMessage, SaveCompleted, WorkspaceUpdated, WorkspaceLoaded
  <2>2. QED
    BY <1>1, <2>1
<1>5. CASE \/ UNCHANGED vars \/ SetPublicApi \/ ServeNext \/ WorkspaceChange
           \/ \E v \in Workspaces : SwitchWorkspace(v) \/ WorkspaceDelete(v)
           \/ \E v \in Workspaces, c \in UserChanges : RemoteChange(v, c)
           \/ StartSaveNext \/ AnswerNext \/ PendingNext \/ LoadNext
  <2>1. UNCHANGED <<asked, buffers, triggered, late>>
    BY <1>5 DEF SetPublicApi, ServeNext, Serve, WorkspaceChange, SwitchWorkspace, WorkspaceDelete,
                RemoteChange, StartSaveNext, StartSave, AnswerNext, Answer, PendingNext, Updated, UpdateDropped,
                LoadNext, GetWorkspace, WorkspaceGot, LoadFails
  <2>2. QED
    BY <1>1, <2>1
<1>6. QED
  BY <1>2, <1>3, <1>4, <1>5, Asking DEF Next

\* Who shows "Saving" has a reason: the timer that fired last, or one before, or that there is no
\* workspace
LEMMA SavingStays ==
  ASSUME Types, AskedInv, LoadInv, WaitInv, [Next]_vars, subtitle' = "saving"
  PROVE  \/ shown'.workspaceId = NoWorkspace
         \/ \E i \in triggered' : i \in late' \/ saves'[i].status # "told"
<1> USE DEF vars, pageVars, workerVars, messageVars, requestVars, boundVars
<1>1. triggered \subseteq triggered' /\ late \subseteq late' /\ triggered \subseteq Ids
  BY TimersStay DEF Types
<1>2. ASSUME NEW id \in Ids, BufferFires(id)
      PROVE  \E i \in triggered' : i \in late' \/ saves'[i].status # "told"
  BY <1>2 DEF BufferFires
<1>3. CASE subtitle = "saving" /\ shown.workspaceId # NoWorkspace
  <2>1. PICK i \in triggered : i \in late \/ saves[i].status # "told"
    BY <1>3 DEF WaitInv
  <2>2. ASSUME ProcessWorkerMessage, SaveCompleted(Head(toPage)), Head(toPage).id = i
        PROVE  FALSE
    BY <1>3, <2>1, <2>2 DEF SaveCompleted
  <2>3. i \in late' \/ saves'[i].status # "told"
    BY <1>1, <2>1, <2>2, AnswerAfter
  <2>4. QED
    BY <1>1, <2>1, <2>3
<1>4. CASE subtitle = "saving" /\ shown.workspaceId = NoWorkspace
  <2>1. CASE shown' = shown \/ shown'.workspaceId = shown.workspaceId
    BY <1>4, <2>1
  <2>2. ASSUME NEW w \in Workspaces, SwitchWorkspace(w)
        PROVE  shown'.workspaceId = NoWorkspace
    BY <2>2 DEF SwitchWorkspace
  <2>3. CASE ProcessWorkerMessage /\ shown' # shown
    <3>1. CASE SaveCompleted(Head(toPage))
      BY <2>3, <3>1 DEF SaveCompleted
    <3>2. CASE WorkspaceUpdated(Head(toPage))
      BY <1>4, <3>2 DEF WorkspaceUpdated
    <3>3. CASE WorkspaceLoaded(Head(toPage))
      BY <3>3 DEF WorkspaceLoaded
    <3>4. QED
      BY <2>3, <3>1, <3>2, <3>3 DEF ProcessWorkerMessage
  <2>4. QED
    BY <2>1, <2>2, <2>3, ShownAfter
<1>5. CASE ProcessWorkerMessage
  <2>1. subtitle = "saving"
    BY <1>5 DEF ProcessWorkerMessage, SaveCompleted, WorkspaceUpdated, WorkspaceLoaded
  <2>2. QED
    BY <1>3, <1>4, <2>1
<1>6. CASE \/ UNCHANGED vars \/ SetPublicApi \/ ServeNext \/ WorkspaceChange
           \/ \E c \in UserChanges : UpdateWorkspace(c) \/ UpdateThrows(c)
           \/ PerformUndo \/ PerformRedo
           \/ \E v \in Workspaces : SwitchWorkspace(v) \/ WorkspaceDelete(v)
           \/ \E v \in Workspaces, c \in UserChanges : RemoteChange(v, c)
           \/ StartSaveNext \/ AnswerNext \/ PendingNext \/ LoadNext
  <2>1. subtitle' = subtitle
    BY <1>6 DEF SetPublicApi, ServeNext, Serve, WorkspaceChange, SwitchWorkspace, WorkspaceDelete, UpdateWorkspace,
                UpdateThrows, PerformUndo, PerformRedo, Perform,
                RemoteChange, StartSaveNext, StartSave, AnswerNext, Answer, PendingNext, Updated, UpdateDropped,
                LoadNext, GetWorkspace, WorkspaceGot, LoadFails
  <2>2. QED
    BY <1>3, <1>4, <2>1
<1>7. QED
  BY <1>2, <1>5, <1>6 DEF Next

\* Without a workspace the page waits for one, or a load failed
LEMMA NoneStays ==
  ASSUME Types, AskedInv, LoadInv, WaitInv, [Next]_vars, shown'.workspaceId = NoWorkspace
  PROVE  \/ \E l \in Loads : loads'[l].status \in {"asked", "got", "failed", "half"}
         \/ \E k \in DOMAIN toPage' : toPage'[k].type = "workspaceLoaded"
<1> USE DEF vars, pageVars, workerVars, messageVars, requestVars, boundVars
<1> DEFINE Goal == \/ \E l \in Loads : loads'[l].status \in {"asked", "got", "failed", "half"}
                   \/ \E k \in DOMAIN toPage' : toPage'[k].type = "workspaceLoaded"
<1>1. ASSUME NEW v \in Workspaces, SwitchWorkspace(v) \/ WorkspaceDelete(v)
      PROVE  Goal
  <2>1. Load(v)
    BY <1>1 DEF SwitchWorkspace, WorkspaceDelete
  <2>2. QED
    BY <2>1, Called
<1>2. CASE shown.workspaceId = NoWorkspace
  <2>1. CASE \E k \in DOMAIN toPage : toPage[k].type = "workspaceLoaded"
    <3>1. PICK k \in DOMAIN toPage : toPage[k].type = "workspaceLoaded"
      BY <2>1
    <3>2. CASE ProcessWorkerMessage
      <4>1. Head(toPage) = toPage[1] /\ Head(toPage) \in Messages /\ toPage # <<>>
        BY <3>2, MessagesLeft
      <4>2. k # 1
        <5> SUFFICES ASSUME k = 1
                     PROVE  FALSE
          OBVIOUS
        <5>1. Head(toPage).type = "workspaceLoaded"
          BY <3>1, <4>1
        <5>2. WorkspaceLoaded(Head(toPage)) /\ Head(toPage).workspaceId \in Workspaces
          BY <3>2, <4>1, <5>1, MessageKnown DEF ProcessWorkerMessage
        <5>3. shown'.workspaceId \in Workspaces
          BY <5>2 DEF WorkspaceLoaded
        <5>4. QED
          BY <5>3, ConstantsAssumption
      <4>3. QED
        BY <3>1, <3>2, <4>2, MessagesLeft
    <3>3. ASSUME NEW m \in Messages, toPage' = Append(toPage, m)
          PROVE  k \in DOMAIN toPage' /\ toPage'[k] = toPage[k]
      BY <3>3, MessageAdded
    <3>4. QED
      BY <3>1, <3>2, <3>3, MessagesAfter
  <2>2. ASSUME NEW l \in Loads, loads[l].status \in {"asked", "got", "failed", "half"}
        PROVE  Goal
    <3>1. CASE loads' = loads
      BY <2>2, <3>1
    <3>2. ASSUME NEW k \in Loads, GetWorkspace(k) \/ LoadFails(k)
          PROVE  Goal
      <4>1. loads'[k].status \in {"got", "failed", "half"}
        BY <3>2, LoadSteps
      <4>2. QED
        BY <4>1
    <3>3. ASSUME NEW k \in Loads, WorkspaceGot(k)
          PROVE  Goal
      <4>1. loads[k].workspaceId \in Workspaces /\ loads[k].vertices \in Contents
        BY <3>3, LoadSteps DEF WorkspaceGot
      <4>2. PICK m : m = Told("workspaceLoaded", loads[k].workspaceId, loads[k].vertices)
        OBVIOUS
      <4>3. m \in Messages /\ m.type = "workspaceLoaded" /\ toPage' = Append(toPage, m)
        BY <3>3, <4>1, <4>2, MessageTypes DEF WorkspaceGot, Told, Message
      <4>4. QED
        BY <4>3, MessageAdded
    <3>4. QED
      BY <1>1, <3>1, <3>2, <3>3, Asking, LoadsStayThere DEF Next, StartSaveNext, ServeNext, AnswerNext, LoadNext
  <2>3. QED
    BY <1>2, <2>1, <2>2 DEF WaitInv
<1>3. CASE ProcessWorkerMessage
  <2>1. CASE shown' = shown \/ shown'.workspaceId = shown.workspaceId
    BY <1>2, <2>1
  <2>2. CASE Head(toPage).type = "workspaceLoaded" /\ shown'.workspaceId = Head(toPage).workspaceId
    <3>1. Head(toPage) \in Messages
      BY <1>3, MessagesLeft
    <3>2. Head(toPage).workspaceId \in Workspaces
      BY <2>2, <3>1, MessageKnown
    <3>3. QED
      BY <2>2, <3>2, ConstantsAssumption
  <2>3. CASE \E w \in Workspaces : SwitchWorkspace(w)
    BY <1>1, <2>3
  <2>4. QED
    BY <2>1, <2>2, <2>3, ShownAfter
<1>4. QED
  BY <1>1, <1>2, <1>3, ShownAfter

LEMMA WaitStays == Types /\ AskedInv /\ LoadInv /\ WaitInv /\ [Next]_vars => WaitInv'
<1> SUFFICES ASSUME Types, AskedInv, LoadInv, WaitInv, [Next]_vars
             PROVE  WaitInv'
  OBVIOUS
<1>1. \A i \in (buffers \cup triggered)' : i <= asked'
  BY TimersStay
<1>2. (subtitle = "saving" => \/ shown.workspaceId = NoWorkspace
                               \/ \E i \in triggered : i \in late \/ saves[i].status # "told")'
  BY SavingStays
<1>3. (shown.workspaceId = NoWorkspace =>
         \/ \E l \in Loads : loads[l].status \in {"asked", "got", "failed", "half"}
         \/ \E k \in DOMAIN toPage : toPage[k].type = "workspaceLoaded")'
  BY NoneStays
<1>4. QED
  BY <1>1, <1>2, <1>3 DEF WaitInv

-----------------------------------------------------------------------------
(* The invariant is inductive.                                             *)

LEMMA Initial == Init => IInv
<1> SUFFICES ASSUME Init
             PROVE  IInv
  OBVIOUS
<1>1. Types /\ StoreInv /\ PageInv
  BY InitialTypes, InitialStore
<1>2. /\ \A i \in Ids : saves[i].status = "none" /\ saves[i].before = {}
      /\ \A l \in Loads : loads[l].status = "none"
      /\ asked = 0 /\ events = 0 /\ toPage = <<>> /\ current = Home /\ Home \in Workspaces
      /\ shown.workspaceId = Home /\ publicApi = <<Home>> /\ DOMAIN store = {Home}
      /\ buffers = {} /\ triggered = {} /\ subtitle = "plain"
      /\ \A w \in Workspaces : undos[w] = <<>> /\ redos[w] = <<>>
  BY ConstantsAssumption DEF Init, NoSave, Save, NoLoad
<1>3. AskedInv
  <2>1. \A i \in Ids : i > 0 /\ ~(i <= 0)
    BY IdTypes
  <2>2. QED
    BY <1>2, <2>1 DEF AskedInv
<1>4. LoadInv
  <2>1. Used = {}
    BY <1>2 DEF Used
  <2>2. Cardinality(Used) = 0
    BY <2>1, FS_EmptySet
  <2>3. QED
    BY <1>2, <2>2 DEF LoadInv
<1>5. PageAndWorkerAgree
  BY <1>2 DEF PageAndWorkerAgree
<1>6. ToldInv
  BY <1>2 DEF ToldInv
<1>7. UndoInv
  BY <1>2 DEF UndoInv, Kept
<1>8. AnsweredInv
  BY <1>2 DEF AnsweredInv
<1>9. WaitInv
  BY <1>2, ConstantsAssumption DEF WaitInv
<1>10. QED
  BY <1>1, <1>3, <1>4, <1>5, <1>6, <1>7, <1>8, <1>9 DEF IInv

LEMMA Inductive == Spec => []IInv
<1>1. Init => IInv
  BY Initial
<1>2. IInv /\ [Next]_vars => IInv'
  BY NextTypes, AskedStays, LoadStays, AgreeStays, StoreStays, PageStays, ToldStays, UndoStays, AnsweredStays,
     WaitStays DEF IInv
<1>3. QED
  BY <1>1, <1>2, PTL DEF Spec

-----------------------------------------------------------------------------
(* The theorems.                                                           *)

LEMMA TypesAreOK == Types /\ AskedInv => TypeOK
<1> SUFFICES ASSUME Types, AskedInv
             PROVE  TypeOK
  OBVIOUS
<1>1. ASSUME NEW w \in Workspaces, NEW s \in {undos[w], redos[w]}, NEW i \in DOMAIN s
      PROVE  s[i].undo \in Changes /\ s[i].redo \in Changes /\ s[i].id \in Ids
  <2>1. s \in Seq(Actions)
    BY <1>1 DEF Types
  <2>2. s[i] \in Actions
    BY <1>1, <2>1
  <2>3. QED
    BY <2>2 DEF Actions
<1>2. ASSUME NEW i \in Ids
      PROVE  /\ saves[i].status \in SaveStatuses
             /\ i <= asked => saves[i].change \in Changes
             /\ saves[i].status = "none" <=> i > asked
  BY DEF Types, SaveRecords, AskedInv
<1>3. QED
  BY <1>1, <1>2 DEF Types, TypeOK, SaveStatuses

\* Page, worker and server agree once nothing is in motion between them (workspaceSwitch, store.js,
\* workspaceLoaded and workspaceUpdated of withWorkspaces.js)
THEOREM PageAgreesWithServer == Spec => []TabFollowsServer
<1> SUFFICES IInv => TabFollowsServer
  BY Inductive, PTL
<1> SUFFICES ASSUME IInv
             PROVE  TabFollowsServer
  OBVIOUS
<1>1. TypeOK /\ PageAndWorkerAgree
  BY TypesAreOK DEF IInv
<1>2. PageFollowsStore
  <2> DEFINE w == shown.workspaceId
  <2> SUFFICES ASSUME w \in DOMAIN store, About(toPage, w) = {}, ~Halved(w),
                      \A l \in Loads : loads[l].workspaceId = w => loads[l].status # "got"
               PROVE  shown.vertices = store[w]
    BY DEF PageFollowsStore
  <2>1. \A l \in Loads : ~Got(w, l)
    BY DEF Got
  <2>2. QED
    BY <2>1 DEF IInv, PageInv, Tells
<1>3. StoreFollowsServer
  <2> SUFFICES ASSUME NEW w \in DOMAIN store \ (disturbed \cup gone), Motion(w) = 0
               PROVE  store[w] = server[w]
    BY DEF StoreFollowsServer
  <2>1. w \in Workspaces /\ Types
    BY StoreTypes DEF IInv
  <2>2. Saving(w) = {} /\ About(socket, w) = {} /\ About(pending, w) = {}
    BY <2>1, MotionIsOne
  <2>3. \A i \in Ids : ~Ahead(w, i)
    BY <2>2 DEF Saving, UnderWay, Ahead
  <2>4. Values(socket, w) = {} /\ Values(pending, w) = {}
    BY <2>2 DEF Values
  <2>5. QED
    BY <2>1, <2>3, <2>4 DEF IInv, StoreInv, Brings
<1>4. QED
  BY <1>1, <1>2, <1>3 DEF TabFollowsServer

\* Undo puts back what the server had (undoManager.js and inverse of withWorkspaces.js)
THEOREM UndoIsTrue == Spec => []UndoPutsBack
<1> SUFFICES IInv => UndoPutsBack
  BY Inductive, PTL
<1> SUFFICES ASSUME IInv,
                    NEW w \in Workspaces, ~Halved(w), NEW i \in DOMAIN undos[w],
                    saves[undos[w][i].id].before # {}, saves[undos[w][i].id].workspaceId = w
             PROVE  LET e == undos[w][i]
                        s == saves[e.id]
                    IN  /\ e.redo = s.change
                        /\ e.undo = IF s.before = {0} THEN Change("invalid", s.change.vertex, 0)
                                    ELSE Change("update", s.change.vertex, CHOOSE p \in s.before : TRUE)
  BY DEF UndoPutsBack
<1> DEFINE e == undos[w][i]
           s == saves[e.id]
<1>1. TakesBack(w, e.undo, e.redo, e.id)
  BY DEF IInv, UndoInv, Kept
<1>2. e.redo = s.change
  BY <1>1 DEF TakesBack
<1>3. PICK p \in Positions \cup {0} : s.before = {p} /\ e.undo = PutBack(s.change.vertex, p)
  BY <1>1 DEF TakesBack
<1>4. (CHOOSE q \in s.before : TRUE) = p
  BY <1>3
<1>5. s.before = {0} <=> p = 0
  BY <1>3
<1>6. QED
  BY <1>2, <1>3, <1>4, <1>5 DEF PutBack

\* At rest the page neither shows that it saves nor lacks a workspace, but for the failures it is not told
\* of (onUpdateWorkspace, onSwitchWorkspace)
THEOREM NothingIsWaitedFor == Spec => []WaitingEnds
<1> SUFFICES IInv => WaitingEnds
  BY Inductive, PTL
<1> SUFFICES ASSUME IInv, AtRest
             PROVE  WaitingEnds
  BY DEF WaitingEnds, SavingEnds, SwitchEnds
<1>1. ASSUME subtitle = "saving", shown.workspaceId # NoWorkspace
      PROVE  \E i \in triggered : i \in late \/ saves[i].status \in {"threw", "aborted"}
  <2>1. PICK i \in triggered : i \in late \/ saves[i].status # "told"
    BY <1>1 DEF IInv, WaitInv
  <2>2. i \in Ids /\ i \in Nat /\ asked \in Nat /\ i <= asked /\ saves[i].status \in SaveStatuses
    BY IdTypes DEF IInv, WaitInv, Types, SaveRecords
  <2>3. saves[i].status # "none"
    BY <2>2 DEF IInv, AskedInv
  <2>4. saves[i].status \notin {"asked", "sent", "applied", "refused", "orphan"}
    BY <2>2 DEF AtRest
  <2>5. saves[i].status # "answered"
    BY <2>2 DEF IInv, AnsweredInv, AtRest
  <2>6. QED
    BY <2>1, <2>2, <2>3, <2>4, <2>5 DEF SaveStatuses
<1>2. shown.workspaceId # NoWorkspace \/ \E l \in Loads : loads[l].status \in {"failed", "half"}
  BY DEF IInv, WaitInv, AtRest
<1>3. QED
  BY <1>1, <1>2 DEF WaitingEnds, SavingEnds, SwitchEnds
=============================================================================
