------------------------------ MODULE DataRequest ------------------------------
(***************************************************************************)
(* How the page asks its data worker for something (withDataRequest.js,    *)
(* withDataRequestHandler.js, data.js on the page; data-worker.js, the     *)
(* dataRequest handler, ajax.js and abort.js in the worker).               *)
(*                                                                         *)
(* A request is made by a component's node, registered a little later      *)
(* (Promise.require), handed to the worker by an event that bubbles to the *)
(* document, and answered by a message of the worker.  All messages of the *)
(* worker go through one queue, which is throttled for rebroadcasts.       *)
(*                                                                         *)
(* Two assumptions about what is not here.  The callbacks of a promise run *)
(* before the next message or event is taken.  The server answers every    *)
(* XHR that is not aborted, or the connection fails: ajax sets no time-out.*)
(***************************************************************************)
EXTENDS Naturals, Sequences, FiniteSets

CONSTANTS
  MaxRequests,     \* bound on the calls of dataRequest
  MaxBroadcasts,   \* bound on the broadcasts that no request caused
  MaxFaults        \* bound on listeners that throw and on messages that cannot be cloned

ASSUME ConstantsAssumption == MaxRequests \in Nat /\ MaxBroadcasts \in Nat /\ MaxFaults \in Nat

Ids == 1 .. MaxRequests

VARIABLES
  \* the page
  currentDataRequestId,  \* requests made so far: the ids are 1 .. currentDataRequestId
  method,          \* method[r]: "read", or "save", which is under abortPrevious
  inDom,           \* the ids whose $nodeInDom is the component's node, not the document
  attached,        \* that node is in the document
  requests,        \* the ids in the map
  timers,          \* the ids whose four seconds are running
  promise,         \* promise[r]: "none", "made", "pending", "fulfilled" or "rejected"
  \* the worker
  work,            \* work[r]: "none", "posted", "running", "answered", "aborted", "threw"
  channel,         \* the worker's messages, see below
  \* history
  cancel,          \* cancel[r]: "no", "early" (nothing to cancel yet) or "done"
  lost,            \* ids whose answer was behind a listener that threw
  broadcasts,
  faults

pageVars == <<currentDataRequestId, method, inDom, attached, requests, timers, promise>>
workerVars == <<work, channel>>
historyVars == <<cancel, lost, broadcasts, faults>>
vars == <<pageVars, workerVars, historyVars>>

Methods == {"read", "save"}

\* requestId is 0 in a message that answers no request
Message(type, r, success, cloneable) ==
  [type |-> type, requestId |-> r, success |-> success, cloneable |-> cloneable]
Rebroadcast == Message("rebroadcastEvent", 0, TRUE, TRUE)
Update == Message("storeObjectsUpdated", 0, TRUE, TRUE)
Completed(r, success, cloneable) == Message("dataRequestCompleted", r, success, cloneable)
Messages ==
  [type : {"rebroadcastEvent", "storeObjectsUpdated", "dataRequestCompleted"},
   requestId : Ids \cup {0}, success : BOOLEAN, cloneable : BOOLEAN]

-----------------------------------------------------------------------------
(***************************************************************************)
(* The way from the worker to the page.  queue is postMessageQueue, timer  *)
(* says that drainTimeout is set, recent that the last post was less than  *)
(* half a second ago; sent holds the batches that were posted.  A post of  *)
(* something that cannot be cloned throws, and the queue stays as it was.  *)
(***************************************************************************)
Cloneable(s) == \A i \in DOMAIN s : s[i].cloneable

DrainMessageQueue(w) ==
  IF Cloneable(w.queue)
  THEN [w EXCEPT !.queue = <<>>, !.recent = TRUE, !.sent = Append(@, w.queue)]
  ELSE w

\* mutant: a throttled message leaves it to the next one to set the timer
DispatchMainUnarmed(w, m) ==
  LET pushed == [w EXCEPT !.queue = Append(@, m), !.timer = FALSE]
  IN  IF m.type = "rebroadcastEvent" /\ w.recent THEN pushed ELSE DrainMessageQueue(pushed)

DispatchMain(w, m) ==
  LET pushed == [w EXCEPT !.queue = Append(@, m), !.timer = FALSE]
  IN  IF m.type = "rebroadcastEvent" /\ w.recent
      THEN [pushed EXCEPT !.timer = TRUE]
      ELSE DrainMessageQueue(pushed)

Init ==
  /\ currentDataRequestId = 0
  /\ method = [r \in Ids |-> "read"]
  /\ inDom = {}
  /\ attached = TRUE
  /\ requests = {}
  /\ timers = {}
  /\ promise = [r \in Ids |-> "none"]
  /\ work = [r \in Ids |-> "none"]
  /\ channel = [queue |-> <<>>, timer |-> FALSE, recent |-> FALSE, sent |-> <<>>]
  /\ cancel = [r \in Ids |-> "no"]
  /\ lost = {}
  /\ broadcasts = 0
  /\ faults = 0

-----------------------------------------------------------------------------
\* The page

\* dataRequestFromNode: the target of the events is chosen now, the map is filled later
DataRequest(m) ==
  /\ currentDataRequestId < MaxRequests
  /\ LET r == currentDataRequestId + 1
     IN  /\ currentDataRequestId' = r
         /\ method' = [method EXCEPT ![r] = m]
         /\ promise' = [promise EXCEPT ![r] = "made"]
         /\ \/ attached /\ inDom' = inDom \cup {r}
            \/ inDom' = inDom           \* asked from a node outside, or from the document
  /\ UNCHANGED <<attached, requests, timers, workerVars, historyVars>>

\* An event triggered on $nodeInDom of r gets to the document
Heard(r) == r \in inDom => attached

(***************************************************************************)
(* The callback of Promise.require; these run in the order of the calls.   *)
(* The event "dataRequest" is synchronous: a handler that hears it stops   *)
(* the timer and posts the request.  Parameters that cannot be cloned make *)
(* that post throw, after the timer was stopped.                           *)
(***************************************************************************)
Register(r) ==
  /\ promise[r] = "made"
  /\ \A q \in Ids : q < r => promise[q] # "made"
  /\ promise' = [promise EXCEPT ![r] = "pending"]
  /\ requests' = requests \cup {r}
  /\ IF ~Heard(r)
     THEN /\ timers' = timers \cup {r}
          /\ UNCHANGED <<work, faults>>
     ELSE /\ timers' = timers
          /\ \/ /\ work' = [work EXCEPT ![r] = "posted"]
                /\ UNCHANGED faults
             \/ /\ faults < MaxFaults
                /\ faults' = faults + 1
                /\ work' = [work EXCEPT ![r] = "threw"]
  /\ UNCHANGED <<currentDataRequestId, method, inDom, attached, channel, cancel, lost, broadcasts>>

CancelOnlyStopsTimer(r) ==                                             \* mutant
  /\ r \in Ids /\ promise[r] \in {"made", "pending"} /\ cancel[r] = "no"
  /\ cancel' = [cancel EXCEPT ![r] = IF r \in requests THEN "done" ELSE "early"]
  /\ timers' = timers \ {r}
  /\ UNCHANGED <<currentDataRequestId, method, inDom, attached, requests, promise, workerVars,
                 lost, broadcasts, faults>>

\* promise.cancel; the handler of dataRequestCancel is still to be written, so the worker goes on
Cancel(r) ==
  /\ r \in Ids /\ promise[r] \in {"made", "pending"} /\ cancel[r] = "no"
  /\ cancel' = [cancel EXCEPT ![r] = IF r \in requests THEN "done" ELSE "early"]
  /\ requests' = requests \ {r}
  /\ timers' = timers \ {r}
  /\ UNCHANGED <<currentDataRequestId, method, inDom, attached, promise, workerVars,
                 lost, broadcasts, faults>>

\* The component is torn down, or its node moved out of the document and back
Detach == attached /\ attached' = FALSE
          /\ UNCHANGED <<currentDataRequestId, method, inDom, requests, timers, promise,
                         workerVars, historyVars>>
Attach == ~attached /\ attached' = TRUE
          /\ UNCHANGED <<currentDataRequestId, method, inDom, requests, timers, promise,
                         workerVars, historyVars>>

\* mutant: the time-out rejects the promise and leaves its entry
TimeoutKeepsEntry(r) ==
  /\ r \in timers
  /\ timers' = timers \ {r}
  /\ promise' = IF Heard(r) THEN [promise EXCEPT ![r] = "rejected"] ELSE promise
  /\ UNCHANGED <<currentDataRequestId, method, inDom, attached, requests, workerVars, historyVars>>

\* Four seconds without dataRequestStarted: an error is triggered, on the same node
Timeout(r) ==
  /\ r \in timers
  /\ timers' = timers \ {r}
  /\ IF Heard(r)
     THEN /\ requests' = requests \ {r}
          /\ promise' = [promise EXCEPT ![r] = "rejected"]
     ELSE UNCHANGED <<requests, promise>>
  /\ UNCHANGED <<currentDataRequestId, method, inDom, attached, workerVars, historyVars>>

\* The ids that the first n messages of a batch answer
AnsweredIn(batch, n) == {batch[i].requestId : i \in 1 .. n} \ {0}
SuccessIn(batch, r) == \E i \in DOMAIN batch : batch[i].requestId = r /\ batch[i].success

\* Index of the last message handled: the whole batch, or up to a broadcast whose listener throws
HandledUpTo(batch) ==
  {Len(batch)} \cup IF faults < MaxFaults
                    THEN {i \in 1 .. Len(batch) - 1 : batch[i].requestId = 0} ELSE {}

(***************************************************************************)
(* onDataWorkerMessage: the batch is walked with forEach in one go, so a   *)
(* listener that throws takes the rest of the batch with it.               *)
(***************************************************************************)
ProcessBatch ==
  /\ channel.sent # <<>>
  /\ channel' = [channel EXCEPT !.sent = Tail(@)]
  /\ LET batch == Head(channel.sent)
     IN  \E n \in HandledUpTo(batch) :
           LET found == AnsweredIn(batch, n) \cap requests
           IN  /\ requests' = requests \ found
               /\ timers' = timers \ found
               /\ promise' = [r \in Ids |->
                    IF r \in found
                    THEN IF SuccessIn(batch, r) THEN "fulfilled" ELSE "rejected"
                    ELSE promise[r]]
               /\ lost' = lost \cup (AnsweredIn(batch, Len(batch)) \ AnsweredIn(batch, n))
               /\ faults' = IF n = Len(batch) THEN faults ELSE faults + 1
  /\ UNCHANGED <<currentDataRequestId, method, inDom, attached, work, cancel, broadcasts>>

-----------------------------------------------------------------------------
\* The worker

\* Handlers and services are loaded on demand, so only requests to one service keep their order
FirstOfItsService(r) ==
  method[r] = "save" => \A q \in Ids : q < r /\ method[q] = "save" => work[q] # "posted"

AbortNone(r) == work                                                   \* mutant
\* abortPrevious: a save aborts the one before, which is then never answered
AbortPrevious(r) ==
  [q \in Ids |-> IF method[r] = "save" /\ method[q] = "save" /\ work[q] = "running"
                 THEN "aborted" ELSE work[q]]

\* The dataRequest handler calls a service that sends an XHR
StartRequest(r) ==
  /\ work[r] = "posted" /\ FirstOfItsService(r)
  /\ work' = [AbortPrevious(r) EXCEPT ![r] = "running"]
  /\ UNCHANGED <<pageVars, channel, historyVars>>

\* The method is missing, or the service throws: no promise, no answer
StartThrows(r) ==
  /\ work[r] = "posted" /\ FirstOfItsService(r)
  /\ work' = [AbortPrevious(r) EXCEPT ![r] = "threw"]
  /\ UNCHANGED <<pageVars, channel, historyVars>>

\* mutant: a save without a change returns without an answer
SaveUnchangedSilently(r) ==
  /\ work[r] = "posted" /\ FirstOfItsService(r) /\ method[r] = "save"
  /\ work' = [AbortPrevious(r) EXCEPT ![r] = "answered"]
  /\ UNCHANGED <<pageVars, channel, historyVars>>

\* A save without a change resolves at once, and has aborted the one before all the same
SaveUnchanged(r) ==
  /\ work[r] = "posted" /\ FirstOfItsService(r) /\ method[r] = "save"
  /\ work' = [AbortPrevious(r) EXCEPT ![r] = "answered"]
  /\ channel' = DispatchMain(channel, Completed(r, TRUE, TRUE))
  /\ UNCHANGED <<pageVars, historyVars>>

\* r.onload, or r.onerror: the answer, or the error, is dispatched
Answer(r) ==
  /\ work[r] = "running"
  /\ work' = [work EXCEPT ![r] = "answered"]
  /\ \/ /\ \E success \in BOOLEAN : channel' = DispatchMain(channel, Completed(r, success, TRUE))
        /\ UNCHANGED faults
     \/ /\ faults < MaxFaults
        /\ faults' = faults + 1
        /\ channel' = DispatchMain(channel, Completed(r, TRUE, FALSE))
  /\ UNCHANGED <<pageVars, cancel, lost, broadcasts>>

\* cacheVertices, or a message from the socket: what the store learned is told to the page
Broadcast ==
  /\ broadcasts < MaxBroadcasts
  /\ broadcasts' = broadcasts + 1
  /\ \/ channel' = DispatchMain(channel, Rebroadcast)
     \/ channel' = DispatchMain(DispatchMain(channel, Update), Rebroadcast)
  /\ UNCHANGED <<pageVars, work, cancel, lost, faults>>

\* drainTimeout fires when half a second has passed since the last post
DrainTimeout ==
  /\ channel.timer /\ ~channel.recent
  /\ channel' = DrainMessageQueue([channel EXCEPT !.timer = FALSE])
  /\ UNCHANGED <<pageVars, work, historyVars>>

\* Half a second passes since the last post
SendRatePasses ==
  /\ channel.recent
  /\ channel' = [channel EXCEPT !.recent = FALSE]
  /\ UNCHANGED <<pageVars, work, historyVars>>

-----------------------------------------------------------------------------
RegisterNext == \E r \in Ids : Register(r)
TimeoutNext == \E r \in Ids : Timeout(r)
Start(r) == StartRequest(r) \/ StartThrows(r) \/ SaveUnchanged(r)
StartNext == \E r \in Ids : Start(r)
AnswerNext == \E r \in Ids : Answer(r)

Next ==
  \/ \E m \in Methods : DataRequest(m)
  \/ RegisterNext
  \/ \E r \in Ids : Cancel(r)
  \/ Detach
  \/ Attach
  \/ TimeoutNext
  \/ ProcessBatch
  \/ StartNext
  \/ AnswerNext
  \/ Broadcast
  \/ DrainTimeout
  \/ SendRatePasses

Spec == Init /\ [][Next]_vars

\* Timers fire, callbacks run, messages arrive and the server answers
FairSpec ==
  /\ Spec
  /\ WF_vars(RegisterNext) /\ WF_vars(TimeoutNext) /\ WF_vars(ProcessBatch)
  /\ WF_vars(StartNext) /\ WF_vars(AnswerNext)
  /\ WF_vars(DrainTimeout) /\ WF_vars(SendRatePasses)

-----------------------------------------------------------------------------
(***************************************************************************)
(* Types of the page's and the worker's state.                             *)
(***************************************************************************)
TypeOK ==
  /\ currentDataRequestId \in 0 .. MaxRequests
  /\ method \in [Ids -> Methods]
  /\ inDom \subseteq Ids
  /\ attached \in BOOLEAN
  /\ requests \subseteq Ids
  /\ timers \subseteq Ids
  /\ promise \in [Ids -> {"none", "made", "pending", "fulfilled", "rejected"}]
  /\ work \in [Ids -> {"none", "posted", "running", "answered", "aborted", "threw"}]
  /\ channel \in [queue : Seq(Messages), timer : BOOLEAN, recent : BOOLEAN, sent : Seq(Seq(Messages))]
  /\ cancel \in [Ids -> {"no", "early", "done"}]
  /\ lost \subseteq Ids
  /\ broadcasts \in 0 .. MaxBroadcasts
  /\ faults \in 0 .. MaxFaults

(***************************************************************************)
(* The map forgets nobody and keeps nobody: a registered request is in it  *)
(* exactly while its promise is open and nobody cancelled it, so a timer   *)
(* always belongs to an entry, and an answer that comes after a cancel or  *)
(* a time-out finds nothing (cleanRequest in withDataRequest.js).          *)
(***************************************************************************)
EntriesMatchPromises ==
  /\ requests = {r \in Ids : promise[r] = "pending" /\ cancel[r] # "done"}
  /\ timers \subseteq requests

(***************************************************************************)
(* A promise that was cancelled once its request was registered is never   *)
(* settled, whatever arrives: the answer of the worker that was not told,  *)
(* or the time-out (promise.cancel).                                       *)
(***************************************************************************)
CancelledStaysSilent ==
  [][\A r \in Ids : cancel[r] = "done" => promise'[r] = promise[r]]_vars

(***************************************************************************)
(* Saves are told of in the order they were asked for: once a save is      *)
(* fulfilled none made before it is fulfilled any more, although XHRs may  *)
(* finish in any order (abortPrevious in services/workspace.js, and the    *)
(* one queue of dispatchMain).                                             *)
(***************************************************************************)
SavesFulfilInOrder ==
  [][\A q, r \in Ids :
       /\ q < r /\ method[q] = "save" /\ method[r] = "save"
       /\ promise[r] = "fulfilled" /\ promise[q] # "fulfilled"
       => promise'[q] # "fulfilled"]_vars

(***************************************************************************)
(* Nothing that is throttled stays behind: what dispatchMain queued is     *)
(* posted in the end, also when nothing else is dispatched any more, or    *)
(* something in the queue cannot be posted at all.                         *)
(***************************************************************************)
ThrottledMessagesGo ==
  channel.queue # <<>> ~> (channel.queue = <<>> \/ ~Cloneable(channel.queue))

(***************************************************************************)
(* Every way for a promise to stay open: it was cancelled; its save was    *)
(* aborted by a later one; the service, or the post to the worker, threw;  *)
(* its event was not heard, and its time-out was not heard either; its     *)
(* answer waits behind a message that cannot be posted; or a listener      *)
(* threw before its answer's turn.                                         *)
(***************************************************************************)
StaysOpen(r) ==
  \/ cancel[r] = "done"
  \/ work[r] \in {"aborted", "threw"}
  \/ work[r] = "none" /\ r \in requests \ timers
  \/ ~Cloneable(channel.queue)
  \/ r \in lost

(***************************************************************************)
(* A request that is made is settled in the end, or is open for one of the *)
(* reasons of StaysOpen: neither the throttle, nor a node that leaves the  *)
(* document, nor an early cancel loses one in any other way (withDataRequest *)
(* and data-worker.js together).                                           *)
(***************************************************************************)
EveryRequestSettles ==
  \A r \in Ids : promise[r] = "made" ~> (promise[r] \in {"fulfilled", "rejected"} \/ StaysOpen(r))
=============================================================================
