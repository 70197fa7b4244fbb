------------------------- MODULE GraphPropertyRunner -------------------------
(***************************************************************************)
(* One graph property runner JVM: the runner thread, which takes messages  *)
(* off the graph property queue and processes them one at a time, and one  *)
(* GraphPropertyThreadedWrapper thread per graph property worker, to which *)
(* the runner hands work and from which it collects results.               *)
(*                                                                         *)
(* A message names an element, or one property of it.  The runner loads    *)
(* the element, and for every property it finds there (a "turn") enqueues  *)
(* one Work on each interested wrapper, pumps the tee of the property's    *)
(* stream if it has one, and dequeues one WorkResult per wrapper.          *)
(*                                                                         *)
(* A Work and its WorkResult carry nothing that relates the one to the     *)
(* other.  The model labels both with the number of the turn that made     *)
(* them: the label is history, no guard of the runner reads it.            *)
(***************************************************************************)
EXTENDS Naturals, Sequences

CONSTANTS
  NumWorkers,      \* workerWrappers has the wrappers 1 .. NumWorkers, in order
  Messages,        \* messages of the graph property queue
  Properties,      \* properties of the elements the messages name
  Streaming,       \* those whose value is a StreamingPropertyValue
  Scope,           \* Scope[m]: properties m asks to process
  Interested,      \* Interested[p]: findInterestedWorkers(element, p)
  ClosesEarly,     \* workers that close their stream before execute returns
  MaxFaults,       \* bound on crashes, shutdown() and streams that throw
  NoMessage, NoWork

Workers == 1 .. NumWorkers

ASSUME ConstantsAssumption ==
  /\ NumWorkers \in Nat
  /\ Properties # {}         \* every element has its concept type
  /\ Streaming \subseteq Properties
  /\ Scope \in [Messages -> SUBSET Properties]
  /\ Interested \in [Properties -> SUBSET Workers]
  /\ ClosesEarly \subseteq Workers
  /\ MaxFaults \in Nat
  /\ NoMessage \notin Messages
  /\ NoWork \notin Nat

VARIABLES
  \* the queue and the graph
  status,        \* status[m]: "queued", "taken", "acked" or "failed"
  elements,      \* messages whose element is in the graph
  present,       \* properties that are in the graph
  \* the runner thread
  pc,
  msg,           \* the message being processed
  todo,          \* its properties not yet processed
  prop,          \* the property of this turn
  toSend,        \* interested wrappers this turn has not enqueued work on
  toCollect,     \* interested wrappers whose result it has not dequeued
  \* the wrapper threads
  thread,        \* thread[w]: "new", "waiting", "executing", "reading",
                 \* "finishing", "reported" or "ended"
  stopped,
  workItems,     \* workItems[w]: turns of the Work waiting
  current,       \* current[w]: turn of the Work being executed
  workResults,   \* workResults[w]: turns of the results waiting
  open,          \* <<turn, w>>: tees that are not closed
  \* history
  turn,          \* number of the latest turn of this JVM
  found,         \* properties LookUp found in this delivery of msg
  turnOf,        \* turnOf[p]: turn of p in this delivery of msg, 0 if none
  done,          \* <<turn, w>>: w executed that Work in this delivery of msg
  late,          \* wrappers whose result a turn of this JVM gave up on
  faults

queueVars   == <<status, elements, present>>
turnVars    == <<toSend, toCollect, prop, turn, turnOf>>
loopVars    == <<msg, todo, found>>
runnerVars  == <<pc, loopVars, turnVars>>
wrapperVars == <<thread, stopped, workItems, current, workResults, open, done>>
vars == <<queueVars, runnerVars, wrapperVars, late, faults>>

Statuses == {"queued", "taken", "acked", "failed"}
RunnerStates == {"idle", "lookup", "next", "enqueue", "tee", "collect", "fail"}
BusyStates == {"executing", "reading", "finishing"}
ThreadStates == {"new", "waiting", "reported", "ended"} \cup BusyStates

\* The wrappers are visited in the order of the list workerWrappers.
First(S) == CHOOSE w \in S : \A v \in S : w <= v

Init ==
  /\ status = [m \in Messages |-> "queued"]
  /\ elements = Messages
  /\ present = Properties
  /\ pc = "idle" /\ msg = NoMessage /\ todo = {} /\ found = {}
  /\ prop = (CHOOSE p \in Properties : TRUE) /\ toSend = {} /\ toCollect = {}
  /\ turn = 0 /\ turnOf = [p \in Properties |-> 0]
  /\ thread = [w \in Workers |-> "new"]
  /\ stopped = [w \in Workers |-> FALSE]
  /\ workItems = [w \in Workers |-> <<>>]
  /\ current = [w \in Workers |-> NoWork]
  /\ workResults = [w \in Workers |-> <<>>]
  /\ open = {} /\ done = {} /\ late = {}
  /\ faults = 0

-----------------------------------------------------------------------------
(* The runner thread: WorkerBase.run and GraphPropertyRunner.process.      *)

\* nextTuple returns a message.
Receive(m) ==
  /\ pc = "idle"
  /\ status[m] = "queued"
  /\ status' = [status EXCEPT ![m] = "taken"]
  /\ msg' = m
  /\ pc' = "lookup"
  /\ UNCHANGED <<elements, present, todo, found, turnVars, wrapperVars, late, faults>>

\* An element that is not there throws; a property that is not there is
\* skipped without one.
LookUp ==
  /\ pc = "lookup"
  /\ IF msg \in elements
       THEN /\ todo' = Scope[msg] \cap present
            /\ pc' = "next"
       ELSE /\ todo' = {}
            /\ pc' = "fail"
  /\ found' = todo'
  /\ UNCHANGED <<queueVars, msg, turnVars, wrapperVars, late, faults>>

\* A property no worker is interested in needs no turn.
SkipProperty(p) ==
  /\ pc = "next" /\ p \in todo
  /\ Interested[p] = {}
  /\ todo' = todo \ {p}
  /\ UNCHANGED <<queueVars, pc, msg, found, turnVars, wrapperVars, late, faults>>

BeginTurn(p) ==
  /\ pc = "next" /\ p \in todo
  /\ Interested[p] # {}
  /\ todo' = todo \ {p}
  /\ prop' = p
  /\ turn' = turn + 1
  /\ turnOf' = [turnOf EXCEPT ![p] = turn + 1]
  /\ toSend' = Interested[p]
  /\ toCollect' = Interested[p]
  /\ open' = open \cup (IF p \in Streaming THEN {turn + 1} \X Interested[p] ELSE {})
  /\ pc' = "enqueue"
  /\ UNCHANGED <<queueVars, msg, found, thread, stopped, workItems, current, workResults,
                 done, late, faults>>

Fault == faults < MaxFaults /\ faults' = faults + 1

\* getInputStream or copyToTempFile throws before any work is enqueued.
OpenFails(p) ==
  /\ Fault
  /\ pc = "next" /\ p \in todo \cap Streaming
  /\ Interested[p] # {}
  /\ pc' = "fail"
  /\ UNCHANGED <<queueVars, loopVars, turnVars, wrapperVars, late>>

EnqueueWork ==
  /\ pc = "enqueue"
  /\ LET w == First(toSend) IN
       /\ workItems' = [workItems EXCEPT ![w] = Append(@, turn)]
       /\ toSend' = toSend \ {w}
       /\ pc' = IF toSend' # {} THEN "enqueue"
                ELSE IF prop \in Streaming THEN "tee" ELSE "collect"
  /\ UNCHANGED <<queueVars, loopVars, toCollect, prop, turn, turnOf, thread, stopped,
                 current, workResults, open, done, late, faults>>

AnyTeeClosed == \E w \in Interested[prop] : <<turn, w>> \notin open   \* mutant
TeesAreClosed == \A w \in Interested[prop] : <<turn, w>> \notin open

\* loopUntilTeesAreClosed returns.
TeeLoopEnds ==
  /\ pc = "tee"
  /\ TeesAreClosed
  /\ pc' = "collect"
  /\ UNCHANGED <<queueVars, loopVars, turnVars, wrapperVars, late, faults>>

IgnoreTimeout == pc' = "next" /\ UNCHANGED late                        \* mutant
\* The turn ends with an exception, before it has its wrappers' results.
GiveUp == pc' = "fail" /\ late' = late \cup toCollect

\* source.read throws in it: the turn's wrappers keep their work and tees.
TeeLoopFails ==
  /\ Fault
  /\ pc = "tee"
  /\ GiveUp
  /\ UNCHANGED <<queueVars, loopVars, turnVars, wrapperVars>>

AfterFirstResult(rest) == "next"                                      \* mutant
AfterResult(rest) == IF rest = {} THEN "next" ELSE "collect"

DequeueResult ==
  /\ pc = "collect"
  /\ LET w == First(toCollect) IN
       /\ workResults[w] # <<>>
       /\ workResults' = [workResults EXCEPT ![w] = Tail(@)]
       /\ toCollect' = toCollect \ {w}
       /\ pc' = AfterResult(toCollect')
  /\ UNCHANGED <<queueVars, loopVars, toSend, prop, turn, turnOf, thread, stopped,
                 workItems, current, open, done, late, faults>>

\* dequeueResult(false) waits ten seconds and then removes from an empty
\* queue, which throws; dequeueResult(true) waits for ever.
DequeueTimesOut ==
  /\ pc = "collect"
  /\ prop \in Streaming
  /\ workResults[First(toCollect)] = <<>>
  /\ GiveUp
  /\ UNCHANGED <<queueVars, loopVars, turnVars, wrapperVars, faults>>

\* The runner's locals go, and with them what is remembered of the delivery.
LeaveMessage ==
  /\ pc' = "idle" /\ msg' = NoMessage
  /\ todo' = {} /\ toSend' = {} /\ toCollect' = {}
  /\ found' = {} /\ turnOf' = [p \in Properties |-> 0] /\ done' = {}

Settle(outcome) ==
  /\ status' = [status EXCEPT ![msg] = outcome]
  /\ LeaveMessage
  /\ UNCHANGED <<elements, present, prop, turn, thread, stopped, workItems, current,
                 workResults, open, late, faults>>

\* process returned: the message is acknowledged.
Ack == pc = "next" /\ todo = {} /\ Settle("acked")

\* process threw: the message is rejected and not requeued.
Fail == pc = "fail" /\ Settle("failed")

-----------------------------------------------------------------------------
(* A wrapper thread: GraphPropertyThreadedWrapper.run.                     *)

\* run clears the flag a stop() before it may have set.
RunBegins(w) ==
  /\ thread[w] = "new"
  /\ thread' = [thread EXCEPT ![w] = "waiting"]
  /\ stopped' = [stopped EXCEPT ![w] = FALSE]
  /\ UNCHANGED <<queueVars, runnerVars, workItems, current, workResults, open, done,
                 late, faults>>

\* stopped is a plain field another thread writes: the loop may never see it
\* set, so taking work does not require it to be FALSE.
TakeWork(w) ==
  /\ thread[w] = "waiting"
  /\ workItems[w] # <<>>
  /\ current' = [current EXCEPT ![w] = Head(workItems[w])]
  /\ workItems' = [workItems EXCEPT ![w] = Tail(@)]
  /\ thread' = [thread EXCEPT ![w] = "executing"]
  /\ UNCHANGED <<queueVars, runnerVars, stopped, workResults, open, done, late, faults>>

RunEnds(w) ==
  /\ thread[w] = "waiting"
  /\ stopped[w]
  /\ thread' = [thread EXCEPT ![w] = "ended"]
  /\ UNCHANGED <<queueVars, runnerVars, stopped, workItems, current, workResults,
                 open, done, late, faults>>

\* execute reads its tee and has to wait for bytes; one such wait stands for all.
BlockOnRead(w) ==
  /\ thread[w] = "executing"
  /\ <<current[w], w>> \in open
  /\ thread' = [thread EXCEPT ![w] = "reading"]
  /\ UNCHANGED <<queueVars, runnerVars, stopped, workItems, current, workResults,
                 open, done, late, faults>>

\* Only the turn's tee loop brings the bytes.
ReadReturns(w) ==
  /\ thread[w] = "reading"
  /\ pc = "tee" /\ turn = current[w]
  /\ thread' = [thread EXCEPT ![w] = "finishing"]
  /\ UNCHANGED <<queueVars, runnerVars, stopped, workItems, current, workResults,
                 open, done, late, faults>>

CloseEarly(w) ==
  /\ w \in ClosesEarly
  /\ thread[w] \in {"executing", "finishing"}
  /\ <<current[w], w>> \in open
  /\ open' = open \ {<<current[w], w>>}
  /\ UNCHANGED <<queueVars, runnerVars, thread, stopped, workItems, current,
                 workResults, done, late, faults>>

WithoutResult(w) == workResults[w]                                     \* mutant
WithResult(w) == Append(workResults[w], current[w])

\* execute returned or threw: either way one WorkResult is added.
AddResult(w) ==
  /\ thread[w] \in {"executing", "finishing"}
  /\ workResults' = [workResults EXCEPT ![w] = WithResult(w)]
  /\ done' = done \cup {<<current[w], w>>}
  /\ thread' = [thread EXCEPT ![w] = "reported"]
  /\ UNCHANGED <<queueVars, runnerVars, stopped, workItems, current, open, late, faults>>

\* The finally block closes the stream, and the loop goes on.
CloseStream(w) ==
  /\ thread[w] = "reported"
  /\ open' = open \ {<<current[w], w>>}
  /\ current' = [current EXCEPT ![w] = NoWork]
  /\ thread' = [thread EXCEPT ![w] = "waiting"]
  /\ UNCHANGED <<queueVars, runnerVars, stopped, workItems, workResults, done, late, faults>>

-----------------------------------------------------------------------------
(* The environment.                                                        *)

Shutdown ==
  /\ Fault
  /\ stopped' = [w \in Workers |-> TRUE]
  /\ UNCHANGED <<queueVars, runnerVars, thread, workItems, current, workResults, open,
                 done, late>>

\* A web server deletes an element, or one of its properties. That of a property that
\* interests no worker would only spare the runner a step, and is left out.
DeleteElement(m) ==
  /\ m \in elements
  /\ elements' = elements \ {m}
  /\ UNCHANGED <<status, present, runnerVars, wrapperVars, late, faults>>

DeleteProperty(p) ==
  /\ p \in present /\ Interested[p] # {}
  /\ present' = present \ {p}
  /\ UNCHANGED <<status, elements, runnerVars, wrapperVars, late, faults>>

\* The JVM dies and is started again: the broker requeues what was not
\* acknowledged, the wrappers are new.
Crash ==
  /\ Fault
  /\ status' = [m \in Messages |-> IF status[m] = "taken" THEN "queued" ELSE status[m]]
  /\ LeaveMessage
  /\ turn' = 0
  /\ thread' = [w \in Workers |-> "new"]
  /\ stopped' = [w \in Workers |-> FALSE]
  /\ workItems' = [w \in Workers |-> <<>>]
  /\ current' = [w \in Workers |-> NoWork]
  /\ workResults' = [w \in Workers |-> <<>>]
  /\ open' = {} /\ late' = {}
  /\ UNCHANGED <<elements, present, prop>>

Runner ==
  \/ \E m \in Messages : Receive(m)
  \/ LookUp
  \/ \E p \in Properties : SkipProperty(p) \/ BeginTurn(p)
  \/ EnqueueWork
  \/ TeeLoopEnds
  \/ DequeueResult
  \/ Ack
  \/ Fail

RunnerFailure ==
  \/ \E p \in Properties : OpenFails(p)
  \/ TeeLoopFails
  \/ DequeueTimesOut

Execution(w) == ReadReturns(w) \/ AddResult(w) \/ CloseStream(w)

Wrapper(w) ==
  \/ RunBegins(w) \/ TakeWork(w) \/ RunEnds(w) \/ BlockOnRead(w)
  \/ CloseEarly(w) \/ Execution(w)

Environment ==
  \/ Shutdown
  \/ \E m \in Messages : DeleteElement(m)
  \/ \E p \in Properties : DeleteProperty(p)
  \/ Crash

Next ==
  \/ Runner
  \/ RunnerFailure
  \/ \E w \in Workers : Wrapper(w)
  \/ Environment

Spec == Init /\ [][Next]_vars

\* Each thread is scheduled; a timeout, a failure, a crash or a call from
\* outside need not happen.
FairSpec ==
  /\ Spec
  /\ WF_vars(Runner)
  /\ \A w \in Workers : WF_vars(RunBegins(w)) /\ WF_vars(TakeWork(w)) /\ WF_vars(Execution(w))

-----------------------------------------------------------------------------
TypeOK ==
  /\ status \in [Messages -> Statuses]
  /\ elements \subseteq Messages
  /\ present \subseteq Properties
  /\ pc \in RunnerStates
  /\ msg \in Messages \cup {NoMessage}
  /\ todo \subseteq Properties
  /\ found \subseteq Properties
  /\ prop \in Properties
  /\ toSend \subseteq Workers
  /\ toCollect \subseteq Workers
  /\ turn \in Nat
  /\ turnOf \in [Properties -> Nat]
  /\ thread \in [Workers -> ThreadStates]
  /\ stopped \in [Workers -> BOOLEAN]
  /\ workItems \in [Workers -> Seq(Nat)]
  /\ current \in [Workers -> Nat \cup {NoWork}]
  /\ workResults \in [Workers -> Seq(Nat)]
  /\ open \subseteq Nat \X Workers
  /\ done \subseteq Nat \X Workers
  /\ late \subseteq Workers
  /\ faults \in Nat

(* Between turns no wrapper holds work or a result: what the runner does   *)
(* then (flush the graph, delete the local copy of the stream, acknowledge *)
(* the message) never overlaps a worker's execution, and the next result a *)
(* wrapper gives is the next turn's.  The exception is a wrapper whose     *)
(* result an earlier turn gave up on, which stays one result behind until  *)
(* the JVM ends.                                                           *)
QuietBetweenTurns ==
  pc \in {"idle", "lookup", "next"} =>
    \A w \in Workers \ late :
      /\ workItems[w] = <<>>
      /\ workResults[w] = <<>>
      /\ thread[w] \notin BusyStates

(* A message is acknowledged only when every worker interested in a        *)
(* property the runner found has executed its work on it, wrappers the     *)
(* runner gave up on excepted: for those the result it counted is another  *)
(* turn's.                                                                 *)
HonestAck ==
  [][\A m \in Messages :
       status[m] = "taken" /\ status'[m] = "acked" =>
         \A p \in found : \A w \in Interested[p] :
           <<turnOf[p], w>> \in done \/ w \in late]_vars

(* dequeueResult(false) finds the result of every worker that leaves its   *)
(* stream to the wrapper to close, which adds the result first: only a     *)
(* worker that closes the stream and works on can run into the ten seconds.*)
TimeoutOnlyAfterEarlyClose ==
  pc = "collect" /\ prop \in Streaming =>
    \A w \in toCollect \ ClosesEarly : workResults[w] # <<>>

(* A worker blocked on its stream is not abandoned there: the read it      *)
(* waits in returns (or the JVM dies), unless its source broke.            *)
ReadersReleased ==
  \A w \in Workers : thread[w] = "reading" ~> (thread[w] # "reading" \/ w \in late)

(* Every message is acknowledged or rejected in the end, though results    *)
(* are late and the JVM is restarted, unless the runner gave up on wrappers *)
(* of this JVM or shut them down.                                          *)
MessagesSettle ==
  \A m \in Messages :
    status[m] = "queued" ~>
      (status[m] \in {"acked", "failed"} \/ late # {} \/ \E w \in Workers : stopped[w])

(* Work and results of a turn stay within it: nothing of it is left when    *)
(* the next begins, and no turn gives up on a worker that left its stream  *)
(* to the wrapper.                                                         *)
TurnsAreSeparate == TypeOK /\ QuietBetweenTurns /\ TimeoutOnlyAfterEarlyClose
=============================================================================
