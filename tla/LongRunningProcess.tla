-------------------------- MODULE LongRunningProcess --------------------------
(***************************************************************************)
(* Long running processes: a web server stores a process as a vertex and   *)
(* pushes it on a queue, a runner takes it, lets a worker do it and stores *)
(* how far it is, users cancel and delete it meanwhile, and browsers show  *)
(* what is broadcast.                                                      *)
(*                                                                         *)
(* The JSON of a process is the set of its keys.  There are two copies of  *)
(* it: the one in the vertex, which everybody rewrites as a whole, some    *)
(* after reading it, and the one in the message, which only its runner     *)
(* changes.  Nothing locks the vertex; a write to a deleted one is lost.   *)
(*                                                                         *)
(* The queue is AtLeastOnceQueue, which WorkerBase implements.  As there,  *)
(* a runner that lost its connection (stale) goes on with a message that   *)
(* is back in the queue, and its acknowledgement is ignored.               *)
(***************************************************************************)
EXTENDS Naturals

CONSTANTS
  Processes,
  Handled,         \* those for which some worker's isHandled is true
  Runners,
  Cancelable,      \* those users cancel
  Deletable,       \* those users delete
  MaxReports,      \* bound on the reports of progress in one run
  MaxFaults,       \* bound on crashes and lost connections together
  NoProcess

ASSUME ConstantsAssumption ==
  /\ {Handled, Cancelable, Deletable} \subseteq SUBSET Processes
  /\ MaxReports \in Nat
  /\ MaxFaults \in Nat
  /\ NoProcess \notin Processes

VARIABLES
  \* the graph and the queue
  exists,          \* processes with a vertex
  vertex,          \* vertex[p]: keys of the JSON stored there
  place,           \* place[p]: where the message is, as in AtLeastOnceQueue
  \* calls in the web server, one of each kind per process
  enqueuing,       \* "no", "saved", "announced", "pushed" or "dead"
  canceling,       \* "no", "read" or "written"
  cancelJson,
  deleting,        \* "no", "read" or "deleted"
  deleteJson,
  \* the runners
  at,              \* at[r]: what process is about to do
  job,
  item,            \* item[r]: keys of the message's JSON
  json,            \* json[r]: keys reportProgress read
  reports,
  verdict,         \* verdict[r]: how the message will be settled
  stale,
  \* a browser that is connected all the time
  row,             \* row[p]: keys of the process it shows
  removed,         \* removedTasks
  \* history
  silent,          \* processes deleted with nothing broadcast
  rerun,           \* processes whose message came back to the queue
  abandoned,       \* processes a stale runner died on
  faults

graphVars   == <<exists, vertex>>
webVars     == <<enqueuing, canceling, cancelJson, deleting, deleteJson>>
runnerVars  == <<at, job, item, json, reports, verdict, stale>>
browserVars == <<row, removed>>
historyVars == <<silent, rerun, abandoned, faults>>
vars == <<graphVars, place, webVars, runnerVars, browserVars, historyVars>>

Keys == {"id", "startTime", "results", "error", "endTime", "canceled"}
Steps == {"idle", "begin", "announceBegin", "work", "writeProgress", "announceProgress",
          "ack", "nak", "announceEnd", "settle"}

Init ==
  /\ exists = {}
  /\ vertex = [p \in Processes |-> {}]
  /\ place = [p \in Processes |-> "unsent"]
  /\ enqueuing = [p \in Processes |-> "no"]
  /\ canceling = [p \in Processes |-> "no"]
  /\ cancelJson = [p \in Processes |-> {}]
  /\ deleting = [p \in Processes |-> "no"]
  /\ deleteJson = [p \in Processes |-> {}]
  /\ at = [r \in Runners |-> "idle"]
  /\ job = [r \in Runners |-> NoProcess]
  /\ item = [r \in Runners |-> {}]
  /\ json = [r \in Runners |-> {}]
  /\ reports = [r \in Runners |-> 0]
  /\ verdict = [r \in Runners |-> "acked"]
  /\ stale = [r \in Runners |-> FALSE]
  /\ row = [p \in Processes |-> {}]
  /\ removed = {}
  /\ silent = {} /\ rerun = {} /\ abandoned = {}
  /\ faults = 0

\* QUEUE_ITEM_JSON_PROPERTY.setProperty
Store(p, keys) == vertex' = [vertex EXCEPT ![p] = IF p \in exists THEN keys ELSE @]

\* The browser receives broadcastLongRunningProcessChange: addOrUpdateTask.
Show(p, keys) ==
  /\ row' = [row EXCEPT ![p] = IF p \in removed THEN @ ELSE keys]
  /\ UNCHANGED removed

-----------------------------------------------------------------------------
(* The web server.                                                         *)

\* enqueue: the vertex is stored before the id is put into the JSON.
EnqueueSave(p) ==
  /\ enqueuing[p] = "no"
  /\ enqueuing' = [enqueuing EXCEPT ![p] = "saved"]
  /\ exists' = exists \cup {p}
  /\ UNCHANGED <<vertex, place, canceling, cancelJson, deleting, deleteJson, runnerVars,
                 browserVars, historyVars>>

EnqueueAnnounce(p) ==
  /\ enqueuing[p] = "saved"
  /\ enqueuing' = [enqueuing EXCEPT ![p] = "announced"]
  /\ Show(p, {"id"})
  /\ UNCHANGED <<graphVars, place, canceling, cancelJson, deleting, deleteJson, runnerVars,
                 historyVars>>

EnqueuePushStoresId(p) ==                                              \* mutant
  /\ enqueuing[p] = "announced"
  /\ enqueuing' = [enqueuing EXCEPT ![p] = "pushed"]
  /\ place' = [place EXCEPT ![p] = "ready"]
  /\ Store(p, {"id"})
  /\ UNCHANGED <<exists, canceling, cancelJson, deleting, deleteJson, runnerVars,
                 browserVars, historyVars>>
EnqueuePush(p) ==
  /\ enqueuing[p] = "announced"
  /\ enqueuing' = [enqueuing EXCEPT ![p] = "pushed"]
  /\ place' = [place EXCEPT ![p] = "ready"]
  /\ UNCHANGED <<graphVars, canceling, cancelJson, deleting, deleteJson, runnerVars,
                 browserVars, historyVars>>

\* The web server dies, or the broadcast or the push throws.
EnqueueDies(p) ==
  /\ enqueuing[p] \in {"saved", "announced"}
  /\ faults < MaxFaults
  /\ faults' = faults + 1
  /\ enqueuing' = [enqueuing EXCEPT ![p] = "dead"]
  /\ UNCHANGED <<graphVars, place, canceling, cancelJson, deleting, deleteJson, runnerVars,
                 browserVars, silent, rerun, abandoned>>

CanceledPlain(p) == vertex[p] \cup {"id"}                              \* mutant
Canceled(p) == vertex[p] \cup {"canceled", "id"}

CancelRead(p) ==
  /\ p \in Cancelable
  /\ canceling[p] = "no" /\ p \in exists
  /\ canceling' = [canceling EXCEPT ![p] = "read"]
  /\ cancelJson' = [cancelJson EXCEPT ![p] = Canceled(p)]
  /\ UNCHANGED <<graphVars, place, enqueuing, deleting, deleteJson, runnerVars, browserVars,
                 historyVars>>

CancelWrite(p) ==
  /\ canceling[p] = "read"
  /\ canceling' = [canceling EXCEPT ![p] = "written"]
  /\ Store(p, cancelJson[p])
  /\ UNCHANGED <<exists, place, enqueuing, cancelJson, deleting, deleteJson, runnerVars,
                 browserVars, historyVars>>

CancelAnnounce(p) ==
  /\ canceling[p] = "written"
  /\ canceling' = [canceling EXCEPT ![p] = "no"]
  /\ cancelJson' = [cancelJson EXCEPT ![p] = {}]
  /\ Show(p, cancelJson[p])
  /\ UNCHANGED <<graphVars, place, enqueuing, deleting, deleteJson, runnerVars, historyVars>>

DeleteRead(p) ==
  /\ p \in Deletable
  /\ deleting[p] = "no" /\ p \in exists
  /\ deleting' = [deleting EXCEPT ![p] = "read"]
  /\ deleteJson' = [deleteJson EXCEPT ![p] = vertex[p]]
  /\ UNCHANGED <<graphVars, place, enqueuing, canceling, cancelJson, runnerVars, browserVars,
                 historyVars>>

DeleteVertex(p) ==
  /\ deleting[p] = "read"
  /\ deleting' = [deleting EXCEPT ![p] = "deleted"]
  /\ exists' = exists \ {p}
  /\ vertex' = [vertex EXCEPT ![p] = {}]
  /\ UNCHANGED <<place, enqueuing, canceling, cancelJson, deleteJson, runnerVars,
                 browserVars, historyVars>>

\* broadcastLongRunningProcessDeleted throws when the JSON has no id.
DeleteAnnounce(p) ==
  /\ deleting[p] = "deleted"
  /\ deleting' = [deleting EXCEPT ![p] = "no"]
  /\ deleteJson' = [deleteJson EXCEPT ![p] = {}]
  /\ IF "id" \in deleteJson[p]
       THEN removed' = removed \cup {p} /\ UNCHANGED silent
       ELSE silent' = silent \cup {p} /\ UNCHANGED removed
  /\ UNCHANGED <<graphVars, place, enqueuing, canceling, cancelJson, runnerVars, row, rerun,
                 abandoned, faults>>

-----------------------------------------------------------------------------
(* LongRunningProcessRunner.process, between nextTuple and ack.            *)

Goto(r, step) == at' = [at EXCEPT ![r] = step]

Take(r, p) ==
  /\ at[r] = "idle"
  /\ place[p] = "ready"
  /\ place' = [place EXCEPT ![p] = "held"]
  /\ job' = [job EXCEPT ![r] = p]
  /\ item' = [item EXCEPT ![r] = {"id"}]
  /\ verdict' = [verdict EXCEPT ![r] = "acked"]
  /\ reports' = [reports EXCEPT ![r] = 0]
  /\ Goto(r, IF p \in Handled THEN "begin" ELSE "settle")
  /\ UNCHANGED <<graphVars, webVars, json, stale, browserVars, historyVars>>

\* updateVertexWithJson throws when the vertex is not there.
Record(r, keys, step, otherwise) ==
  /\ item' = [item EXCEPT ![r] = keys]
  /\ Store(job[r], keys)
  /\ Goto(r, IF job[r] \in exists THEN step ELSE otherwise)
  /\ UNCHANGED <<exists, place, webVars, job, json, reports, stale, browserVars, historyVars>>

BeginWork(r) ==
  /\ at[r] = "begin"
  /\ Record(r, item[r] \cup {"startTime"}, "announceBegin", "nak")
  /\ UNCHANGED verdict

Announce(r, keys, step) ==
  /\ Show(job[r], keys)
  /\ Goto(r, step)
  /\ UNCHANGED <<graphVars, place, webVars, job, item, json, reports, verdict, stale,
                 historyVars>>

AnnounceBegin(r) == at[r] = "announceBegin" /\ Announce(r, item[r], "work")

\* reportProgress reads the vertex, and rewrites it in a step of its own.
ReadProgress(r) ==
  /\ at[r] = "work"
  /\ reports[r] < MaxReports
  /\ reports' = [reports EXCEPT ![r] = @ + 1]
  /\ IF job[r] \in exists
       THEN /\ json' = [json EXCEPT ![r] = vertex[job[r]] \cup {"id"}]
            /\ Goto(r, "writeProgress")
       ELSE /\ UNCHANGED json
            /\ Goto(r, "nak")
  /\ UNCHANGED <<graphVars, place, webVars, job, item, verdict, stale, browserVars,
                 historyVars>>

WriteProgress(r) ==
  /\ at[r] = "writeProgress"
  /\ Store(job[r], json[r])
  /\ Goto(r, "announceProgress")
  /\ UNCHANGED <<exists, place, webVars, job, item, json, reports, verdict, stale, browserVars,
                 historyVars>>

AnnounceProgress(r) == at[r] = "announceProgress" /\ Announce(r, json[r], "work")

\* worker.process returns, or throws.
WorkEnds(r) ==
  /\ at[r] = "work"
  /\ \/ Goto(r, "ack") /\ item' = [item EXCEPT ![r] = @ \cup {"results"}]
     \/ Goto(r, "nak") /\ UNCHANGED item
  /\ UNCHANGED <<graphVars, place, webVars, job, json, reports, verdict, stale, browserVars,
                 historyVars>>

AckWithoutEnd(r) ==                                                    \* mutant
  /\ at[r] = "ack"
  /\ Record(r, item[r], "announceEnd", "nak")
  /\ UNCHANGED verdict
Ack(r) ==
  /\ at[r] = "ack"
  /\ Record(r, item[r] \cup {"endTime"}, "announceEnd", "nak")
  /\ UNCHANGED verdict

\* What the catch block puts into the JSON.
FailedOpen(r) == item[r] \cup {"error"}                                \* mutant
Failed(r) == item[r] \cup {"error", "endTime"}

\* What nak throws leaves process.
Nak(r) ==
  /\ at[r] = "nak"
  /\ Record(r, Failed(r), "announceEnd", "settle")
  /\ verdict' = [verdict EXCEPT ![r] = IF job[r] \in exists THEN @ ELSE "rejected"]

AnnounceLastRead(r) == at[r] = "announceEnd" /\ Announce(r, json[r], "settle")  \* mutant
AnnounceEnd(r) == at[r] = "announceEnd" /\ Announce(r, item[r], "settle")

Leave(r) ==
  /\ job' = [job EXCEPT ![r] = NoProcess]
  /\ item' = [item EXCEPT ![r] = {}]
  /\ json' = [json EXCEPT ![r] = {}]
  /\ stale' = [stale EXCEPT ![r] = FALSE]
  /\ verdict' = [verdict EXCEPT ![r] = "acked"]
  /\ reports' = [reports EXCEPT ![r] = 0]
  /\ Goto(r, "idle")

NewPlaceAnyTag(r) == verdict[r]                                        \* mutant
NewPlace(r) == IF stale[r] THEN place[job[r]] ELSE verdict[r]

\* The spout's ack or fail.
Settle(r) ==
  /\ at[r] = "settle"
  /\ place' = [place EXCEPT ![job[r]] = NewPlace(r)]
  /\ Leave(r)
  /\ UNCHANGED <<graphVars, webVars, browserVars, historyVars>>

LoseConnection(r) ==
  /\ at[r] # "idle" /\ ~stale[r]
  /\ faults < MaxFaults
  /\ faults' = faults + 1
  /\ stale' = [stale EXCEPT ![r] = TRUE]
  /\ place' = [place EXCEPT ![job[r]] = "ready"]
  /\ rerun' = rerun \cup {job[r]}
  /\ UNCHANGED <<graphVars, webVars, at, job, item, json, reports, verdict, browserVars,
                 silent, abandoned>>

Crash(r) ==
  /\ at[r] # "idle"
  /\ faults < MaxFaults
  /\ faults' = faults + 1
  /\ IF stale[r]
       THEN /\ abandoned' = abandoned \cup {job[r]}
            /\ UNCHANGED <<place, rerun>>
       ELSE /\ place' = [place EXCEPT ![job[r]] = "ready"]
            /\ rerun' = rerun \cup {job[r]}
            /\ UNCHANGED abandoned
  /\ Leave(r)
  /\ UNCHANGED <<graphVars, webVars, browserVars, silent>>

Enqueue(p) == EnqueueSave(p) \/ EnqueueAnnounce(p) \/ EnqueuePush(p)
Cancel(p) == CancelRead(p) \/ CancelWrite(p) \/ CancelAnnounce(p)
Delete(p) == DeleteRead(p) \/ DeleteVertex(p) \/ DeleteAnnounce(p)

Process(r) ==
  \/ BeginWork(r) \/ AnnounceBegin(r)
  \/ ReadProgress(r) \/ WriteProgress(r) \/ AnnounceProgress(r)
  \/ WorkEnds(r) \/ Ack(r) \/ Nak(r) \/ AnnounceEnd(r) \/ Settle(r)

Next ==
  \/ \E p \in Processes : Enqueue(p) \/ EnqueueDies(p) \/ Cancel(p) \/ Delete(p)
  \/ \E r \in Runners :
       \/ \E p \in Processes : Take(r, p)
       \/ Process(r) \/ LoseConnection(r) \/ Crash(r)

Spec == Init /\ [][Next]_vars

\* A runner takes what is in the queue and gets on with it; calls of the web
\* server finish, but nobody has to make one.
FairSpec ==
  /\ Spec
  /\ \A r \in Runners : WF_vars(Process(r)) /\ WF_vars(\E p \in Processes : Take(r, p))
  /\ \A p \in Processes : WF_vars(CancelWrite(p) \/ CancelAnnounce(p))

-----------------------------------------------------------------------------
TypeOK ==
  /\ exists \subseteq Processes
  /\ vertex \in [Processes -> SUBSET Keys]
  /\ place \in [Processes -> {"unsent", "ready", "held", "acked", "rejected"}]
  /\ enqueuing \in [Processes -> {"no", "saved", "announced", "pushed", "dead"}]
  /\ canceling \in [Processes -> {"no", "read", "written"}]
  /\ cancelJson \in [Processes -> SUBSET Keys]
  /\ deleting \in [Processes -> {"no", "read", "deleted"}]
  /\ deleteJson \in [Processes -> SUBSET Keys]
  /\ at \in [Runners -> Steps]
  /\ job \in [Runners -> Processes \cup {NoProcess}]
  /\ item \in [Runners -> SUBSET Keys]
  /\ json \in [Runners -> SUBSET Keys]
  /\ reports \in [Runners -> 0 .. MaxReports]
  /\ verdict \in [Runners -> {"acked", "rejected"}]
  /\ stale \in [Runners -> BOOLEAN]
  /\ row \in [Processes -> SUBSET Keys]
  /\ {removed, silent, rerun, abandoned} \subseteq SUBSET Processes
  /\ faults \in 0 .. MaxFaults

\* processIsFinished in the browser
Finished(keys) == keys \cap {"canceled", "endTime"} # {}

\* Nothing will touch p any more, but a user.
Over(p) ==
  /\ place[p] \in {"acked", "rejected"}
  /\ p \in Handled \ abandoned
  /\ \A r \in Runners : job[r] # p

(* When its message is settled a process looks finished to everybody who   *)
(* reads the vertex, in spite of the unlocked rewrites of reportProgress   *)
(* and cancel and of a runner that has lost its connection and races the   *)
(* one that took over (except when such a runner dies halfway).            *)
NothingLooksRunning ==
  \A p \in exists : Over(p) => Finished(vertex[p])

(* The same for a browser that follows the broadcasts: a process that is   *)
(* over, or deleted, is not left there as a running one - but for a        *)
(* process whose JSON had no id yet when it was deleted.                   *)
RowsSettle ==
  \A p \in Processes :
    Over(p) /\ canceling[p] = "no" /\ deleting[p] = "no" =>
      p \in removed \cup silent \/ Finished(row[p])

(* A process whose deletion is complete is not shown, whatever broadcasts  *)
(* were under way when it was deleted or are made by those who have not    *)
(* noticed - but for a process whose JSON had no id yet.                   *)
DeletedIsGone ==
  \A p \in Processes :
    enqueuing[p] # "no" /\ p \notin exists /\ deleting[p] = "no" =>
      p \in removed \cup silent

(* Results that are stored go away only with the process, by a cancel that *)
(* read the vertex before, or when the process is run again.               *)
ResultsKept ==
  [][\A p \in exists \cap exists' :
       "results" \in vertex[p] \ vertex'[p] => "canceled" \in vertex'[p] \/ p \in rerun]_vars

(* A cancel is forgotten only by a runner that still works on the process. *)
CancelLostOnlyToRunner ==
  [][\A p \in exists \cap exists' :
       "canceled" \in vertex[p] \ vertex'[p] => \E r \in Runners : job[r] = p]_vars

Queue == INSTANCE AtLeastOnceQueue WITH Messages <- Processes
(* The messages are used as the queue allows.                              *)
UsesQueue == Queue!Spec

(* Every process that reached the queue is finished for good in the end,   *)
(* or deleted, whatever crashes the runners.                               *)
EveryProcessFinishes ==
  \A p \in Handled :
    <>[](place[p] = "unsent" \/ p \notin exists \/ p \in abandoned \/ Finished(vertex[p]))

(* What a browser shows of the processes follows them in the end: neither  *)
(* one that is over nor one that is gone stays there, but for a process    *)
(* that had no id yet.                                                     *)
RowsFollow == TypeOK /\ RowsSettle /\ DeletedIsGone
=============================================================================
