----------------------- MODULE LongRunningProcess_proofs -----------------------
(***************************************************************************)
(* Proofs about LongRunningProcess, for any processes, runners, reports    *)
(* and faults: how its messages use the queue, and what the vertex and a   *)
(* browser say of a process in the end.                                    *)
(***************************************************************************)
EXTENDS LongRunningProcess, TLAPS

-----------------------------------------------------------------------------
(* The inductive invariant.                                                *)

Settled == {"acked", "rejected"}
Busy(r) == at[r] # "idle"

\* A runner has a process exactly while it is not idle, and without a lost connection its message
\* is held, for it alone
JobInv ==
  /\ \A r \in Runners :
       /\ Busy(r) <=> job[r] # NoProcess
       /\ stale[r] => Busy(r)
       /\ Busy(r) => place[job[r]] # "unsent"
       /\ Busy(r) /\ ~stale[r] => place[job[r]] = "held"
  /\ \A r, s \in Runners : Busy(r) /\ ~stale[r] /\ ~stale[s] /\ job[r] = job[s] => r = s
  /\ \A p \in Processes : place[p] # "unsent" <=> enqueuing[p] = "pushed"
  /\ \A r \in Runners : ~Busy(r) => json[r] = {}

\* A cancel is going to write that the process is canceled, and a runner to announce that it ended;
\* one that begins has nothing but the message
WriteInv ==
  /\ \A p \in Processes : canceling[p] # "no" => "canceled" \in cancelJson[p]
  /\ \A r \in Runners : at[r] = "announceEnd" => "endTime" \in item[r]
  /\ \A r \in Runners : at[r] = "begin" => item[r] = {"id"}

\* r is going to write the end of p
WillEnd(r, p) ==
  /\ job[r] = p
  /\ at[r] \in {"begin", "announceBegin", "work", "writeProgress", "announceProgress", "ack", "nak"}

\* The message of p is settled, or is going to be by a runner that got as far as one of the steps
Settles(p, steps) ==
  \/ place[p] \in Settled
  \/ \E r \in Runners : job[r] = p /\ ~stale[r] /\ at[r] \in steps

VertexInv ==
  \A p \in (exists \cap Handled) \ abandoned :
    Settles(p, {"announceEnd", "settle"}) => Finished(vertex[p]) \/ \E r \in Runners : WillEnd(r, p)

RowInv ==
  \A p \in (exists \cap Handled) \ (abandoned \cup removed \cup silent) :
    Settles(p, {"settle"}) =>
      Finished(row[p]) \/ \E r \in Runners : WillEnd(r, p) \/ (job[r] = p /\ at[r] = "announceEnd")

\* As long as p is run once, results are written at its end, and nobody writes it after that but a cancel
ResultInv ==
  \A p \in Processes \ rerun :
    /\ \A r \in Runners : job[r] = p => ~stale[r] /\ "results" \notin json[r]
    /\ "results" \in vertex[p] \cup cancelJson[p] =>
         /\ place[p] \notin {"unsent", "ready"}
         /\ \A r \in Runners : ~WillEnd(r, p)

IInv == TypeOK /\ JobInv /\ WriteInv /\ VertexInv /\ RowInv /\ DeletedIsGone /\ ResultInv

-----------------------------------------------------------------------------
(* The steps.                                                              *)

WebStep(p) == Enqueue(p) \/ EnqueueDies(p) \/ Cancel(p) \/ Delete(p)

LEMMA NextSplit ==
  ASSUME [Next]_vars
  PROVE  \/ \E p \in Processes : WebStep(p)
         \/ \E r \in Runners, p \in Processes : Take(r, p)
         \/ \E r \in Runners : Process(r) \/ LoseConnection(r) \/ Crash(r)
         \/ UNCHANGED vars
BY DEF Next, WebStep

LEMMA InitialInv == Init => IInv
<1> SUFFICES ASSUME Init PROVE IInv
  OBVIOUS
<1> USE ConstantsAssumption
<1>1. TypeOK
  <2>1. /\ vertex \in [Processes -> SUBSET Keys] /\ cancelJson \in [Processes -> SUBSET Keys]
        /\ deleteJson \in [Processes -> SUBSET Keys] /\ row \in [Processes -> SUBSET Keys]
        /\ item \in [Runners -> SUBSET Keys] /\ json \in [Runners -> SUBSET Keys]
        /\ exists \subseteq Processes
    BY DEF Init
  <2>2. {removed, silent, rerun, abandoned} \subseteq SUBSET Processes
    BY DEF Init
  <2>3. reports \in [Runners -> 0 .. MaxReports] /\ faults \in 0 .. MaxFaults
    BY DEF Init
  <2>4. /\ stale \in [Runners -> BOOLEAN] /\ verdict \in [Runners -> {"acked", "rejected"}]
        /\ at \in [Runners -> Steps] /\ job \in [Runners -> Processes \cup {NoProcess}]
    BY DEF Init, Steps
  <2>5. /\ place \in [Processes -> {"unsent", "ready", "held", "acked", "rejected"}]
        /\ enqueuing \in [Processes -> {"no", "saved", "announced", "pushed", "dead"}]
        /\ canceling \in [Processes -> {"no", "read", "written"}]
        /\ deleting \in [Processes -> {"no", "read", "deleted"}]
    BY DEF Init
  <2>6. QED
    BY <2>1, <2>2, <2>3, <2>4, <2>5 DEF TypeOK
<1>2. JobInv /\ WriteInv
  BY DEF Init, JobInv, WriteInv, Busy
<1>3. VertexInv /\ RowInv /\ DeletedIsGone /\ ResultInv
  BY DEF Init, VertexInv, RowInv, DeletedIsGone, ResultInv
<1>4. QED
  BY <1>1, <1>2, <1>3 DEF IInv

-----------------------------------------------------------------------------
(* Types.                                                                  *)

LEMMA WebTypes ==
  ASSUME TypeOK, NEW p \in Processes, WebStep(p)
  PROVE  TypeOK'
<1> USE ConstantsAssumption DEF graphVars, runnerVars, browserVars, historyVars
<1>1. CASE EnqueueSave(p)
  BY <1>1 DEF EnqueueSave, TypeOK
<1>2. CASE EnqueueAnnounce(p)
  BY <1>2 DEF EnqueueAnnounce, Show, TypeOK, Keys
<1>3. CASE EnqueuePush(p)
  BY <1>3 DEF EnqueuePush, TypeOK
<1>4. CASE EnqueueDies(p)
  BY <1>4 DEF EnqueueDies, TypeOK
<1>5. CASE CancelRead(p)
  <2>1. Canceled(p) \in SUBSET Keys
    BY DEF Canceled, TypeOK, Keys
  <2>2. QED
    BY <1>5, <2>1 DEF CancelRead, TypeOK
<1>6. CASE CancelWrite(p)
  BY <1>6 DEF CancelWrite, Store, TypeOK
<1>7. CASE CancelAnnounce(p)
  BY <1>7 DEF CancelAnnounce, Show, TypeOK
<1>8. CASE DeleteRead(p)
  BY <1>8 DEF DeleteRead, TypeOK
<1>9. CASE DeleteVertex(p)
  BY <1>9 DEF DeleteVertex, TypeOK
<1>10. CASE DeleteAnnounce(p)
  BY <1>10 DEF DeleteAnnounce, TypeOK
<1>11. QED
  BY <1>1, <1>2, <1>3, <1>4, <1>5, <1>6, <1>7, <1>8, <1>9, <1>10 DEF WebStep, Enqueue, Cancel, Delete

\* What a runner that is not idle has in hand
LEMMA JobIsProcess ==
  ASSUME TypeOK, JobInv, NEW r \in Runners, Busy(r)
  PROVE  job[r] \in Processes
BY DEF TypeOK, JobInv

LEMMA RunnerTypes ==
  ASSUME TypeOK, JobInv, NEW r \in Runners,
         (\E p \in Processes : Take(r, p)) \/ Process(r) \/ LoseConnection(r) \/ Crash(r)
  PROVE  TypeOK'
<1> USE ConstantsAssumption DEF graphVars, webVars, browserVars, historyVars
<1>1. ASSUME NEW p \in Processes, Take(r, p)
      PROVE  TypeOK'
  BY <1>1 DEF Take, Goto, TypeOK, Keys, Steps
<1>2. ASSUME NEW keys \in SUBSET Keys, NEW step \in Steps, NEW otherwise \in Steps, Record(r, keys, step, otherwise),
             verdict' \in [Runners -> {"acked", "rejected"}]
      PROVE  TypeOK'
  BY <1>2 DEF Record, Store, Goto, TypeOK
<1>3. ASSUME NEW keys \in SUBSET Keys, NEW step \in Steps, Announce(r, keys, step)
      PROVE  TypeOK'
  BY <1>3 DEF Announce, Show, Goto, TypeOK
<1>4. item[r] \in SUBSET Keys /\ json[r] \in SUBSET Keys
  BY DEF TypeOK
<1>5. CASE BeginWork(r)
  <2>1. item[r] \cup {"startTime"} \in SUBSET Keys
    BY <1>4 DEF Keys
  <2>2. QED
    BY <1>2, <1>5, <2>1 DEF BeginWork, Steps, TypeOK
<1>6. CASE AnnounceBegin(r) \/ AnnounceProgress(r) \/ AnnounceEnd(r)
  BY <1>3, <1>4, <1>6 DEF AnnounceBegin, AnnounceProgress, AnnounceEnd, Steps
<1>7. CASE ReadProgress(r)
  <2>1. Busy(r)
    BY <1>7 DEF ReadProgress, Busy
  <2>2. vertex[job[r]] \cup {"id"} \in SUBSET Keys
    BY <2>1, JobIsProcess DEF TypeOK, Keys
  <2>3. reports' \in [Runners -> 0 .. MaxReports]
    BY <1>7 DEF ReadProgress, TypeOK
  <2>4. QED
    BY <1>7, <2>2, <2>3 DEF ReadProgress, Goto, TypeOK, Steps
<1>8. CASE WriteProgress(r)
  BY <1>4, <1>8 DEF WriteProgress, Store, Goto, TypeOK, Steps
<1>9. CASE WorkEnds(r)
  <2>1. item[r] \cup {"results"} \in SUBSET Keys
    BY <1>4 DEF Keys
  <2>2. QED
    BY <1>9, <2>1 DEF WorkEnds, Goto, TypeOK, Steps
<1>10. CASE Ack(r)
  <2>1. item[r] \cup {"endTime"} \in SUBSET Keys
    BY <1>4 DEF Keys
  <2>2. QED
    BY <1>2, <1>10, <2>1 DEF Ack, Steps, TypeOK
<1>11. CASE Nak(r)
  <2>1. Failed(r) \in SUBSET Keys
    BY <1>4 DEF Failed, Keys
  <2>2. verdict' \in [Runners -> {"acked", "rejected"}]
    BY <1>11 DEF Nak, TypeOK
  <2>3. QED
    BY <1>2, <1>11, <2>1, <2>2 DEF Nak, Steps
<1>12. CASE Settle(r)
  <2>1. NewPlace(r) \in {"unsent", "ready", "held", "acked", "rejected"}
    <3>1. job[r] \in Processes
      BY <1>12, JobIsProcess DEF Settle, Busy
    <3>2. QED
      BY <3>1 DEF NewPlace, TypeOK
  <2>2. QED
    <3>1. /\ at' \in [Runners -> Steps] /\ job' \in [Runners -> Processes \cup {NoProcess}]
          /\ item' \in [Runners -> SUBSET Keys] /\ json' \in [Runners -> SUBSET Keys]
          /\ reports' \in [Runners -> 0 .. MaxReports] /\ verdict' \in [Runners -> {"acked", "rejected"}]
          /\ stale' \in [Runners -> BOOLEAN]
      BY <1>12 DEF Settle, Leave, Goto, TypeOK, Steps
    <3>2. place' \in [Processes -> {"unsent", "ready", "held", "acked", "rejected"}]
      BY <1>12, <2>1 DEF Settle, TypeOK
    <3>3. QED
      BY <1>12, <3>1, <3>2 DEF Settle, TypeOK
<1>13. CASE LoseConnection(r)
  <2>1. job[r] \in Processes
    BY <1>13, JobIsProcess DEF LoseConnection, Busy
  <2>2. QED
    BY <1>13, <2>1 DEF LoseConnection, TypeOK
<1>14. CASE Crash(r)
  <2>1. job[r] \in Processes
    BY <1>14, JobIsProcess DEF Crash, Busy
  <2>2. QED
    BY <1>14, <2>1 DEF Crash, Leave, Goto, TypeOK, Steps
<1>15. QED
  BY <1>1, <1>5, <1>6, <1>7, <1>8, <1>9, <1>10, <1>11, <1>12, <1>13, <1>14 DEF Process

LEMMA TypeInvariance ==
  ASSUME IInv, [Next]_vars
  PROVE  TypeOK'
<1> TypeOK /\ JobInv
  BY DEF IInv
<1>1. CASE UNCHANGED vars
  BY <1>1 DEF vars, graphVars, webVars, runnerVars, browserVars, historyVars, TypeOK
<1>2. QED
  BY <1>1, NextSplit, WebTypes, RunnerTypes

-----------------------------------------------------------------------------
(* Who has a process.                                                      *)

\* r goes on with its process, and nobody else's step changes
GoesOn(r) ==
  /\ Busy(r) /\ at' \in [Runners -> Steps] /\ at'[r] # "idle"
  /\ \A s \in Runners : s # r => at'[s] = at[s]
  /\ UNCHANGED <<place, enqueuing, job, stale>>

LEMMA WorkGoesOn ==
  ASSUME TypeOK, NEW r \in Runners, Process(r), ~Settle(r)
  PROVE  GoesOn(r)
<1> USE DEF webVars, Goto, Record, Announce
<1>1. ASSUME NEW step \in Steps \ {"idle"}, Goto(r, step), Busy(r), UNCHANGED <<place, enqueuing, job, stale>>
      PROVE  GoesOn(r)
  BY <1>1 DEF GoesOn, TypeOK
<1>2. CASE BeginWork(r) \/ Ack(r) \/ Nak(r)
  BY <1>1, <1>2 DEF BeginWork, Ack, Nak, Busy, Steps
<1>3. CASE AnnounceBegin(r) \/ AnnounceProgress(r) \/ AnnounceEnd(r)
  BY <1>1, <1>3 DEF AnnounceBegin, AnnounceProgress, AnnounceEnd, Busy, Steps
<1>4. CASE ReadProgress(r) \/ WriteProgress(r) \/ WorkEnds(r)
  BY <1>1, <1>4 DEF ReadProgress, WriteProgress, WorkEnds, Busy, Steps
<1>5. QED
  BY <1>2, <1>3, <1>4 DEF Process

LEMMA WebFrame ==
  ASSUME NEW p \in Processes, WebStep(p)
  PROVE  UNCHANGED <<runnerVars, rerun, abandoned>>
BY DEF WebStep, Enqueue, Cancel, Delete, EnqueueSave, EnqueueAnnounce, EnqueuePush, EnqueueDies, CancelRead,
       CancelWrite, CancelAnnounce, DeleteRead, DeleteVertex, DeleteAnnounce, historyVars

LEMMA JobInvariance ==
  ASSUME IInv, [Next]_vars
  PROVE  JobInv'
<1> USE ConstantsAssumption DEF graphVars, webVars, runnerVars, browserVars, historyVars
<1> TypeOK /\ JobInv
  BY DEF IInv
<1>1. ASSUME UNCHANGED <<place, enqueuing, at, job, json, stale>>
      PROVE  JobInv'
  BY <1>1 DEF JobInv, Busy
<1>2. ASSUME NEW p \in Processes, WebStep(p)
      PROVE  JobInv'
  <2>1. UNCHANGED <<at, job, json, stale>>
    BY <1>2, WebFrame
  <2>2. CASE EnqueuePush(p)
    <3>1. /\ place[p] = "unsent"
          /\ place' = [place EXCEPT ![p] = "ready"]
          /\ enqueuing' = [enqueuing EXCEPT ![p] = "pushed"]
      BY <2>2 DEF EnqueuePush, JobInv
    <3>2. QED
      BY <2>1, <3>1 DEF JobInv, Busy, TypeOK
  <2>3. CASE EnqueueSave(p) \/ EnqueueAnnounce(p) \/ EnqueueDies(p)
    BY <2>1, <2>3 DEF EnqueueSave, EnqueueAnnounce, EnqueueDies, JobInv, Busy, TypeOK
  <2>4. CASE Cancel(p) \/ Delete(p)
    BY <1>1, <2>1, <2>4
       DEF Cancel, Delete, CancelRead, CancelWrite, CancelAnnounce, DeleteRead, DeleteVertex, DeleteAnnounce
  <2>5. QED
    BY <1>2, <2>2, <2>3, <2>4 DEF WebStep, Enqueue
<1>3. ASSUME NEW r \in Runners, NEW p \in Processes, Take(r, p)
      PROVE  JobInv'
  <2>1. /\ at[r] = "idle" /\ place[p] = "ready" /\ ~stale[r]
        /\ place' = [place EXCEPT ![p] = "held"]
        /\ job' = [job EXCEPT ![r] = p]
        /\ at'[r] # "idle" /\ \A s \in Runners : s # r => at'[s] = at[s]
        /\ UNCHANGED <<enqueuing, json, stale>>
    BY <1>3 DEF Take, Goto, TypeOK, JobInv, Busy
  <2>2. \A s \in Runners : Busy(s) /\ ~stale[s] => job[s] # p
    BY <2>1 DEF JobInv
  <2>3. \A s \in Runners : Busy(s) => job[s] \in Processes
    BY JobIsProcess
  <2>4. \A s \in Runners : Busy(s)' <=> Busy(s) \/ s = r
    BY <2>1 DEF Busy
  <2>5. QED
    BY <2>1, <2>2, <2>3, <2>4 DEF JobInv, TypeOK
<1>4. ASSUME NEW r \in Runners, Process(r), ~Settle(r)
      PROVE  JobInv'
  <2>1. GoesOn(r)
    BY <1>4, WorkGoesOn
  <2>2. \A s \in Runners : Busy(s)' <=> Busy(s)
    BY <2>1 DEF GoesOn, Busy
  <2>3. \A s \in Runners : json'[s] = json[s] \/ Busy(s)
    BY <1>4, <2>1 DEF Process, BeginWork, AnnounceBegin, ReadProgress, WriteProgress, AnnounceProgress, WorkEnds, Ack,
                      Nak, AnnounceEnd, Record, Announce, GoesOn, TypeOK
  <2>4. QED
    BY <2>1, <2>2, <2>3 DEF GoesOn, JobInv
<1>5. ASSUME NEW r \in Runners, Settle(r) \/ Crash(r)
      PROVE  JobInv'
  <2> DEFINE p == job[r]
  <2>1. Busy(r) /\ p \in Processes
    BY <1>5, JobIsProcess DEF Settle, Crash, Busy
  <2>2. /\ at'[r] = "idle" /\ job'[r] = NoProcess /\ json'[r] = {} /\ ~stale'[r]
        /\ \A s \in Runners : s # r => at'[s] = at[s] /\ job'[s] = job[s] /\ json'[s] = json[s] /\ stale'[s] = stale[s]
        /\ enqueuing' = enqueuing
    BY <1>5 DEF Settle, Crash, Leave, Goto, TypeOK
  <2>3. \/ stale[r] /\ place' = place
        \/ ~stale[r] /\ \E to \in {"ready", "acked", "rejected"} : place' = [place EXCEPT ![p] = to]
    <3>1. CASE Settle(r)
      <4>1. place' = [place EXCEPT ![p] = NewPlace(r)] /\ verdict[r] \in {"acked", "rejected"}
        BY <3>1 DEF Settle, TypeOK
      <4>2. QED
        BY <2>1, <4>1 DEF NewPlace, TypeOK
    <3>2. CASE Crash(r)
      BY <3>2 DEF Crash
    <3>3. QED
      BY <1>5, <3>1, <3>2
  <2>4. CASE stale[r] /\ place' = place
    BY <2>2, <2>4 DEF JobInv, Busy
  <2>5. ASSUME ~stale[r], NEW to \in {"ready", "acked", "rejected"}, place' = [place EXCEPT ![p] = to]
        PROVE  JobInv'
    <3>1. ASSUME NEW s \in Runners, s # r, Busy(s), ~stale[s]
          PROVE  job[s] # p
      BY <2>1, <2>5, <3>1 DEF JobInv
    <3>2. \A q \in Processes : q # p => place'[q] = place[q]
      BY <2>5 DEF TypeOK
    <3>3. place'[p] = to /\ place[p] = "held"
      BY <2>1, <2>5 DEF TypeOK, JobInv
    <3>4. \A s \in Runners : Busy(s) => job[s] \in Processes
      BY JobIsProcess
    <3>5. \A s \in Runners : Busy(s)' <=> Busy(s) /\ s # r
      BY <2>2 DEF Busy
    <3> HIDE DEF p
    <3>6. QED
      BY <2>1, <2>2, <2>5, <3>1, <3>2, <3>3, <3>4, <3>5 DEF JobInv
  <2>6. QED
    BY <2>3, <2>4, <2>5
<1>6. ASSUME NEW r \in Runners, LoseConnection(r)
      PROVE  JobInv'
  <2> DEFINE p == job[r]
  <2>1. Busy(r) /\ p \in Processes /\ ~stale[r]
    BY <1>6, JobIsProcess DEF LoseConnection, Busy
  <2>2. /\ stale' = [stale EXCEPT ![r] = TRUE]
        /\ place' = [place EXCEPT ![p] = "ready"]
        /\ UNCHANGED <<enqueuing, at, job, json>>
    BY <1>6 DEF LoseConnection
  <2>3. ASSUME NEW s \in Runners, s # r, Busy(s), ~stale[s]
        PROVE  job[s] # p
    BY <2>1, <2>3 DEF JobInv
  <2>4. place[p] = "held"
    BY <2>1 DEF JobInv
  <2>5. \A s \in Runners : Busy(s) => job[s] \in Processes
    BY JobIsProcess
  <2> HIDE DEF p
  <2>6. /\ \A q \in Processes : q # p => place'[q] = place[q]
        /\ place'[p] = "ready"
        /\ \A s \in Runners : (stale'[s] <=> stale[s] \/ s = r) /\ (Busy(s)' <=> Busy(s))
    BY <2>1, <2>2 DEF TypeOK, Busy
  <2>7. QED
    BY <2>1, <2>2, <2>3, <2>4, <2>5, <2>6 DEF JobInv
<1>7. CASE UNCHANGED vars
  BY <1>1, <1>7 DEF vars
<1>8. QED
  BY <1>2, <1>3, <1>4, <1>5, <1>6, <1>7, NextSplit

-----------------------------------------------------------------------------
(* What is going to be written.                                            *)

LEMMA WriteInvariance ==
  ASSUME IInv, [Next]_vars
  PROVE  WriteInv'
<1> USE DEF graphVars, webVars, runnerVars, browserVars, historyVars
<1> TypeOK /\ WriteInv
  BY DEF IInv
<1>1. ASSUME NEW p \in Processes, WebStep(p)
      PROVE  WriteInv'
  <2>1. UNCHANGED <<at, item>>
    BY <1>1, WebFrame
  <2>2. CASE CancelRead(p) \/ CancelWrite(p) \/ CancelAnnounce(p)
    BY <2>1, <2>2 DEF CancelRead, CancelWrite, CancelAnnounce, Canceled, WriteInv, TypeOK
  <2>3. CASE ~Cancel(p)
    BY <1>1, <2>1, <2>3 DEF WebStep, Enqueue, Delete, EnqueueSave, EnqueueAnnounce, EnqueuePush, EnqueueDies, DeleteRead,
                            DeleteVertex, DeleteAnnounce, WriteInv
  <2>4. QED
    BY <2>2, <2>3 DEF Cancel
<1>2. ASSUME UNCHANGED <<canceling, cancelJson>>, NEW r \in Runners,
             \A s \in Runners : s # r => at'[s] = at[s] /\ item'[s] = item[s],
             at'[r] = "announceEnd" => "endTime" \in item'[r],
             at'[r] = "begin" => item'[r] = {"id"}
      PROVE  WriteInv'
  BY <1>2 DEF WriteInv
<1>3. ASSUME NEW r \in Runners, NEW p \in Processes, Take(r, p)
      PROVE  WriteInv'
  BY <1>2, <1>3 DEF Take, Goto, TypeOK
<1>4. ASSUME NEW r \in Runners, Process(r) \/ Crash(r)
      PROVE  WriteInv'
  <2>1. CASE Ack(r)
    BY <1>2, <2>1 DEF Ack, Record, Goto, TypeOK
  <2>2. CASE Nak(r)
    BY <1>2, <2>2 DEF Nak, Failed, Record, Goto, TypeOK
  <2>3. CASE BeginWork(r)
    BY <1>2, <2>3 DEF BeginWork, Record, Goto, TypeOK
  <2>4. CASE AnnounceBegin(r) \/ AnnounceProgress(r) \/ AnnounceEnd(r)
    BY <1>2, <2>4 DEF AnnounceBegin, AnnounceProgress, AnnounceEnd, Announce, Goto, TypeOK
  <2>5. CASE ReadProgress(r) \/ WriteProgress(r) \/ WorkEnds(r)
    BY <1>2, <2>5 DEF ReadProgress, WriteProgress, WorkEnds, Goto, TypeOK
  <2>6. CASE Settle(r) \/ Crash(r)
    BY <1>2, <2>6 DEF Settle, Crash, Leave, Goto, TypeOK
  <2>7. QED
    BY <1>4, <2>1, <2>2, <2>3, <2>4, <2>5, <2>6 DEF Process
<1>5. ASSUME NEW r \in Runners, LoseConnection(r)
      PROVE  WriteInv'
  BY <1>2, <1>5 DEF LoseConnection, WriteInv
<1>6. CASE UNCHANGED vars
  BY <1>6 DEF vars, WriteInv
<1>7. QED
  BY <1>1, <1>3, <1>4, <1>5, <1>6, NextSplit

-----------------------------------------------------------------------------
(* What the step of a runner does to a process.                            *)

RunnerStep(r) == Process(r) \/ LoseConnection(r) \/ Crash(r)

\* A runner leaves the vertices and the web server's calls, but for the JSON it stores.
LEMMA RunnerFrame ==
  ASSUME NEW r \in Runners, RunnerStep(r)
  PROVE  UNCHANGED <<exists, webVars, removed, silent>> /\ at[r] # "idle"
BY DEF RunnerStep, Process, BeginWork, AnnounceBegin, ReadProgress, WriteProgress, AnnounceProgress, WorkEnds, Ack, Nak,
       AnnounceEnd, Settle, LoseConnection, Crash, Record, Announce, Show, graphVars, browserVars, historyVars

\* r leaves p, and those who have it, alone.
Apart(r, p) ==
  /\ vertex'[p] = vertex[p] /\ row'[p] = row[p] /\ place'[p] = place[p]
  /\ p \in rerun' <=> p \in rerun
  /\ p \in abandoned' <=> p \in abandoned
  /\ \A s \in Runners :
       /\ job'[s] = p <=> job[s] = p
       /\ job[s] = p => at'[s] = at[s] /\ stale'[s] = stale[s] /\ json'[s] = json[s]

LEMMA OtherProcess ==
  ASSUME TypeOK, JobInv, NEW r \in Runners, RunnerStep(r), NEW p \in Processes, job[r] # p
  PROVE  Apart(r, p)
<1> USE ConstantsAssumption DEF graphVars, runnerVars, browserVars, historyVars, Goto
<1> job[r] \in Processes /\ Busy(r)
  BY RunnerFrame, JobIsProcess DEF Busy
<1>1. CASE BeginWork(r) \/ Ack(r) \/ Nak(r)
  BY <1>1 DEF BeginWork, Ack, Nak, Record, Store, TypeOK, Apart
<1>2. CASE AnnounceBegin(r) \/ AnnounceProgress(r) \/ AnnounceEnd(r)
  BY <1>2 DEF AnnounceBegin, AnnounceProgress, AnnounceEnd, Announce, Show, TypeOK, Apart
<1>3. CASE ReadProgress(r) \/ WriteProgress(r) \/ WorkEnds(r)
  BY <1>3 DEF ReadProgress, WriteProgress, WorkEnds, Store, TypeOK, Apart
<1>4. CASE Settle(r)
  BY <1>4, ZenonT(30) DEF Settle, Leave, TypeOK, Apart
<1>5. CASE Crash(r)
  <2>1. /\ vertex' = vertex /\ row' = row /\ place'[p] = place[p]
        /\ p \in rerun' <=> p \in rerun
        /\ p \in abandoned' <=> p \in abandoned
    BY <1>5 DEF Crash, TypeOK
  <2>2. /\ job'[r] = NoProcess
        /\ \A s \in Runners : s # r => job'[s] = job[s] /\ at'[s] = at[s] /\ stale'[s] = stale[s] /\ json'[s] = json[s]
    BY <1>5 DEF Crash, Leave, TypeOK
  <2>3. QED
    BY <2>1, <2>2 DEF Apart
<1>6. CASE LoseConnection(r)
  BY <1>6 DEF LoseConnection, TypeOK, Apart
<1>7. QED
  BY <1>1, <1>2, <1>3, <1>4, <1>5, <1>6 DEF RunnerStep, Process

LEMMA TakesAnother ==
  ASSUME TypeOK, JobInv, NEW r \in Runners, NEW q \in Processes, Take(r, q), NEW p \in Processes, p # q
  PROVE  Apart(r, p)
<1>1. job[r] = NoProcess
  BY DEF Take, JobInv, Busy
<1>2. QED
  BY <1>1, ConstantsAssumption DEF Take, TypeOK, Apart, Goto, graphVars, browserVars, historyVars

\* A step of the work leaves the runner before the end, or is the one that writes it.
LEMMA WorkSteps ==
  ASSUME TypeOK, JobInv, NEW r \in Runners, NEW p \in exists, Process(r), job[r] = p
  PROVE  \/ WillEnd(r, p)'
         \/ /\ at'[r] = "announceEnd" /\ "endTime" \in vertex'[p] /\ job' = job
            /\ WillEnd(r, p)
         \/ AnnounceEnd(r)
         \/ Settle(r)
<1> USE DEF Goto
<1>a. p \in Processes /\ at \in [Runners -> Steps] /\ vertex \in [Processes -> SUBSET Keys]
  BY DEF TypeOK
<1>1. ASSUME at'[r] \in {"announceBegin", "work", "writeProgress", "announceProgress", "ack", "nak"}, job' = job
      PROVE  WillEnd(r, p)'
  BY <1>1 DEF WillEnd
<1>2. CASE BeginWork(r)
  BY <1>1, <1>2, <1>a DEF BeginWork, Record
<1>3. CASE AnnounceBegin(r) \/ AnnounceProgress(r)
  BY <1>1, <1>3, <1>a DEF AnnounceBegin, AnnounceProgress, Announce
<1>4. CASE ReadProgress(r) \/ WriteProgress(r) \/ WorkEnds(r)
  BY <1>1, <1>4, <1>a DEF ReadProgress, WriteProgress, WorkEnds
<1>5. CASE Ack(r)
  BY <1>5, <1>a DEF Ack, Record, Store, WillEnd
<1>6. CASE Nak(r)
  BY <1>6, <1>a DEF Nak, Record, Store, Failed, WillEnd
<1>7. QED
  BY <1>2, <1>3, <1>4, <1>5, <1>6 DEF Process

\* A runner that is gone, or has lost its connection, leaves its process to others.
LEMMA LeavesToOthers ==
  ASSUME TypeOK, JobInv, NEW r \in Runners, LoseConnection(r) \/ Crash(r),
         NEW p \in Processes, job[r] = p, p \notin abandoned', NEW steps
  PROVE  ~Settles(p, steps)'
<1>1. Busy(r)
  BY DEF LoseConnection, Crash, Busy
<1>2. ~stale[r] /\ place' = [place EXCEPT ![p] = "ready"]
  <2>1. Crash(r) /\ stale[r] => p \in abandoned'
    BY DEF Crash
  <2>2. QED
    BY <2>1 DEF LoseConnection, Crash
<1>3. place'[p] = "ready"
  BY <1>1, <1>2 DEF TypeOK
<1>4. ASSUME NEW s \in Runners, job'[s] = p
      PROVE  stale'[s]
  <2>1. CASE s = r
    BY <1>1, <1>4, <2>1, ConstantsAssumption DEF LoseConnection, Crash, Leave, TypeOK
  <2>2. CASE s # r
    <3>1. job[s] = p /\ stale'[s] = stale[s]
      BY <1>4, <2>2 DEF LoseConnection, Crash, Leave, TypeOK
    <3>2. Busy(s)
      BY <1>1, <3>1, ConstantsAssumption DEF JobInv
    <3>3. stale[s]
      BY <1>1, <1>2, <2>2, <3>1, <3>2 DEF JobInv
    <3>4. QED
      BY <3>1, <3>3
  <2>3. QED
    BY <2>1, <2>2
<1>5. QED
  BY <1>3, <1>4 DEF Settles, Settled

\* A runner that gets to the end of process settles what was about to be.
LEMMA SettlingSettles ==
  ASSUME TypeOK, JobInv, NEW r \in Runners, Settle(r), NEW p \in Processes, job[r] = p,
         NEW steps, "settle" \in steps, Settles(p, steps)'
  PROVE  /\ Settles(p, steps)
         /\ \A s \in Runners : (s # r => at'[s] = at[s] /\ job'[s] = job[s]) /\ at[r] = "settle"
<1>1. /\ \A s \in Runners : s # r => at'[s] = at[s] /\ job'[s] = job[s] /\ stale'[s] = stale[s]
      /\ at[r] = "settle" /\ job'[r] = NoProcess
  BY DEF Settle, Leave, Goto, TypeOK
<1>2. place'[p] = NewPlace(r)
  BY DEF Settle, TypeOK
<1>3. CASE stale[r]
  <2>1. place'[p] = place[p]
    BY <1>2, <1>3 DEF NewPlace
  <2>2. ASSUME NEW s \in Runners, job'[s] = p, ~stale'[s], at'[s] \in steps
        PROVE  job[s] = p /\ ~stale[s] /\ at[s] \in steps
    BY <1>1, <2>2, ConstantsAssumption
  <2>3. QED
    BY <1>1, <2>1, <2>2 DEF Settles
<1>4. CASE ~stale[r]
  BY <1>1, <1>4 DEF Settles
<1>5. QED
  BY <1>3, <1>4

\* Who has a process has been sent it.
LEMMA SettlesWasSent ==
  ASSUME TypeOK, JobInv, NEW p \in Processes, NEW steps, Settles(p, steps)
  PROVE  place[p] # "unsent"
<1>1. CASE place[p] \in Settled
  BY <1>1 DEF Settled
<1>2. ASSUME NEW r \in Runners, job[r] = p
      PROVE  place[p] # "unsent"
  BY <1>2, ConstantsAssumption DEF JobInv
<1>3. QED
  BY <1>1, <1>2 DEF Settles

\* The web server settles nothing, and does not store what is about to be settled.
LEMMA WebSettles ==
  ASSUME TypeOK, JobInv, NEW q \in Processes, WebStep(q), NEW p \in Processes, NEW steps, Settles(p, steps)'
  PROVE  /\ Settles(p, steps)
         /\ p \in exists' => p \in exists
         /\ enqueuing[p] = "pushed"
<1>1. UNCHANGED <<at, job, stale>>
  BY WebFrame DEF runnerVars
<1>2. Settles(p, steps)
  <2>1. CASE p = q /\ EnqueuePush(q)
    <3>1. place[p] = "unsent" /\ place'[p] = "ready"
      BY <2>1 DEF EnqueuePush, JobInv, TypeOK
    <3>2. \A r \in Runners : job[r] # p
      BY <3>1, ConstantsAssumption DEF JobInv
    <3>3. QED
      BY <1>1, <3>1, <3>2 DEF Settles, Settled
  <2>2. CASE ~(p = q /\ EnqueuePush(q))
    <3>1. place'[p] = place[p]
      BY <2>2 DEF WebStep, Enqueue, Cancel, Delete, EnqueueSave, EnqueueAnnounce, EnqueuePush, EnqueueDies, CancelRead,
                  CancelWrite, CancelAnnounce, DeleteRead, DeleteVertex, DeleteAnnounce, TypeOK
    <3>2. QED
      BY <1>1, <3>1 DEF Settles
  <2>3. QED
    BY <2>1, <2>2
<1>3. enqueuing[p] = "pushed"
  BY <1>2, SettlesWasSent DEF JobInv
<1>4. p \in exists' => p \in exists
  BY <1>3 DEF WebStep, Enqueue, Cancel, Delete, EnqueueSave, EnqueueAnnounce, EnqueuePush, EnqueueDies, CancelRead,
              CancelWrite, CancelAnnounce, DeleteRead, DeleteVertex, DeleteAnnounce, graphVars
<1>5. QED
  BY <1>2, <1>3, <1>4

\* What the web server does to the vertex of a process is to cancel it.
LEMMA WebVertex ==
  ASSUME TypeOK, WriteInv, NEW q \in Processes, WebStep(q), NEW p \in exists \cap exists'
  PROVE  vertex'[p] = vertex[p] \/ "canceled" \in vertex'[p]
<1> USE DEF graphVars, TypeOK
<1>1. CASE CancelWrite(q)
  BY <1>1 DEF CancelWrite, Store, WriteInv
<1>2. CASE DeleteVertex(q)
  BY <1>2 DEF DeleteVertex
<1>3. CASE ~CancelWrite(q) /\ ~DeleteVertex(q)
  BY <1>3 DEF WebStep, Enqueue, Cancel, Delete, EnqueueSave, EnqueueAnnounce, EnqueuePush, EnqueueDies, CancelRead,
              CancelAnnounce, DeleteRead, DeleteAnnounce
<1>4. QED
  BY <1>1, <1>2, <1>3

\* Who leaves p alone changes nothing that the invariants say of it.
LEMMA ApartKeeps ==
  ASSUME NEW r, NEW p, Apart(r, p), NEW steps
  PROVE  /\ Settles(p, steps)' <=> Settles(p, steps)
         /\ \A s \in Runners : WillEnd(s, p)' <=> WillEnd(s, p)
<1>1. Settles(p, steps)' <=> Settles(p, steps)
  BY DEF Apart, Settles
<1>2. ASSUME NEW s \in Runners
      PROVE  WillEnd(s, p)' <=> WillEnd(s, p)
  BY DEF Apart, WillEnd
<1>3. QED
  BY <1>1, <1>2

-----------------------------------------------------------------------------
(* What the vertex says.                                                   *)

LEMMA VertexInvariance ==
  ASSUME IInv, [Next]_vars
  PROVE  VertexInv'
<1> TypeOK /\ JobInv /\ WriteInv /\ VertexInv
  BY DEF IInv
<1> DEFINE E == {"announceEnd", "settle"}
<1> SUFFICES ASSUME NEW p \in Processes, p \in exists', p \in Handled, p \notin abandoned', Settles(p, E)'
             PROVE  Finished(vertex[p])' \/ \E r \in Runners : WillEnd(r, p)'
  BY TypeInvariance DEF VertexInv, TypeOK
<1>1. ASSUME p \in exists, p \notin abandoned, Settles(p, E)
      PROVE  Finished(vertex[p]) \/ \E r \in Runners : WillEnd(r, p)
  BY <1>1 DEF VertexInv
<1> HIDE DEF E
<1>2. ASSUME NEW q \in Processes, WebStep(q)
      PROVE  Finished(vertex[p])' \/ \E r \in Runners : WillEnd(r, p)'
  <2>1. UNCHANGED <<at, job, abandoned>>
    BY <1>2, WebFrame DEF runnerVars
  <2>2. p \in exists /\ Settles(p, E)
    BY <1>2, WebSettles
  <2>3. vertex'[p] = vertex[p] \/ "canceled" \in vertex'[p]
    BY <1>2, <2>2, WebVertex
  <2>4. QED
    BY <1>1, <2>1, <2>2, <2>3 DEF Finished, WillEnd
<1>3. ASSUME NEW r, Apart(r, p), exists' = exists
      PROVE  Finished(vertex[p])' \/ \E s \in Runners : WillEnd(s, p)'
  <2>1. Settles(p, E) /\ p \notin abandoned /\ vertex'[p] = vertex[p]
    BY <1>3, ApartKeeps DEF Apart
  <2>2. CASE Finished(vertex[p])
    BY <2>1, <2>2 DEF Finished
  <2>3. ASSUME NEW s \in Runners, WillEnd(s, p)
        PROVE  WillEnd(s, p)'
    BY <1>3, <2>3, ApartKeeps
  <2>4. QED
    BY <1>1, <1>3, <2>1, <2>2, <2>3
<1>4. ASSUME NEW r \in Runners, NEW q \in Processes, Take(r, q)
      PROVE  Finished(vertex[p])' \/ \E s \in Runners : WillEnd(s, p)'
  <2>1. CASE p # q
    <3>1. exists' = exists
      BY <1>4 DEF Take, graphVars
    <3>2. QED
      BY <1>3, <1>4, <2>1, <3>1, TakesAnother
  <2>2. CASE p = q
    BY <1>4, <2>2 DEF Take, Goto, TypeOK, WillEnd
  <2>3. QED
    BY <2>1, <2>2
<1>5. ASSUME NEW r \in Runners, RunnerStep(r)
      PROVE  Finished(vertex[p])' \/ \E s \in Runners : WillEnd(s, p)'
  <2>1. p \in exists /\ exists' = exists
    BY <1>5, RunnerFrame
  <2>2. CASE job[r] # p
    BY <1>3, <1>5, <2>1, <2>2, OtherProcess
  <2>3. CASE job[r] = p /\ Process(r)
    <3>1. CASE AnnounceEnd(r)
      <4>1. /\ place' = place /\ job' = job /\ stale' = stale /\ vertex' = vertex /\ abandoned' = abandoned
            /\ at[r] = "announceEnd" /\ at'[r] = "settle" /\ \A s \in Runners : s # r => at'[s] = at[s]
        BY <3>1 DEF AnnounceEnd, Announce, Goto, TypeOK, graphVars, historyVars
      <4>2. Settles(p, E)
        BY <4>1 DEF Settles, E
      <4>3. Finished(vertex[p]) \/ \E s \in Runners : WillEnd(s, p)
        BY <1>1, <2>1, <4>1, <4>2
      <4>4. ASSUME NEW s \in Runners, WillEnd(s, p)
            PROVE  WillEnd(s, p)'
        BY <4>1, <4>4 DEF WillEnd
      <4>5. QED
        BY <4>1, <4>3, <4>4
    <3>2. CASE Settle(r)
      <4>1. /\ Settles(p, E) /\ at[r] = "settle"
            /\ \A s \in Runners : s # r => at'[s] = at[s] /\ job'[s] = job[s]
        BY <2>3, <3>2, SettlingSettles DEF E
      <4>2. vertex' = vertex /\ abandoned' = abandoned
        BY <3>2 DEF Settle, graphVars, historyVars
      <4>3. Finished(vertex[p]) \/ \E s \in Runners : WillEnd(s, p)
        BY <1>1, <2>1, <4>1, <4>2
      <4>4. ASSUME NEW s \in Runners, WillEnd(s, p)
            PROVE  WillEnd(s, p)'
        BY <4>1, <4>4 DEF WillEnd
      <4>5. QED
        BY <4>2, <4>3, <4>4
    <3>3. QED
      BY <2>1, <2>3, <3>1, <3>2, WorkSteps DEF Finished
  <2>4. CASE job[r] = p /\ (LoseConnection(r) \/ Crash(r))
    BY <2>4, LeavesToOthers
  <2>5. QED
    BY <1>5, <2>2, <2>3, <2>4 DEF RunnerStep
<1>6. CASE UNCHANGED vars
  BY <1>1, <1>6 DEF vars, graphVars, runnerVars, historyVars, Settles, WillEnd, Finished
<1>7. QED
  BY <1>2, <1>4, <1>5, <1>6, NextSplit DEF RunnerStep

-----------------------------------------------------------------------------
(* What a browser shows.                                                   *)

\* What the web server tells of a process in the queue is that it is canceled, or deleted.
LEMMA WebRow ==
  ASSUME TypeOK, WriteInv, NEW q \in Processes, WebStep(q), NEW p \in Processes, enqueuing[p] = "pushed",
         p \notin removed' \cup silent'
  PROVE  /\ p \notin removed \cup silent
         /\ row'[p] = row[p] \/ "canceled" \in row'[p]
<1> USE DEF TypeOK, browserVars, historyVars
<1>1. CASE CancelAnnounce(q)
  BY <1>1 DEF CancelAnnounce, Show, WriteInv
<1>2. CASE EnqueueAnnounce(q)
  BY <1>2 DEF EnqueueAnnounce, Show
<1>3. CASE DeleteAnnounce(q)
  BY <1>3 DEF DeleteAnnounce
<1>4. CASE ~CancelAnnounce(q) /\ ~EnqueueAnnounce(q) /\ ~DeleteAnnounce(q)
  BY <1>4 DEF WebStep, Enqueue, Cancel, Delete, EnqueueSave, EnqueuePush, EnqueueDies, CancelRead, CancelWrite, DeleteRead,
              DeleteVertex
<1>5. QED
  BY <1>1, <1>2, <1>3, <1>4

LEMMA RowInvariance ==
  ASSUME IInv, [Next]_vars
  PROVE  RowInv'
<1> TypeOK /\ JobInv /\ WriteInv /\ RowInv
  BY DEF IInv
<1> DEFINE E == {"settle"}
           Ending(s, p) == WillEnd(s, p) \/ (job[s] = p /\ at[s] = "announceEnd")
<1> SUFFICES ASSUME NEW p \in Processes, p \in exists', p \in Handled, p \notin abandoned', p \notin removed' \cup silent',
                    Settles(p, E)'
             PROVE  Finished(row[p])' \/ \E r \in Runners : Ending(r, p)'
  BY TypeInvariance DEF RowInv, TypeOK
<1>1. ASSUME p \in exists, p \notin abandoned, p \notin removed \cup silent, Settles(p, E)
      PROVE  Finished(row[p]) \/ \E r \in Runners : Ending(r, p)
  BY <1>1 DEF RowInv
<1> HIDE DEF E
<1>2. ASSUME NEW q \in Processes, WebStep(q)
      PROVE  Finished(row[p])' \/ \E r \in Runners : Ending(r, p)'
  <2>1. UNCHANGED <<at, job, abandoned>>
    BY <1>2, WebFrame DEF runnerVars
  <2>2. p \in exists /\ Settles(p, E) /\ enqueuing[p] = "pushed"
    BY <1>2, WebSettles
  <2>3. p \notin removed \cup silent /\ (row'[p] = row[p] \/ "canceled" \in row'[p])
    BY <1>2, <2>2, WebRow
  <2>4. QED
    BY <1>1, <2>1, <2>2, <2>3 DEF Finished, WillEnd
<1>3. ASSUME NEW r, Apart(r, p), UNCHANGED <<exists, removed, silent>>
      PROVE  Finished(row[p])' \/ \E s \in Runners : Ending(s, p)'
  <2>1. Settles(p, E) /\ p \notin abandoned /\ row'[p] = row[p]
    BY <1>3, ApartKeeps DEF Apart
  <2>2. CASE Finished(row[p])
    BY <2>1, <2>2 DEF Finished
  <2>3. ASSUME NEW s \in Runners, Ending(s, p)
        PROVE  Ending(s, p)'
    BY <1>3, <2>3, ApartKeeps DEF Apart
  <2>4. QED
    BY <1>1, <1>3, <2>1, <2>2, <2>3
<1>4. ASSUME NEW r \in Runners, NEW q \in Processes, Take(r, q)
      PROVE  Finished(row[p])' \/ \E s \in Runners : Ending(s, p)'
  <2>1. CASE p # q
    <3>1. UNCHANGED <<exists, removed, silent>>
      BY <1>4 DEF Take, graphVars, browserVars, historyVars
    <3>2. QED
      BY <1>3, <1>4, <2>1, <3>1, TakesAnother
  <2>2. CASE p = q
    BY <1>4, <2>2 DEF Take, Goto, TypeOK, WillEnd
  <2>3. QED
    BY <2>1, <2>2
<1>5. ASSUME NEW r \in Runners, RunnerStep(r)
      PROVE  Finished(row[p])' \/ \E s \in Runners : Ending(s, p)'
  <2>1. p \in exists /\ UNCHANGED <<exists, removed, silent>>
    BY <1>5, RunnerFrame
  <2>2. CASE job[r] # p
    BY <1>3, <1>5, <2>1, <2>2, OtherProcess
  <2>3. CASE job[r] = p /\ Process(r)
    <3>1. CASE AnnounceEnd(r)
      <4>1. row'[p] = item[r] /\ "endTime" \in item[r]
        BY <2>1, <2>3, <3>1 DEF AnnounceEnd, Announce, Show, TypeOK, WriteInv
      <4>2. QED
        BY <4>1 DEF Finished
    <3>2. CASE Settle(r)
      <4>1. /\ Settles(p, E) /\ at[r] = "settle"
            /\ \A s \in Runners : s # r => at'[s] = at[s] /\ job'[s] = job[s]
        BY <2>3, <3>2, SettlingSettles DEF E
      <4>2. row' = row /\ abandoned' = abandoned
        BY <3>2 DEF Settle, browserVars, historyVars
      <4>3. Finished(row[p]) \/ \E s \in Runners : Ending(s, p)
        BY <1>1, <2>1, <4>1, <4>2
      <4>4. ASSUME NEW s \in Runners, Ending(s, p)
            PROVE  Ending(s, p)'
        BY <4>1, <4>4 DEF WillEnd
      <4>5. QED
        BY <4>2, <4>3, <4>4
    <3>3. QED
      BY <2>1, <2>3, <3>1, <3>2, WorkSteps
  <2>4. CASE job[r] = p /\ (LoseConnection(r) \/ Crash(r))
    BY <2>4, LeavesToOthers
  <2>5. QED
    BY <1>5, <2>2, <2>3, <2>4 DEF RunnerStep
<1>6. CASE UNCHANGED vars
  BY <1>1, <1>6 DEF vars, graphVars, runnerVars, browserVars, historyVars, Settles, WillEnd, Finished
<1>7. QED
  BY <1>2, <1>4, <1>5, <1>6, NextSplit DEF RunnerStep

LEMMA DeletedInvariance ==
  ASSUME IInv, [Next]_vars
  PROVE  DeletedIsGone'
<1> USE DEF graphVars, webVars, browserVars, historyVars
<1> TypeOK /\ DeletedIsGone
  BY DEF IInv
<1>1. ASSUME UNCHANGED <<exists, enqueuing, deleting, removed, silent>>
      PROVE  DeletedIsGone'
  BY <1>1 DEF DeletedIsGone
<1>2. ASSUME NEW q \in Processes, WebStep(q)
      PROVE  DeletedIsGone'
  <2>1. CASE DeleteAnnounce(q)
    BY <2>1 DEF DeleteAnnounce, DeletedIsGone, TypeOK
  <2>2. CASE DeleteRead(q) \/ DeleteVertex(q)
    BY <2>2 DEF DeleteRead, DeleteVertex, DeletedIsGone, TypeOK
  <2>3. CASE EnqueueSave(q) \/ EnqueueAnnounce(q) \/ EnqueuePush(q) \/ EnqueueDies(q)
    BY <2>3 DEF EnqueueSave, EnqueueAnnounce, EnqueuePush, EnqueueDies, Show, DeletedIsGone, TypeOK
  <2>4. CASE Cancel(q)
    BY <1>1, <2>4 DEF Cancel, CancelRead, CancelWrite, CancelAnnounce, Show
  <2>5. QED
    BY <1>2, <2>1, <2>2, <2>3, <2>4 DEF WebStep, Enqueue, Delete
<1>3. ASSUME NEW r \in Runners, NEW q \in Processes, Take(r, q)
      PROVE  DeletedIsGone'
  BY <1>1, <1>3 DEF Take
<1>4. ASSUME NEW r \in Runners, RunnerStep(r)
      PROVE  DeletedIsGone'
  BY <1>1, <1>4, RunnerFrame
<1>5. CASE UNCHANGED vars
  BY <1>1, <1>5 DEF vars
<1>6. QED
  BY <1>2, <1>3, <1>4, <1>5, NextSplit DEF RunnerStep

-----------------------------------------------------------------------------
(* What happens to the results.                                            *)

LEMMA ResultInvariance ==
  ASSUME IInv, [Next]_vars
  PROVE  ResultInv'
<1> USE DEF graphVars, webVars, runnerVars, browserVars, historyVars
<1> TypeOK /\ JobInv /\ WriteInv /\ ResultInv
  BY DEF IInv
<1> DEFINE Fresh(p) == \A r \in Runners : job[r] = p => ~stale[r] /\ "results" \notin json[r]
           Last(p) == place[p] \notin {"unsent", "ready"} /\ \A r \in Runners : ~WillEnd(r, p)
           Stored(p) == "results" \in vertex[p] \cup cancelJson[p]
<1> SUFFICES ASSUME NEW p \in Processes, p \notin rerun'
             PROVE  Fresh(p)' /\ (Stored(p)' => Last(p)')
  BY DEF ResultInv
<1>1. ASSUME p \notin rerun
      PROVE  Fresh(p) /\ (Stored(p) => Last(p))
  BY <1>1 DEF ResultInv
<1>2. ASSUME NEW q \in Processes, WebStep(q)
      PROVE  Fresh(p)' /\ (Stored(p)' => Last(p)')
  <2>1. UNCHANGED <<at, job, json, stale, rerun>>
    BY <1>2, WebFrame
  <2>2. Stored(p)' => Stored(p)
    <3>1. CASE CancelRead(q)
      BY <3>1 DEF CancelRead, Canceled, TypeOK
    <3>2. CASE CancelWrite(q) \/ CancelAnnounce(q)
      BY <3>2 DEF CancelWrite, CancelAnnounce, Store, TypeOK
    <3>3. CASE DeleteVertex(q)
      BY <3>3 DEF DeleteVertex, TypeOK
    <3>4. CASE Enqueue(q) \/ EnqueueDies(q) \/ DeleteRead(q) \/ DeleteAnnounce(q)
      BY <3>4 DEF Enqueue, EnqueueSave, EnqueueAnnounce, EnqueuePush, EnqueueDies, DeleteRead, DeleteAnnounce
    <3>5. QED
      BY <1>2, <3>1, <3>2, <3>3, <3>4 DEF WebStep, Cancel, Delete
  <2>3. place[p] \notin {"unsent", "ready"} => place'[p] = place[p]
    <3>1. CASE EnqueuePush(q)
      BY <3>1 DEF EnqueuePush, JobInv, TypeOK
    <3>2. CASE ~EnqueuePush(q)
      BY <1>2, <3>2 DEF WebStep, Enqueue, Cancel, Delete, EnqueueSave, EnqueueAnnounce, EnqueueDies, CancelRead, CancelWrite,
                        CancelAnnounce, DeleteRead, DeleteVertex, DeleteAnnounce
    <3>3. QED
      BY <3>1, <3>2
  <2>4. QED
    BY <1>1, <2>1, <2>2, <2>3 DEF WillEnd
<1>3. ASSUME NEW r, Apart(r, p), cancelJson' = cancelJson
      PROVE  Fresh(p)' /\ (Stored(p)' => Last(p)')
  <2>1. \A s \in Runners : WillEnd(s, p)' <=> WillEnd(s, p)
    BY <1>3, ApartKeeps
  <2>2. QED
    BY <1>1, <1>3, <2>1 DEF Apart
<1>4. ASSUME NEW r \in Runners, NEW q \in Processes, Take(r, q)
      PROVE  Fresh(p)' /\ (Stored(p)' => Last(p)')
  <2>1. CASE p # q
    BY <1>3, <1>4, <2>1, TakesAnother DEF Take
  <2>2. CASE p = q
    <3>1. ~Stored(p) /\ ~Stored(p)' /\ Fresh(p)
      BY <1>1, <1>4, <2>2 DEF Take
    <3>2. ~stale[r] /\ json[r] = {}
      BY <1>4 DEF Take, JobInv, Busy
    <3>3. QED
      BY <1>4, <3>1, <3>2 DEF Take, TypeOK
  <2>3. QED
    BY <2>1, <2>2
<1>5. ASSUME NEW r \in Runners, RunnerStep(r)
      PROVE  Fresh(p)' /\ (Stored(p)' => Last(p)')
  <2>1. cancelJson' = cancelJson
    BY <1>5, RunnerFrame
  <2>2. CASE job[r] # p
    BY <1>3, <1>5, <2>1, <2>2, OtherProcess
  <2>3. CASE job[r] = p
    <3>1. Busy(r)
      BY <1>5, RunnerFrame DEF Busy
    <3>2. p \notin rerun
      BY <1>5 DEF RunnerStep, Process, BeginWork, AnnounceBegin, ReadProgress, WriteProgress, AnnounceProgress, WorkEnds, Ack,
                  Nak, AnnounceEnd, Settle, LoseConnection, Crash, Record, Announce
    <3>3. Fresh(p) /\ (Stored(p) => Last(p)) /\ ~stale[r] /\ "results" \notin json[r]
      BY <1>1, <2>3, <3>2
    <3>4. \A s \in Runners : job[s] = p => s = r
      BY <2>3, <3>1, <3>3 DEF JobInv
    <3>5. place[p] = "held"
      BY <2>3, <3>1, <3>3 DEF JobInv
    <3>6. CASE LoseConnection(r) \/ Crash(r)
      BY <2>3, <3>3, <3>6 DEF LoseConnection, Crash
    <3>7. CASE Settle(r)
      <4>1. /\ job'[r] = NoProcess /\ \A s \in Runners : s # r => job'[s] = job[s]
            /\ place' = [place EXCEPT ![p] = verdict[r]] /\ verdict[r] \in {"acked", "rejected"}
        BY <2>3, <3>3, <3>7 DEF Settle, Leave, NewPlace, TypeOK
      <4>2. \A s \in Runners : job'[s] # p
        BY <3>4, <4>1, ConstantsAssumption
      <4>3. QED
        BY <4>1, <4>2 DEF WillEnd, TypeOK
    <3>8. CASE Process(r) /\ ~Settle(r)
      <4>1. GoesOn(r)
        BY <3>8, WorkGoesOn
      <4>2. place'[p] = "held" /\ stale' = stale /\ job' = job
        BY <3>5, <4>1 DEF GoesOn
      <4>3. \A s \in Runners : s # r => ~WillEnd(s, p)'
        BY <3>4, <4>2 DEF WillEnd
      <4>4. ASSUME json' = json
            PROVE  Fresh(p)'
        BY <3>3, <4>2, <4>4
      <4>5. ASSUME WillEnd(r, p), vertex' = vertex
            PROVE  Stored(p)' => Last(p)'
        BY <2>1, <3>3, <4>5
      <4>6. ASSUME at'[r] \in {"announceEnd", "settle"}
            PROVE  Last(p)'
        BY <4>2, <4>3, <4>6 DEF WillEnd
      <4>7. CASE BeginWork(r)
        <5>1. WillEnd(r, p)
          BY <2>3, <4>7 DEF BeginWork, WillEnd
        <5>2. ~Stored(p)'
          BY <2>1, <2>3, <3>3, <4>7, <5>1 DEF BeginWork, Record, Store, WriteInv, TypeOK
        <5>3. QED
          BY <4>4, <4>7, <5>2 DEF BeginWork, Record
      <4>8. CASE AnnounceBegin(r) \/ AnnounceProgress(r) \/ WorkEnds(r)
        BY <2>3, <4>4, <4>5, <4>8 DEF AnnounceBegin, AnnounceProgress, WorkEnds, Announce, WillEnd
      <4>9. CASE ReadProgress(r)
        <5>1. WillEnd(r, p) /\ vertex' = vertex
          BY <2>3, <4>9 DEF ReadProgress, WillEnd
        <5>2. "results" \notin json'[r]
          BY <2>3, <3>3, <4>9, <5>1 DEF ReadProgress, TypeOK
        <5>3. QED
          BY <3>4, <4>2, <3>3, <4>5, <5>1, <5>2
      <4>10. CASE WriteProgress(r)
        <5>1. WillEnd(r, p)
          BY <2>3, <4>10 DEF WriteProgress, WillEnd
        <5>2. ~Stored(p)'
          BY <2>1, <2>3, <3>3, <4>10, <5>1 DEF WriteProgress, Store, TypeOK
        <5>3. QED
          BY <4>4, <4>10, <5>2 DEF WriteProgress
      <4>11. CASE Ack(r) \/ Nak(r)
        <5>1. json' = json /\ WillEnd(r, p)
          BY <2>3, <4>11 DEF Ack, Nak, Record, WillEnd
        <5>2. CASE p \in exists
          BY <2>3, <4>4, <4>6, <4>11, <5>1, <5>2 DEF Ack, Nak, Record, Goto, TypeOK
        <5>3. CASE p \notin exists
          <6>1. vertex'[p] = vertex[p]
            BY <2>3, <4>11, <5>3 DEF Ack, Nak, Record, Store, TypeOK
          <6>2. QED
            BY <2>1, <3>3, <4>4, <5>1, <6>1
        <5>4. QED
          BY <5>2, <5>3
      <4>12. CASE AnnounceEnd(r)
        BY <4>4, <4>6, <4>12 DEF AnnounceEnd, Announce, Goto, TypeOK
      <4>13. QED
        BY <3>8, <4>7, <4>8, <4>9, <4>10, <4>11, <4>12 DEF Process
    <3>9. QED
      BY <1>5, <3>6, <3>7, <3>8 DEF RunnerStep
  <2>4. QED
    BY <2>2, <2>3
<1>6. CASE UNCHANGED vars
  BY <1>1, <1>6 DEF vars, WillEnd
<1>7. QED
  BY <1>2, <1>4, <1>5, <1>6, NextSplit DEF RunnerStep

-----------------------------------------------------------------------------
(* What the vertex and the browser say when it is over.                    *)

LEMMA Invariance == Spec => []IInv
<1>1. IInv /\ [Next]_vars => IInv'
  BY TypeInvariance, JobInvariance, WriteInvariance, VertexInvariance, RowInvariance, DeletedInvariance, ResultInvariance
     DEF IInv
<1>2. QED
  BY <1>1, InitialInv, PTL DEF Spec

\* Who writes the end of a process has it.
LEMMA OverIsSettled ==
  ASSUME NEW p, Over(p), NEW steps
  PROVE  Settles(p, steps) /\ \A r \in Runners : ~WillEnd(r, p)
BY DEF Over, Settles, Settled, WillEnd

(* A process whose message is settled and which nobody has any more looks  *)
(* finished to whoever reads its vertex, whatever was read before it was   *)
(* written, and by whom: cancels, reports of progress, and runners that    *)
(* have lost their connection.                                             *)
THEOREM VertexIsFinished == Spec => []NothingLooksRunning
<1>1. IInv => NothingLooksRunning
  <2> SUFFICES ASSUME IInv, NEW p \in exists, Over(p)
               PROVE  Finished(vertex[p])
    BY DEF NothingLooksRunning
  <2>1. p \in (exists \cap Handled) \ abandoned
    BY DEF Over
  <2>2. QED
    BY <2>1, OverIsSettled DEF IInv, VertexInv
<1>2. QED
  BY <1>1, Invariance, PTL

(* And a browser that follows the broadcasts is not left with one that     *)
(* looks running, or with one that was deleted and whose JSON had an id.   *)
THEOREM BrowserFollows == Spec => []RowsFollow
<1>1. IInv => RowsSettle
  <2> SUFFICES ASSUME IInv, NEW p \in Processes, Over(p), deleting[p] = "no", p \notin removed \cup silent
               PROVE  Finished(row[p])
    BY DEF RowsSettle
  <2>1. enqueuing[p] = "pushed"
    BY DEF Over, IInv, JobInv
  <2>2. p \in exists
    BY <2>1 DEF IInv, DeletedIsGone
  <2>3. p \in (exists \cap Handled) \ (abandoned \cup removed \cup silent)
    BY <2>2 DEF Over
  <2>4. \A r \in Runners : job[r] # p
    BY DEF Over
  <2>5. QED
    BY <2>3, <2>4, OverIsSettled DEF IInv, RowInv
<1>2. IInv => RowsFollow
  BY <1>1 DEF IInv, RowsFollow
<1>3. QED
  BY <1>2, Invariance, PTL

-----------------------------------------------------------------------------
(* What is written over.                                                   *)

(* Of a process that has been run once, stored results go away only with a *)
(* cancel that read the vertex before they were stored.                    *)
THEOREM ResultsStay == Spec => ResultsKept
<1>1. ASSUME IInv, [Next]_vars, NEW p \in exists \cap exists', "results" \in vertex[p] \ vertex'[p],
             "canceled" \notin vertex'[p], p \notin rerun
      PROVE  FALSE
  <2> TypeOK /\ JobInv /\ WriteInv /\ p \in Processes
    BY <1>1 DEF IInv, TypeOK
  <2>1. \A r \in Runners : ~WillEnd(r, p)
    BY <1>1 DEF IInv, ResultInv
  <2>2. ASSUME NEW q \in Processes, WebStep(q)
        PROVE  FALSE
    BY <1>1, <2>2, WebVertex
  <2>3. ASSUME NEW r \in Runners, RunnerStep(r)
        PROVE  FALSE
    <3>1. job[r] = p
      BY <1>1, <2>3, OtherProcess DEF Apart
    <3>2. ~BeginWork(r) /\ ~WriteProgress(r) /\ ~Ack(r) /\ ~Nak(r)
      BY <2>1, <3>1 DEF BeginWork, WriteProgress, Ack, Nak, WillEnd
    <3>3. vertex' = vertex
      BY <2>3, <3>2 DEF RunnerStep, Process, AnnounceBegin, ReadProgress, AnnounceProgress, WorkEnds, AnnounceEnd, Settle,
                        LoseConnection, Crash, Announce, graphVars
    <3>4. QED
      BY <1>1, <3>3
  <2>4. QED
    BY <1>1, <2>2, <2>3, NextSplit DEF RunnerStep, Take, vars, graphVars
<1>2. IInv /\ [Next]_vars => [\A p \in exists \cap exists' :
        "results" \in vertex[p] \ vertex'[p] => "canceled" \in vertex'[p] \/ p \in rerun]_vars
  BY <1>1
<1>3. QED
  BY <1>2, Invariance, PTL DEF Spec, ResultsKept

(* A cancel that is stored is forgotten only while a runner has the        *)
(* process, which may go on with it as if it had not been canceled.        *)
THEOREM CancelStays == Spec => CancelLostOnlyToRunner
<1>1. ASSUME IInv, [Next]_vars, NEW p \in exists \cap exists', "canceled" \in vertex[p] \ vertex'[p],
             \A r \in Runners : job[r] # p
      PROVE  FALSE
  <2> TypeOK /\ JobInv /\ WriteInv /\ p \in Processes
    BY <1>1 DEF IInv, TypeOK
  <2>1. ASSUME NEW q \in Processes, WebStep(q)
        PROVE  FALSE
    BY <1>1, <2>1, WebVertex
  <2>2. ASSUME NEW r \in Runners, RunnerStep(r)
        PROVE  FALSE
    BY <1>1, <2>2, OtherProcess DEF Apart
  <2>3. QED
    BY <1>1, <2>1, <2>2, NextSplit DEF RunnerStep, Take, vars, graphVars
<1>2. IInv /\ [Next]_vars => [\A p \in exists \cap exists' :
        "canceled" \in vertex[p] \ vertex'[p] => \E r \in Runners : job[r] = p]_vars
  BY <1>1
<1>3. QED
  BY <1>2, Invariance, PTL DEF Spec, CancelLostOnlyToRunner

-----------------------------------------------------------------------------
(* How the queue is used.                                                  *)

\* The message of one process moves.
LEMMA OneMoves ==
  ASSUME TypeOK, NEW p \in Processes, NEW from, NEW to, place[p] = from, place' = [place EXCEPT ![p] = to]
  PROVE  Queue!Move({p}, from, to)
BY DEF Queue!Move, TypeOK

LEMMA QueueStep == IInv /\ [Next]_vars => [Queue!Next]_place
<1> SUFFICES ASSUME TypeOK, JobInv, [Next]_vars
             PROVE  [Queue!Next]_place
  BY DEF IInv
<1>1. ASSUME NEW p \in Processes, WebStep(p)
      PROVE  [Queue!Next]_place
  <2>1. CASE EnqueuePush(p)
    <3>1. Queue!Move({p}, "unsent", "ready")
      BY <2>1, OneMoves DEF EnqueuePush, JobInv
    <3>2. QED
      BY <3>1 DEF Queue!Push, Queue!Next
  <2>2. CASE ~EnqueuePush(p)
    BY <1>1, <2>2 DEF WebStep, Enqueue, Cancel, Delete, EnqueueSave, EnqueueAnnounce, EnqueueDies, CancelRead, CancelWrite,
                      CancelAnnounce, DeleteRead, DeleteVertex, DeleteAnnounce
  <2>3. QED
    BY <2>1, <2>2
<1>2. ASSUME NEW r \in Runners, NEW p \in Processes, Take(r, p)
      PROVE  [Queue!Next]_place
  <2>1. Queue!Move({p}, "ready", "held")
    BY <1>2, OneMoves DEF Take
  <2>2. QED
    BY <2>1 DEF Queue!Deliver, Queue!Next
<1>3. ASSUME NEW r \in Runners, RunnerStep(r)
      PROVE  [Queue!Next]_place
  <2> DEFINE p == job[r]
  <2>1. Busy(r) /\ p \in Processes
    BY <1>3, RunnerFrame, JobIsProcess DEF Busy
  <2>2. ~stale[r] => place[p] = "held"
    BY <2>1 DEF JobInv
  <2>3. CASE Process(r) /\ ~Settle(r)
    BY <2>3, WorkGoesOn DEF GoesOn
  <2>4. CASE Settle(r) /\ stale[r]
    <3>1. place' = [place EXCEPT ![p] = place[p]]
      BY <2>4 DEF Settle, NewPlace
    <3>2. QED
      BY <2>1, <3>1 DEF TypeOK
  <2>5. CASE Settle(r) /\ ~stale[r]
    <3>1. place' = [place EXCEPT ![p] = verdict[r]] /\ verdict[r] \in {"acked", "rejected"}
      BY <2>5 DEF Settle, NewPlace, TypeOK
    <3>2. Queue!Move({p}, "held", "acked") \/ Queue!Move({p}, "held", "rejected")
      BY <2>1, <2>2, <2>5, <3>1, OneMoves
    <3>3. QED
      BY <2>1, <3>2 DEF Queue!Ack, Queue!Reject, Queue!Next
  <2>6. CASE Crash(r) /\ stale[r]
    BY <2>6 DEF Crash
  <2>7. CASE ~stale[r] /\ (Crash(r) \/ LoseConnection(r))
    <3>1. place' = [place EXCEPT ![p] = "ready"]
      BY <2>7 DEF Crash, LoseConnection
    <3>2. Queue!Move({p}, "held", "ready")
      BY <2>1, <2>2, <2>7, <3>1, OneMoves
    <3>3. QED
      BY <2>1, <3>2 DEF Queue!Return, Queue!Next
  <2>8. QED
    BY <1>3, <2>3, <2>4, <2>5, <2>6, <2>7 DEF RunnerStep, LoseConnection
<1>4. CASE UNCHANGED vars
  BY <1>4 DEF vars
<1>5. QED
  BY <1>1, <1>2, <1>3, <1>4, NextSplit DEF RunnerStep

(* Processes are passed on as a queue allows that hands a message to one   *)
(* consumer at a time: pushed once, taken, and then settled by who took it *)
(* or given back - and a runner that has lost its connection changes       *)
(* nothing there, though it goes on.                                       *)
THEOREM QueueIsUsed == Spec => UsesQueue
<1>1. Init => Queue!Init
  BY DEF Init, Queue!Init
<1>2. QED
  BY <1>1, QueueStep, Invariance, PTL DEF Spec, UsesQueue, Queue!Spec
=============================================================================
