---------------------- MODULE GraphPropertyRunner_proofs ----------------------
(***************************************************************************)
(* Proofs about GraphPropertyRunner, for any number of wrappers, messages, *)
(* properties and faults: the work and the results of a turn stay within   *)
(* it, and what the acknowledgement of a message says of its workers.      *)
(***************************************************************************)
EXTENDS GraphPropertyRunner, WellFoundedInduction, TLAPS

-----------------------------------------------------------------------------
(* The inductive invariant.                                                *)

InTurn == pc \in {"enqueue", "tee", "collect"}

\* What the runner thread still has to do, by where it is
PhaseInv ==
  /\ pc # "idle" => msg \in Messages
  /\ toSend \subseteq toCollect
  /\ pc = "enqueue" <=> toSend # {}
  /\ pc \in {"idle", "lookup", "next"} => toCollect = {}
  /\ pc \in {"tee", "collect"} => toCollect # {}
  /\ pc = "fail" => toCollect \subseteq late
  /\ pc = "tee" => prop \in Streaming
  /\ InTurn => toCollect \subseteq Interested[prop] /\ turnOf[prop] = turn

\* No work is a later turn's
LabelInv ==
  \A w \in Workers :
    /\ \A i \in 1 .. Len(workItems[w]) : workItems[w][i] <= turn
    /\ thread[w] \in BusyStates \cup {"reported"} => current[w] \in 0 .. turn

Quiet(w) == workItems[w] = <<>> /\ workResults[w] = <<>> /\ thread[w] \notin BusyStates

\* w holds the work of this turn or its result, and nothing else
HoldsOne(w) ==
  \/ workItems[w] = <<turn>> /\ workResults[w] = <<>> /\ thread[w] \notin BusyStates
  \/ workItems[w] = <<>> /\ workResults[w] = <<>> /\ thread[w] \in BusyStates /\ current[w] = turn
  \/ workItems[w] = <<>> /\ workResults[w] = <<turn>> /\ thread[w] \notin BusyStates /\ <<turn, w>> \in done

\* A wrapper no turn gave up on holds something exactly from its enqueueWork to its dequeueResult
OneEntryInv ==
  \A w \in Workers \ late : IF w \in toCollect \ toSend THEN HoldsOne(w) ELSE Quiet(w)

HasResult(w) == \E i \in 1 .. Len(workResults[w]) : workResults[w][i] = turn

\* A tee that its worker leaves to the wrapper is closed after the result was added
StreamInv ==
  InTurn =>
    /\ \A w \in toCollect : thread[w] = "reported" /\ current[w] = turn => HasResult(w)
    /\ prop \in Streaming =>
         /\ \A w \in toCollect \ ClosesEarly : <<turn, w>> \in open \/ HasResult(w)
         /\ pc = "collect" => TeesAreClosed

\* A property that is not in todo any more has been executed by the workers it interests, those
\* excepted whose result is awaited or was given up
DoneInv ==
  \A p \in found \ todo : \A w \in Interested[p] \ late :
    <<turnOf[p], w>> \in done \/ (InTurn /\ p = prop /\ w \in toCollect)

IInv == TypeOK /\ PhaseInv /\ LabelInv /\ OneEntryInv /\ StreamInv /\ DoneInv

-----------------------------------------------------------------------------
(* Lemmas about the order of the wrappers.                                 *)

\* A set of numbers has a least one, which First returns.
LEMMA LeastOfNat ==
  ASSUME NEW S, S \subseteq Nat, S # {}
  PROVE  First(S) \in S /\ \A v \in S : First(S) <= v
<1> DEFINE R == OpToRel(<, Nat)
<1>1. IsWellFoundedOn(R, Nat)
  BY NatLessThanWellFounded
<1>2. \A x, y \in Nat : <<x, y>> \in R <=> x < y
  BY DEF OpToRel
<1> HIDE DEF R
<1>3. PICK m \in S : \A v \in S : ~(<<v, m>> \in R)
  BY <1>1, WFMin
<1>4. \A v \in S : ~(v < m)
  BY <1>2, <1>3
<1>5. \A v \in S : m <= v
  BY <1>4
<1>6. QED
  BY <1>3, <1>5 DEF First

\* While there is work to send, or a result to collect, the runner's next wrapper is one of those
LEMMA NextWrapper ==
  ASSUME TypeOK, PhaseInv
  PROVE  /\ pc = "enqueue" => First(toSend) \in toSend /\ First(toSend) \in Workers
         /\ pc = "collect" => First(toCollect) \in toCollect /\ First(toCollect) \in Workers
<1>1. toSend \subseteq Nat /\ toCollect \subseteq Nat
  BY ConstantsAssumption DEF TypeOK, Workers
<1>2. QED
  BY <1>1, LeastOfNat DEF TypeOK, PhaseInv

-----------------------------------------------------------------------------
(* The initial state.                                                      *)

LEMMA InitialInv == Init => IInv
<1> SUFFICES ASSUME Init PROVE IInv
  OBVIOUS
<1>1. TypeOK
  BY ConstantsAssumption DEF Init, TypeOK, Statuses, RunnerStates, ThreadStates, BusyStates
<1>2. PhaseInv /\ LabelInv /\ OneEntryInv /\ StreamInv /\ DoneInv
  BY <1>1, ConstantsAssumption
     DEF Init, TypeOK, PhaseInv, LabelInv, OneEntryInv, Quiet, StreamInv, DoneInv, InTurn, BusyStates
<1>3. QED
  BY <1>1, <1>2 DEF IInv

-----------------------------------------------------------------------------
(* Types.                                                                  *)

LEMMA TypeInvariance ==
  ASSUME IInv, [Next]_vars
  PROVE  TypeOK'
<1> USE ConstantsAssumption DEF queueVars, turnVars, loopVars, runnerVars, wrapperVars
<1> TypeOK /\ PhaseInv /\ LabelInv
  BY DEF IInv
<1>1. ASSUME NEW m \in Messages, Receive(m)
      PROVE  TypeOK'
  BY <1>1 DEF Receive, TypeOK, Statuses, RunnerStates
<1>2. CASE LookUp
  BY <1>2 DEF LookUp, TypeOK, RunnerStates, PhaseInv
<1>3. ASSUME NEW p \in Properties, SkipProperty(p)
      PROVE  TypeOK'
  BY <1>3 DEF SkipProperty, TypeOK
<1>4. ASSUME NEW p \in Properties, BeginTurn(p)
      PROVE  TypeOK'
  BY <1>4, SMTT(30) DEF BeginTurn, TypeOK, RunnerStates
<1>5. CASE EnqueueWork
  <2> DEFINE w == First(toSend)
  <2>1. w \in Workers /\ turn \in Nat
    BY <1>5, NextWrapper DEF EnqueueWork, TypeOK
  <2>2. workItems' = [workItems EXCEPT ![w] = Append(@, turn)]
    BY <1>5 DEF EnqueueWork
  <2> HIDE DEF w
  <2>3. workItems' \in [Workers -> Seq(Nat)]
    BY <2>1, <2>2 DEF TypeOK
  <2>4. QED
    BY <1>5, <2>3 DEF EnqueueWork, TypeOK, RunnerStates
<1>6. CASE TeeLoopEnds
  BY <1>6 DEF TeeLoopEnds, TypeOK, RunnerStates
<1>7. CASE DequeueResult
  <2> DEFINE w == First(toCollect)
  <2>1. w \in Workers /\ workResults[w] # <<>>
    BY <1>7, NextWrapper DEF DequeueResult
  <2>2. workResults' = [workResults EXCEPT ![w] = Tail(@)]
    BY <1>7 DEF DequeueResult
  <2> HIDE DEF w
  <2>3. workResults' \in [Workers -> Seq(Nat)]
    BY <2>1, <2>2 DEF TypeOK
  <2>4. QED
    BY <1>7, <2>3 DEF DequeueResult, AfterResult, TypeOK, RunnerStates
<1>8. CASE Ack \/ Fail
  <2>1. PICK outcome \in {"acked", "failed"} : Settle(outcome)
    BY <1>8 DEF Ack, Fail
  <2>2. status' \in [Messages -> Statuses] /\ turnOf' \in [Properties -> Nat]
    BY <2>1 DEF Settle, LeaveMessage, TypeOK, Statuses
  <2>3. QED
    BY <2>1, <2>2 DEF Settle, LeaveMessage, TypeOK, RunnerStates
<1>9. CASE RunnerFailure
  BY <1>9 DEF RunnerFailure, OpenFails, TeeLoopFails, DequeueTimesOut, Fault, GiveUp, TypeOK, RunnerStates
<1>10. ASSUME NEW w \in Workers, RunBegins(w) \/ RunEnds(w) \/ BlockOnRead(w) \/ ReadReturns(w) \/ CloseEarly(w)
       PROVE  TypeOK'
  BY <1>10, ZenonT(30) DEF RunBegins, RunEnds, BlockOnRead, ReadReturns, CloseEarly, TypeOK, ThreadStates, BusyStates
<1>11. ASSUME NEW w \in Workers, TakeWork(w)
       PROVE  TypeOK'
  BY <1>11 DEF TakeWork, TypeOK, ThreadStates, BusyStates
<1>12. ASSUME NEW w \in Workers, AddResult(w)
       PROVE  TypeOK'
  <2>1. current[w] \in Nat
    BY <1>12 DEF AddResult, TypeOK, LabelInv, BusyStates
  <2>2. QED
    BY <1>12, <2>1 DEF AddResult, WithResult, TypeOK, ThreadStates, BusyStates
<1>13. ASSUME NEW w \in Workers, CloseStream(w)
       PROVE  TypeOK'
  BY <1>13 DEF CloseStream, TypeOK, ThreadStates, BusyStates
<1>14. CASE Environment
  <2>1. CASE Crash
    <3>1. status' \in [Messages -> Statuses] /\ faults' \in Nat
      BY <2>1 DEF Crash, Fault, TypeOK, Statuses
    <3>2. workItems' \in [Workers -> Seq(Nat)] /\ workResults' \in [Workers -> Seq(Nat)]
      BY <2>1 DEF Crash
    <3>3. QED
      BY <2>1, <3>1, <3>2 DEF Crash, LeaveMessage, TypeOK, RunnerStates, ThreadStates
  <2>2. CASE Shutdown
    BY <2>2 DEF Shutdown, Fault, TypeOK
  <2>3. ASSUME NEW m \in Messages, DeleteElement(m)
        PROVE  TypeOK'
    BY <2>3 DEF DeleteElement, TypeOK
  <2>4. ASSUME NEW p \in Properties, DeleteProperty(p)
        PROVE  TypeOK'
    BY <2>4 DEF DeleteProperty, TypeOK
  <2>5. QED
    BY <1>14, <2>1, <2>2, <2>3, <2>4 DEF Environment
<1>15. CASE UNCHANGED vars
  BY <1>15 DEF vars, TypeOK
<1>16. QED
  BY <1>1, <1>2, <1>3, <1>4, <1>5, <1>6, <1>7, <1>8, <1>9, <1>10, <1>11, <1>12, <1>13, <1>14, <1>15
     DEF Next, Runner, Wrapper, Execution

-----------------------------------------------------------------------------
(* What the wrapper threads and the environment leave to the runner.       *)

LEMMA WrapperFrame ==
  ASSUME NEW w \in Workers, Wrapper(w)
  PROVE  UNCHANGED <<queueVars, runnerVars, late>>
BY DEF Wrapper, Execution, RunBegins, TakeWork, RunEnds, BlockOnRead, ReadReturns, CloseEarly, AddResult, CloseStream

LEMMA EnvironmentFrame ==
  ASSUME Environment, ~Crash
  PROVE  UNCHANGED <<runnerVars, thread, workItems, current, workResults, open, done, late>>
BY DEF Environment, Shutdown, DeleteElement, DeleteProperty, wrapperVars

\* A crash, and the end of a message, leave no turn.
LEMMA NoTurnAfter ==
  ASSUME LeaveMessage
  PROVE  PhaseInv' /\ StreamInv' /\ DoneInv'
BY DEF LeaveMessage, PhaseInv, StreamInv, DoneInv, InTurn

-----------------------------------------------------------------------------
(* Where the runner is.                                                    *)

LEMMA PhaseInvariance ==
  ASSUME IInv, [Next]_vars
  PROVE  PhaseInv'
<1> USE ConstantsAssumption DEF queueVars, turnVars, loopVars, runnerVars, wrapperVars
<1> TypeOK /\ PhaseInv
  BY DEF IInv
<1>1. ASSUME NEW m \in Messages, Receive(m)
      PROVE  PhaseInv'
  BY <1>1 DEF Receive, PhaseInv, InTurn
<1>2. CASE LookUp
  BY <1>2 DEF LookUp, PhaseInv, InTurn
<1>3. ASSUME NEW p \in Properties, SkipProperty(p)
      PROVE  PhaseInv'
  BY <1>3 DEF SkipProperty, PhaseInv, InTurn
<1>4. ASSUME NEW p \in Properties, BeginTurn(p)
      PROVE  PhaseInv'
  BY <1>4 DEF BeginTurn, TypeOK, PhaseInv, InTurn
<1>5. CASE EnqueueWork
  <2>1. First(toSend) \in toSend
    BY <1>5, NextWrapper DEF EnqueueWork
  <2>2. QED
    BY <1>5, <2>1 DEF EnqueueWork, PhaseInv, InTurn
<1>6. CASE TeeLoopEnds
  BY <1>6 DEF TeeLoopEnds, PhaseInv, InTurn
<1>7. CASE DequeueResult
  BY <1>7 DEF DequeueResult, AfterResult, PhaseInv, InTurn
<1>8. CASE Ack \/ Fail
  BY <1>8, NoTurnAfter DEF Ack, Fail, Settle
<1>9. CASE RunnerFailure
  BY <1>9 DEF RunnerFailure, OpenFails, TeeLoopFails, DequeueTimesOut, GiveUp, PhaseInv, InTurn
<1>10. ASSUME NEW w \in Workers, Wrapper(w)
       PROVE  PhaseInv'
  BY <1>10, WrapperFrame DEF PhaseInv, InTurn
<1>11. CASE Environment
  <2>1. CASE Crash
    BY <2>1, NoTurnAfter DEF Crash
  <2>2. CASE ~Crash
    BY <1>11, <2>2, EnvironmentFrame DEF PhaseInv, InTurn
  <2>3. QED
    BY <2>1, <2>2
<1>12. CASE UNCHANGED vars
  BY <1>12 DEF vars, PhaseInv, InTurn
<1>13. QED
  BY <1>1, <1>2, <1>3, <1>4, <1>5, <1>6, <1>7, <1>8, <1>9, <1>10, <1>11, <1>12 DEF Next, Runner

-----------------------------------------------------------------------------
(* Labels.                                                                 *)

LEMMA LabelInvariance ==
  ASSUME IInv, [Next]_vars
  PROVE  LabelInv'
<1> USE ConstantsAssumption DEF queueVars, turnVars, loopVars, runnerVars, wrapperVars
<1> TypeOK /\ PhaseInv /\ LabelInv
  BY DEF IInv
<1>1. ASSUME UNCHANGED <<turn, thread, workItems, current>>
      PROVE  LabelInv'
  BY <1>1 DEF LabelInv
<1>2. CASE Runner
  <2>1. ASSUME NEW p \in Properties, BeginTurn(p)
        PROVE  LabelInv'
    BY <2>1, SMTT(30) DEF BeginTurn, TypeOK, LabelInv
  <2>2. CASE EnqueueWork
    <3> DEFINE w == First(toSend)
    <3>1. w \in Workers /\ turn \in Nat
      BY <2>2, NextWrapper DEF EnqueueWork, TypeOK
    <3>2. workItems' = [workItems EXCEPT ![w] = Append(@, turn)] /\ UNCHANGED <<turn, thread, current>>
      BY <2>2 DEF EnqueueWork
    <3> HIDE DEF w
    <3>3. ASSUME NEW v \in Workers
          PROVE  \A i \in 1 .. Len(workItems'[v]) : workItems'[v][i] <= turn
      BY <3>1, <3>2 DEF TypeOK, LabelInv
    <3>4. QED
      BY <3>2, <3>3 DEF LabelInv
  <2>3. QED
    BY <1>1, <1>2, <2>1, <2>2
       DEF Runner, Receive, LookUp, SkipProperty, TeeLoopEnds, DequeueResult, Ack, Fail, Settle
<1>3. CASE RunnerFailure
  BY <1>1, <1>3 DEF RunnerFailure, OpenFails, TeeLoopFails, DequeueTimesOut
<1>4. ASSUME NEW w \in Workers, Wrapper(w)
      PROVE  LabelInv'
  <2>1. CASE TakeWork(w)
    <3>1. /\ workItems[w] \in Seq(Nat) /\ workItems[w] # <<>> /\ turn \in Nat
          /\ workItems' = [workItems EXCEPT ![w] = Tail(@)]
          /\ thread' = [thread EXCEPT ![w] = "executing"]
          /\ current' = [current EXCEPT ![w] = Head(workItems[w])]
          /\ turn' = turn
      BY <2>1 DEF TakeWork, TypeOK
    <3>2. Head(workItems[w]) \in 0 .. turn
      BY <3>1 DEF LabelInv
    <3>3. \A i \in 1 .. Len(Tail(workItems[w])) : Tail(workItems[w])[i] <= turn
      BY <3>1 DEF LabelInv
    <3>4. QED
      BY <3>1, <3>2, <3>3 DEF LabelInv, TypeOK
  <2>2. CASE CloseStream(w)
    BY <2>2 DEF CloseStream, LabelInv, TypeOK, BusyStates
  <2>3. CASE RunBegins(w) \/ RunEnds(w) \/ BlockOnRead(w) \/ ReadReturns(w) \/ AddResult(w)
    BY <2>3, SMTT(30) DEF RunBegins, RunEnds, BlockOnRead, ReadReturns, AddResult, LabelInv, TypeOK, BusyStates
  <2>4. CASE CloseEarly(w)
    BY <1>1, <2>4 DEF CloseEarly
  <2>5. QED
    BY <1>4, <2>1, <2>2, <2>3, <2>4 DEF Wrapper, Execution
<1>5. CASE Environment
  <2>1. CASE Crash
    <3>1. \A w \in Workers : workItems'[w] = <<>> /\ thread'[w] = "new"
      BY <2>1 DEF Crash
    <3>2. QED
      BY <3>1 DEF LabelInv, BusyStates
  <2>2. CASE ~Crash
    BY <1>1, <1>5, <2>2, EnvironmentFrame
  <2>3. QED
    BY <2>1, <2>2
<1>6. CASE UNCHANGED vars
  BY <1>1, <1>6 DEF vars
<1>7. QED
  BY <1>2, <1>3, <1>4, <1>5, <1>6 DEF Next

-----------------------------------------------------------------------------
(* Work and results.                                                       *)

LEMMA OneEntryInvariance ==
  ASSUME IInv, [Next]_vars
  PROVE  OneEntryInv'
<1> USE ConstantsAssumption DEF queueVars, turnVars, loopVars, runnerVars, wrapperVars
<1> TypeOK /\ PhaseInv /\ LabelInv /\ OneEntryInv
  BY DEF IInv
<1>1. ASSUME UNCHANGED <<toSend, toCollect, turn, thread, workItems, current, workResults, done>>,
             late \subseteq late'
      PROVE  OneEntryInv'
  BY <1>1 DEF OneEntryInv, HoldsOne, Quiet
<1>2. CASE Runner
  <2>1. ASSUME NEW p \in Properties, BeginTurn(p)
        PROVE  OneEntryInv'
    BY <2>1 DEF BeginTurn, PhaseInv, OneEntryInv, Quiet
  <2>2. CASE EnqueueWork
    <3> DEFINE w == First(toSend)
    <3>1. w \in toSend /\ w \in Workers /\ turn \in Nat /\ w \in toCollect
      BY <2>2, NextWrapper DEF EnqueueWork, TypeOK, PhaseInv
    <3>2. /\ workItems' = [workItems EXCEPT ![w] = Append(@, turn)]
          /\ toSend' = toSend \ {w}
          /\ UNCHANGED <<toCollect, turn, thread, current, workResults, done, late>>
      BY <2>2 DEF EnqueueWork
    <3> HIDE DEF w
    <3> SUFFICES ASSUME NEW v \in Workers \ late
                 PROVE  (IF v \in toCollect \ toSend THEN HoldsOne(v) ELSE Quiet(v))'
      BY <3>2 DEF OneEntryInv
    <3>3. CASE v = w
      <4>1. Quiet(w) /\ w \in toCollect' \ toSend'
        BY <3>1, <3>2, <3>3 DEF OneEntryInv
      <4>2. Append(<<>>, turn) = <<turn>>
        BY <3>1
      <4>3. QED
        BY <3>1, <3>2, <3>3, <4>1, <4>2 DEF TypeOK, Quiet, HoldsOne
    <3>4. CASE v # w
      BY <3>1, <3>2, <3>4 DEF TypeOK, OneEntryInv, Quiet, HoldsOne
    <3>5. QED
      BY <3>3, <3>4
  <2>3. CASE DequeueResult
    <3> DEFINE w == First(toCollect)
    <3>1. w \in toCollect /\ w \in Workers /\ toSend = {} /\ workResults[w] # <<>> /\ turn \in Nat
      BY <2>3, NextWrapper DEF DequeueResult, TypeOK, PhaseInv
    <3>2. /\ workResults' = [workResults EXCEPT ![w] = Tail(@)]
          /\ toCollect' = toCollect \ {w}
          /\ UNCHANGED <<toSend, turn, thread, workItems, current, done, late>>
      BY <2>3 DEF DequeueResult
    <3> HIDE DEF w
    <3> SUFFICES ASSUME NEW v \in Workers \ late
                 PROVE  (IF v \in toCollect \ toSend THEN HoldsOne(v) ELSE Quiet(v))'
      BY <3>2 DEF OneEntryInv
    <3>3. CASE v = w
      <4>1. workResults[w] = <<turn>> /\ workItems[w] = <<>> /\ thread[w] \notin BusyStates
        BY <3>1, <3>3 DEF OneEntryInv, HoldsOne
      <4>2. Tail(<<turn>>) = <<>>
        BY <3>1
      <4>3. workResults'[w] = <<>> /\ w \notin toCollect'
        BY <3>1, <3>2, <4>1, <4>2 DEF TypeOK
      <4>4. QED
        BY <3>2, <3>3, <4>1, <4>3 DEF Quiet
    <3>4. CASE v # w
      BY <3>1, <3>2, <3>4 DEF TypeOK, OneEntryInv, Quiet, HoldsOne
    <3>5. QED
      BY <3>3, <3>4
  <2>4. CASE Ack \/ Fail
    <3>1. \A w \in Workers \ late : w \notin toCollect
      BY <2>4 DEF Ack, Fail, PhaseInv
    <3>2. \A w \in Workers \ late : Quiet(w)
      BY <3>1 DEF OneEntryInv
    <3>3. toCollect' = {} /\ UNCHANGED <<thread, workItems, workResults, late>>
      BY <2>4 DEF Ack, Fail, Settle, LeaveMessage
    <3>4. QED
      BY <3>2, <3>3 DEF OneEntryInv, Quiet
  <2>5. QED
    BY <1>1, <1>2, <2>1, <2>2, <2>3, <2>4 DEF Runner, Receive, LookUp, SkipProperty, TeeLoopEnds
<1>3. CASE RunnerFailure
  BY <1>1, <1>3 DEF RunnerFailure, OpenFails, TeeLoopFails, DequeueTimesOut, GiveUp
<1>4. ASSUME NEW w \in Workers, Wrapper(w)
      PROVE  OneEntryInv'
  <2> SUFFICES ASSUME NEW v \in Workers \ late
               PROVE  (IF v \in toCollect \ toSend THEN HoldsOne(v) ELSE Quiet(v))'
    BY <1>4, WrapperFrame DEF OneEntryInv
  <2>1. UNCHANGED <<toSend, toCollect, turn, late>> /\ turn \in Nat
    BY <1>4, WrapperFrame DEF TypeOK
  <2>2. IF v \in toCollect \ toSend THEN HoldsOne(v) ELSE Quiet(v)
    BY DEF OneEntryInv
  <2>3. CASE TakeWork(w)
    <3>1. /\ workItems[w] # <<>> /\ thread[w] = "waiting"
          /\ workItems' = [workItems EXCEPT ![w] = Tail(@)]
          /\ thread' = [thread EXCEPT ![w] = "executing"]
          /\ current' = [current EXCEPT ![w] = Head(workItems[w])]
          /\ UNCHANGED <<workResults, done>>
      BY <2>3 DEF TakeWork
    <3>2. Tail(<<turn>>) = <<>> /\ Head(<<turn>>) = turn
      BY <2>1
    <3>3. CASE v = w
      BY <2>1, <2>2, <3>1, <3>2, <3>3 DEF TypeOK, Quiet, HoldsOne, BusyStates
    <3>4. CASE v # w
      BY <2>1, <2>2, <3>1, <3>4 DEF TypeOK, Quiet, HoldsOne
    <3>5. QED
      BY <3>3, <3>4
  <2>4. CASE AddResult(w)
    <3>1. /\ thread[w] \in BusyStates
          /\ workResults' = [workResults EXCEPT ![w] = Append(workResults[w], current[w])]
          /\ thread' = [thread EXCEPT ![w] = "reported"]
          /\ done' = done \cup {<<current[w], w>>}
          /\ UNCHANGED <<workItems, current>>
      BY <2>4 DEF AddResult, WithResult, BusyStates
    <3>2. Append(<<>>, turn) = <<turn>>
      BY <2>1
    <3>3. CASE v = w
      BY <2>1, <2>2, <3>1, <3>2, <3>3 DEF TypeOK, Quiet, HoldsOne, BusyStates
    <3>4. CASE v # w
      BY <2>1, <2>2, <3>1, <3>4 DEF TypeOK, Quiet, HoldsOne
    <3>5. QED
      BY <3>3, <3>4
  <2>5. CASE CloseStream(w)
    BY <2>1, <2>2, <2>5 DEF CloseStream, TypeOK, Quiet, HoldsOne, BusyStates
  <2>6. CASE RunBegins(w) \/ RunEnds(w) \/ BlockOnRead(w) \/ ReadReturns(w) \/ CloseEarly(w)
    BY <2>1, <2>2, <2>6
       DEF RunBegins, RunEnds, BlockOnRead, ReadReturns, CloseEarly, TypeOK, Quiet, HoldsOne, BusyStates
  <2>7. QED
    BY <1>4, <2>3, <2>4, <2>5, <2>6 DEF Wrapper, Execution
<1>5. CASE Environment
  <2>1. CASE Crash
    <3>1. \A w \in Workers : workItems'[w] = <<>> /\ workResults'[w] = <<>> /\ thread'[w] = "new"
      BY <2>1 DEF Crash
    <3>2. toCollect' = {}
      BY <2>1 DEF Crash, LeaveMessage
    <3>3. QED
      BY <3>1, <3>2 DEF OneEntryInv, Quiet, BusyStates
  <2>2. CASE ~Crash
    BY <1>1, <1>5, <2>2, EnvironmentFrame
  <2>3. QED
    BY <2>1, <2>2
<1>6. CASE UNCHANGED vars
  BY <1>1, <1>6 DEF vars
<1>7. QED
  BY <1>2, <1>3, <1>4, <1>5, <1>6 DEF Next

-----------------------------------------------------------------------------
(* Streams.                                                                *)

LEMMA StreamInvariance ==
  ASSUME IInv, [Next]_vars
  PROVE  StreamInv'
<1> USE ConstantsAssumption DEF queueVars, turnVars, loopVars, runnerVars, wrapperVars
<1> TypeOK /\ PhaseInv /\ LabelInv /\ StreamInv
  BY DEF IInv
<1>1. ASSUME UNCHANGED <<turnVars, thread, current, workResults, open>>, InTurn' => InTurn,
             pc' = "collect" => pc = "collect" \/ TeesAreClosed \/ prop \notin Streaming
      PROVE  StreamInv'
  BY <1>1 DEF StreamInv, HasResult, TeesAreClosed
<1>2. CASE Runner
  <2>1. ASSUME NEW p \in Properties, BeginTurn(p)
        PROVE  StreamInv'
    <3>1. /\ turn' = turn + 1 /\ prop' = p /\ toCollect' = Interested[p] /\ pc' = "enqueue"
          /\ p \in Streaming => {turn + 1} \X Interested[p] \subseteq open'
          /\ UNCHANGED <<thread, current>>
      BY <2>1 DEF BeginTurn
    <3>2. ASSUME NEW w \in Workers, thread[w] = "reported"
          PROVE  current[w] # turn + 1
      BY <3>2 DEF LabelInv, TypeOK
    <3>3. ASSUME NEW w \in Interested[p], p \in Streaming
          PROVE  <<turn + 1, w>> \in open'
      BY <3>1, <3>3
    <3>4. Interested[p] \subseteq Workers
      OBVIOUS
    <3>5. QED
      BY <3>1, <3>2, <3>3, <3>4 DEF StreamInv
  <2>2. CASE EnqueueWork
    <3>1. InTurn /\ UNCHANGED <<toCollect, prop, turn, thread, current, workResults, open>>
      BY <2>2 DEF EnqueueWork, InTurn
    <3>2. pc' = "collect" => prop \notin Streaming
      BY <2>2 DEF EnqueueWork
    <3>3. QED
      BY <3>1, <3>2 DEF StreamInv, HasResult
  <2>3. CASE DequeueResult
    <3> DEFINE w == First(toCollect)
    <3>1. /\ workResults' = [workResults EXCEPT ![w] = Tail(@)]
          /\ toCollect' = toCollect \ {w}
          /\ pc = "collect" /\ InTurn
          /\ UNCHANGED <<prop, turn, thread, current, open>>
      BY <2>3 DEF DequeueResult, InTurn
    <3> HIDE DEF w
    <3>2. ASSUME NEW v \in toCollect'
          PROVE  workResults'[v] = workResults[v] /\ v \in toCollect
      BY <3>1, <3>2 DEF TypeOK
    <3>3. QED
      BY <3>1, <3>2 DEF StreamInv, HasResult, TeesAreClosed
  <2>4. CASE Ack \/ Fail
    BY <2>4, NoTurnAfter DEF Ack, Fail, Settle
  <2>5. QED
    BY <1>1, <1>2, <2>1, <2>2, <2>3, <2>4 DEF Runner, Receive, LookUp, SkipProperty, TeeLoopEnds, InTurn
<1>3. CASE RunnerFailure
  BY <1>1, <1>3 DEF RunnerFailure, OpenFails, TeeLoopFails, DequeueTimesOut, GiveUp, InTurn
<1>4. ASSUME NEW w \in Workers, Wrapper(w)
      PROVE  StreamInv'
  <2>1. UNCHANGED <<pc, toCollect, prop, turn>> /\ turn \in Nat
    BY <1>4, WrapperFrame DEF TypeOK
  <2>2. CASE RunBegins(w) \/ TakeWork(w) \/ RunEnds(w) \/ BlockOnRead(w) \/ ReadReturns(w)
    <3>1. UNCHANGED <<workResults, open>>
      BY <2>2 DEF RunBegins, TakeWork, RunEnds, BlockOnRead, ReadReturns
    <3>2. ASSUME NEW v \in Workers, thread'[v] = "reported"
          PROVE  thread[v] = "reported" /\ current'[v] = current[v]
      BY <2>2, <3>2 DEF RunBegins, TakeWork, RunEnds, BlockOnRead, ReadReturns, TypeOK
    <3>3. toCollect \subseteq Workers
      BY DEF TypeOK
    <3>4. QED
      BY <2>1, <3>1, <3>2, <3>3 DEF StreamInv, InTurn, HasResult, TeesAreClosed
  <2>3. CASE CloseEarly(w)
    <3>1. w \in ClosesEarly /\ open' = open \ {<<current[w], w>>} /\ UNCHANGED <<thread, current, workResults>>
      BY <2>3 DEF CloseEarly
    <3>2. QED
      BY <2>1, <3>1 DEF StreamInv, InTurn, HasResult, TeesAreClosed
  <2>4. CASE AddResult(w)
    <3>1. /\ thread[w] \in BusyStates
          /\ workResults' = [workResults EXCEPT ![w] = Append(workResults[w], current[w])]
          /\ thread' = [thread EXCEPT ![w] = "reported"]
          /\ UNCHANGED <<current, open>>
      BY <2>4 DEF AddResult, WithResult, BusyStates
    <3>2. current[w] \in Nat /\ workResults[w] \in Seq(Nat)
      BY <3>1 DEF LabelInv, TypeOK
    <3>3. /\ workResults'[w] = Append(workResults[w], current[w])
          /\ \A v \in Workers : v # w => workResults'[v] = workResults[v] /\ thread'[v] = thread[v]
      BY <3>1 DEF TypeOK
    <3>4. /\ Len(workResults'[w]) = Len(workResults[w]) + 1
          /\ \A i \in 1 .. Len(workResults[w]) : workResults'[w][i] = workResults[w][i]
          /\ workResults'[w][Len(workResults[w]) + 1] = current[w]
          /\ Len(workResults[w]) \in Nat
      BY <3>2, <3>3
    <3>5. current[w] = turn => HasResult(w)'
      BY <2>1, <3>1, <3>4 DEF HasResult
    <3>6. ASSUME NEW v \in Workers, HasResult(v)
          PROVE  HasResult(v)'
      <4>1. PICK i \in 1 .. Len(workResults[v]) : workResults[v][i] = turn
        BY <3>6 DEF HasResult
      <4>2. CASE v = w
        <5>1. i \in 1 .. Len(workResults'[w]) /\ workResults'[w][i] = turn
          BY <3>4, <4>1, <4>2
        <5>2. QED
          BY <2>1, <4>2, <5>1 DEF HasResult
      <4>3. CASE v # w
        BY <2>1, <3>3, <4>1, <4>3 DEF HasResult
      <4>4. QED
        BY <4>2, <4>3
    <3>7. toCollect \subseteq Workers
      BY DEF TypeOK
    <3>8. QED
      BY <2>1, <3>1, <3>3, <3>5, <3>6, <3>7 DEF StreamInv, InTurn, TeesAreClosed
  <2>5. CASE CloseStream(w)
    <3>1. /\ thread[w] = "reported"
          /\ open' = open \ {<<current[w], w>>}
          /\ current' = [current EXCEPT ![w] = NoWork]
          /\ thread' = [thread EXCEPT ![w] = "waiting"]
          /\ workResults' = workResults
      BY <2>5 DEF CloseStream
    <3>2. QED
      BY <2>1, <3>1 DEF TypeOK, StreamInv, InTurn, HasResult, TeesAreClosed
  <2>6. QED
    BY <1>4, <2>2, <2>3, <2>4, <2>5 DEF Wrapper, Execution
<1>5. CASE Environment
  <2>1. CASE Crash
    BY <2>1, NoTurnAfter DEF Crash
  <2>2. CASE ~Crash
    BY <1>1, <1>5, <2>2, EnvironmentFrame DEF InTurn
  <2>3. QED
    BY <2>1, <2>2
<1>6. CASE UNCHANGED vars
  BY <1>1, <1>6 DEF vars, InTurn
<1>7. QED
  BY <1>2, <1>3, <1>4, <1>5, <1>6 DEF Next

-----------------------------------------------------------------------------
(* What has been executed.                                                 *)

LEMMA DoneInvariance ==
  ASSUME IInv, [Next]_vars
  PROVE  DoneInv'
<1> USE ConstantsAssumption DEF queueVars, turnVars, loopVars, runnerVars, wrapperVars
<1> TypeOK /\ PhaseInv /\ OneEntryInv /\ DoneInv
  BY DEF IInv
<1>1. ASSUME UNCHANGED <<found, todo, turnOf, prop, toCollect, late>>, InTurn => InTurn', done \subseteq done'
      PROVE  DoneInv'
  BY <1>1 DEF DoneInv
<1>2. CASE Runner
  <2>1. CASE LookUp
    BY <2>1 DEF LookUp, DoneInv
  <2>2. ASSUME NEW p \in Properties, SkipProperty(p)
        PROVE  DoneInv'
    BY <2>2 DEF SkipProperty, DoneInv, InTurn
  <2>3. ASSUME NEW p \in Properties, BeginTurn(p)
        PROVE  DoneInv'
    <3>1. ASSUME NEW q \in found \ todo, NEW w \in Interested[q] \ late
          PROVE  <<turnOf'[q], w>> \in done'
      BY <2>3, <3>1 DEF BeginTurn, DoneInv, PhaseInv, TypeOK
    <3>2. toCollect' = Interested[p] /\ prop' = p /\ InTurn'
      BY <2>3 DEF BeginTurn, InTurn
    <3>3. found' \ todo' \subseteq (found \ todo) \cup {p} /\ late' = late
      BY <2>3 DEF BeginTurn
    <3>4. QED
      BY <3>1, <3>2, <3>3 DEF DoneInv
  <2>4. CASE EnqueueWork
    BY <1>1, <2>4 DEF EnqueueWork, InTurn
  <2>5. CASE DequeueResult
    <3> DEFINE w == First(toCollect)
    <3>1. w \in toCollect /\ w \in Workers /\ toSend = {} /\ workResults[w] # <<>> /\ turnOf[prop] = turn
      BY <2>5, NextWrapper DEF DequeueResult, PhaseInv, InTurn
    <3>2. /\ toCollect' = toCollect \ {w} /\ InTurn
          /\ pc' = "collect" \/ toCollect' = {}
          /\ UNCHANGED <<found, todo, turnOf, prop, late, done>>
      BY <2>5 DEF DequeueResult, AfterResult, InTurn
    <3> HIDE DEF w
    <3>3. w \notin late => <<turn, w>> \in done
      BY <3>1 DEF OneEntryInv, HoldsOne
    <3>4. ASSUME NEW p \in found \ todo, NEW v \in Interested[p] \ late
          PROVE  <<turnOf[p], v>> \in done \/ (pc' = "collect" /\ p = prop /\ v \in toCollect')
      BY <3>1, <3>2, <3>3, <3>4 DEF DoneInv
    <3>5. QED
      BY <3>2, <3>4 DEF DoneInv, InTurn
  <2>6. CASE Ack \/ Fail
    BY <2>6, NoTurnAfter DEF Ack, Fail, Settle
  <2>7. QED
    BY <1>1, <1>2, <2>1, <2>2, <2>3, <2>4, <2>5, <2>6 DEF Runner, Receive, TeeLoopEnds, InTurn
<1>3. CASE RunnerFailure
  <2>1. ASSUME NEW p \in Properties, OpenFails(p)
        PROVE  DoneInv'
    BY <1>1, <2>1 DEF OpenFails, InTurn
  <2>2. CASE TeeLoopFails \/ DequeueTimesOut
    BY <2>2 DEF TeeLoopFails, DequeueTimesOut, GiveUp, DoneInv
  <2>3. QED
    BY <1>3, <2>1, <2>2 DEF RunnerFailure
<1>4. ASSUME NEW w \in Workers, Wrapper(w)
      PROVE  DoneInv'
  <2>1. done \subseteq done'
    BY <1>4 DEF Wrapper, Execution, RunBegins, TakeWork, RunEnds, BlockOnRead, ReadReturns, CloseEarly, AddResult,
                CloseStream
  <2>2. QED
    BY <1>1, <1>4, <2>1, WrapperFrame DEF InTurn
<1>5. CASE Environment
  <2>1. CASE Crash
    BY <2>1, NoTurnAfter DEF Crash
  <2>2. CASE ~Crash
    BY <1>1, <1>5, <2>2, EnvironmentFrame DEF InTurn
  <2>3. QED
    BY <2>1, <2>2
<1>6. CASE UNCHANGED vars
  BY <1>1, <1>6 DEF vars, InTurn
<1>7. QED
  BY <1>2, <1>3, <1>4, <1>5, <1>6 DEF Next

-----------------------------------------------------------------------------
LEMMA Invariance == Spec => []IInv
<1>1. IInv /\ [Next]_vars => IInv'
  <2> SUFFICES ASSUME IInv, [Next]_vars PROVE IInv'
    OBVIOUS
  <2>1. TypeOK' /\ PhaseInv' /\ LabelInv' /\ OneEntryInv' /\ StreamInv' /\ DoneInv'
    BY TypeInvariance, PhaseInvariance, LabelInvariance, OneEntryInvariance, StreamInvariance, DoneInvariance
  <2>2. QED
    BY <2>1 DEF IInv
<1>2. QED
  BY <1>1, InitialInv, PTL DEF Spec

(***************************************************************************)
(* Work and results of a turn stay within it, for any number of wrappers,  *)
(* messages and faults: between turns the wrappers that no turn gave up on *)
(* are quiet, and dequeueResult(false) finds the result of every worker    *)
(* that leaves its stream to the wrapper.                                  *)
(***************************************************************************)
THEOREM TurnsStaySeparate == Spec => []TurnsAreSeparate
<1>1. IInv => QuietBetweenTurns
  BY DEF IInv, PhaseInv, OneEntryInv, Quiet, QuietBetweenTurns
<1>2. IInv => TimeoutOnlyAfterEarlyClose
  <2> SUFFICES ASSUME IInv, pc = "collect", prop \in Streaming, NEW w \in toCollect \ ClosesEarly
               PROVE  workResults[w] # <<>>
    BY DEF TimeoutOnlyAfterEarlyClose
  <2>1. w \in Interested[prop] /\ w \in Workers
    BY DEF IInv, PhaseInv, InTurn, TypeOK
  <2>2. HasResult(w)
    BY <2>1 DEF IInv, StreamInv, InTurn, TeesAreClosed
  <2>3. Len(workResults[w]) # 0
    BY <2>1, <2>2 DEF HasResult, IInv, TypeOK
  <2>4. QED
    BY <2>3
<1>3. IInv => TurnsAreSeparate
  BY <1>1, <1>2 DEF IInv, TurnsAreSeparate
<1>4. QED
  BY <1>3, Invariance, PTL

(***************************************************************************)
(* A message is acknowledged only when every worker interested in a        *)
(* property the runner found has executed its work on it, the wrappers     *)
(* excepted that a turn of this JVM gave up on.                            *)
(***************************************************************************)
THEOREM AcknowledgedIsDone == Spec => HonestAck
<1>1. ASSUME IInv, [Next]_vars, NEW m \in Messages, status[m] = "taken", status'[m] = "acked",
             NEW p \in found, NEW w \in Interested[p]
      PROVE  <<turnOf[p], w>> \in done \/ w \in late
  <2> USE DEF queueVars
  <2> TypeOK /\ PhaseInv /\ DoneInv
    BY <1>1 DEF IInv
  <2>1. Ack
    <3>1. ~ UNCHANGED status
      BY <1>1
    <3>2. ASSUME NEW n \in Messages, Receive(n)
          PROVE  FALSE
      BY <1>1, <3>2 DEF Receive, TypeOK
    <3>3. ~Fail
      BY <1>1 DEF Fail, Settle, TypeOK
    <3>4. ~Crash
      BY <1>1 DEF Crash, TypeOK
    <3>5. ~RunnerFailure
      BY <3>1 DEF RunnerFailure, OpenFails, TeeLoopFails, DequeueTimesOut
    <3>6. ASSUME NEW v \in Workers, Wrapper(v)
          PROVE  FALSE
      BY <3>1, <3>6, WrapperFrame
    <3>7. ~Environment
      BY <3>1, <3>4 DEF Environment, Shutdown, DeleteElement, DeleteProperty
    <3>8. ~ UNCHANGED vars
      BY <3>1 DEF vars
    <3>9. Runner
      BY <1>1, <3>5, <3>6, <3>7, <3>8 DEF Next
    <3>10. QED
      BY <3>1, <3>2, <3>3, <3>9
         DEF Runner, LookUp, SkipProperty, BeginTurn, EnqueueWork, TeeLoopEnds, DequeueResult
  <2>2. pc = "next" /\ todo = {}
    BY <2>1 DEF Ack
  <2>3. QED
    BY <1>1, <2>2 DEF DoneInv, InTurn
<1>2. IInv /\ [Next]_vars =>
        \A m \in Messages :
          status[m] = "taken" /\ status'[m] = "acked" =>
            \A p \in found : \A w \in Interested[p] : <<turnOf[p], w>> \in done \/ w \in late
  BY <1>1
<1>3. QED
  BY <1>2, Invariance, PTL DEF Spec, HonestAck
=============================================================================
