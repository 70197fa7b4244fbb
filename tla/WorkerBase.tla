------------------------------ MODULE WorkerBase ------------------------------
(***************************************************************************)
(* The loop that every queue-driven runner of Visallo runs (WorkerBase.run,*)
(* and the same loop in QueueExternalResourceWorker), over the RabbitMQ    *)
(* work queue: pushOnQueue on one side, RabbitMQWorkQueueSpout on the      *)
(* other.  process(...) is abstract here: it returns or throws.            *)
(*                                                                         *)
(* The broker and the client library are external.  What is used of them:  *)
(* a message delivered and not acknowledged is held for its consumer, up   *)
(* to the prefetch count; a lost connection returns what is held; the      *)
(* library recovers the connection and the subscription, but the consumer  *)
(* object stays shut down: nextDelivery throws once its local queue is     *)
(* empty, and old delivery tags no longer mean anything.                   *)
(***************************************************************************)
EXTENDS Naturals, Sequences, FiniteSets

CONSTANTS
  Messages,
  Priority,        \* Priority[m]: "HIGH", "NORMAL" or "LOW"
  Runners,         \* processes (or threads) that run the loop
  Prefetch,        \* rabbitmq.prefetch.count
  MaxFaults,       \* bound on crashes, lost connections and stops together
  MayStop,         \* stop() may be called
  NoMessage

ASSUME ConstantsAssumption ==
  /\ Priority \in [Messages -> {"HIGH", "NORMAL", "LOW"}]
  /\ IsFiniteSet(Runners)
  /\ Prefetch \in Nat \ {0}
  /\ MaxFaults \in Nat
  /\ MayStop \in BOOLEAN
  /\ NoMessage \notin Messages

VARIABLES
  \* the broker
  ready,           \* messages in the queue
  unacked,         \* unacked[r]: delivered to the consumer of r, not settled
  outcome,         \* outcome[m]: "none", "acked" or "rejected"
  connected,       \* connected[r]: the consumer of r is subscribed
  \* the runners
  state,           \* state[r]: "down", "opened", "running", "processing", "ended"
  shouldRun,
  inbox,           \* inbox[r]: the QueueingConsumer's local queue
  tuple,           \* tuple[r]: the message being processed
  shutDown,        \* shutDown[r]: the consumer got a shutdown signal
  \* history
  pushed,
  starts,          \* starts[m]: times process was called on m
  returns,         \* returns[m]: times m came back to the queue
  ahead,           \* ahead[m]: what runners had prefetched when m last came to the queue
  faults

brokerVars == <<ready, unacked, outcome, connected>>
runnerVars == <<state, shouldRun, inbox, tuple, shutDown>>
historyVars == <<pushed, starts, returns, ahead, faults>>
vars == <<brokerVars, runnerVars, historyVars>>

LevelIgnored(m) == 0                                                   \* mutant
\* toRabbitMQPriority
Level(m) == CASE Priority[m] = "HIGH" -> 2
              [] Priority[m] = "NORMAL" -> 1
              [] Priority[m] = "LOW" -> 0

Outranks(n, m) == \/ Priority[n] = "HIGH" /\ Priority[m] # "HIGH"
                  \/ Priority[n] = "NORMAL" /\ Priority[m] = "LOW"

Init ==
  /\ ready = {}
  /\ unacked = [r \in Runners |-> {}]
  /\ outcome = [m \in Messages |-> "none"]
  /\ connected = [r \in Runners |-> FALSE]
  /\ state = [r \in Runners |-> "down"]
  /\ shouldRun = [r \in Runners |-> FALSE]
  /\ inbox = [r \in Runners |-> <<>>]
  /\ tuple = [r \in Runners |-> NoMessage]
  /\ shutDown = [r \in Runners |-> FALSE]
  /\ pushed = {}
  /\ starts = [m \in Messages |-> 0]
  /\ returns = [m \in Messages |-> 0]
  /\ ahead = [m \in Messages |-> {}]
  /\ faults = 0

-----------------------------------------------------------------------------
Prefetched == {m \in Messages : \E r \in Runners : \E k \in 1 .. Len(inbox[r]) : inbox[r][k] = m}
ComesToQueue(ms) == ahead' = [m \in Messages |-> IF m \in ms THEN Prefetched ELSE ahead[m]]

(* pushOnQueue.                                                            *)
Push(m) ==
  /\ m \notin pushed
  /\ pushed' = pushed \cup {m}
  /\ ready' = ready \cup {m}
  /\ ComesToQueue({m})
  /\ UNCHANGED <<unacked, outcome, connected, runnerVars, starts, returns, faults>>

(* The broker hands the consumer of r the next message.                    *)
Deliver(r, m) ==
  /\ connected[r]
  /\ m \in ready
  /\ \A n \in ready : Level(n) <= Level(m)
  /\ Cardinality(unacked[r]) < Prefetch
  /\ ready' = ready \ {m}
  /\ unacked' = [unacked EXCEPT ![r] = @ \cup {m}]
  /\ inbox' = IF shutDown[r] THEN inbox ELSE [inbox EXCEPT ![r] = Append(@, m)]
  /\ UNCHANGED <<outcome, connected, state, shouldRun, tuple, shutDown, historyVars>>

DropUnacked(r) ==                                                      \* mutant
  unacked' = [unacked EXCEPT ![r] = {}] /\ UNCHANGED <<ready, returns, ahead>>
ReturnUnacked(r) ==
  /\ ready' = ready \cup unacked[r]
  /\ unacked' = [unacked EXCEPT ![r] = {}]
  /\ returns' = [m \in Messages |-> returns[m] + IF m \in unacked[r] THEN 1 ELSE 0]
  /\ ComesToQueue(unacked[r])

-----------------------------------------------------------------------------
(* The loop.                                                               *)

\* prepareWorkerSpout: the consumer is subscribed.
Open(r) ==
  /\ state[r] = "down"
  /\ state' = [state EXCEPT ![r] = "opened"]
  /\ connected' = [connected EXCEPT ![r] = TRUE]
  /\ UNCHANGED <<ready, unacked, outcome, shouldRun, inbox, tuple, shutDown, historyVars>>

\* shouldRun = true, whatever stop() did before.
BeginLoop(r) ==
  /\ state[r] = "opened"
  /\ state' = [state EXCEPT ![r] = "running"]
  /\ shouldRun' = [shouldRun EXCEPT ![r] = TRUE]
  /\ UNCHANGED <<brokerVars, inbox, tuple, shutDown, historyVars>>

\* nextTuple returns a message.  shouldRun is a plain field written by another
\* thread: the loop may not see it cleared.
NextTuple(r) ==
  /\ state[r] = "running"
  /\ inbox[r] # <<>>
  /\ LET m == Head(inbox[r]) IN
       /\ tuple' = [tuple EXCEPT ![r] = m]
       /\ starts' = [starts EXCEPT ![m] = @ + 1]
  /\ inbox' = [inbox EXCEPT ![r] = Tail(@)]
  /\ state' = [state EXCEPT ![r] = "processing"]
  /\ UNCHANGED <<brokerVars, shouldRun, shutDown, pushed, returns, ahead, faults>>

SettleAnyTag(r, how) ==                                                \* mutant
  /\ unacked' = [unacked EXCEPT ![r] = @ \ {tuple[r]}]
  /\ outcome' = [outcome EXCEPT ![tuple[r]] = how]
SettleLiveTag(r, how) ==
  IF shutDown[r]
    THEN UNCHANGED <<unacked, outcome>>
    ELSE /\ unacked' = [unacked EXCEPT ![r] = @ \ {tuple[r]}]
         /\ outcome' = [outcome EXCEPT ![tuple[r]] = how]

\* basicAck, or basicNack without requeue.  The tag of a delivery made before
\* the connection was lost is ignored.
Settle(r, how) ==
  /\ state[r] = "processing"
  /\ connected[r]
  /\ SettleLiveTag(r, how)
  /\ tuple' = [tuple EXCEPT ![r] = NoMessage]
  /\ state' = [state EXCEPT ![r] = "running"]
  /\ UNCHANGED <<ready, connected, shouldRun, inbox, shutDown, historyVars>>

Ack(r)  == Settle(r, "acked")
FailRequeues(r) ==                                                     \* mutant
  /\ state[r] = "processing" /\ connected[r] /\ ~shutDown[r]
  /\ unacked' = [unacked EXCEPT ![r] = @ \ {tuple[r]}]
  /\ ready' = ready \cup {tuple[r]}
  /\ tuple' = [tuple EXCEPT ![r] = NoMessage]
  /\ state' = [state EXCEPT ![r] = "running"]
  /\ UNCHANGED <<outcome, connected, shouldRun, inbox, shutDown, historyVars>>
Fail(r) == Settle(r, "rejected")

\* With the connection down ack throws, and so does the fail that follows:
\* run() is left with an exception.
SettleThrows(r) ==
  /\ state[r] = "processing"
  /\ ~connected[r]
  /\ tuple' = [tuple EXCEPT ![r] = NoMessage]
  /\ state' = [state EXCEPT ![r] = "ended"]
  /\ UNCHANGED <<brokerVars, shouldRun, inbox, shutDown, historyVars>>

\* nextDelivery throws: nothing in run() catches it.
NextTupleThrows(r) ==
  /\ state[r] = "running"
  /\ shutDown[r] /\ inbox[r] = <<>>
  /\ state' = [state EXCEPT ![r] = "ended"]
  /\ UNCHANGED <<brokerVars, shouldRun, inbox, tuple, shutDown, historyVars>>

\* run() returns, and leaves the spout open.
EndLoop(r) ==
  /\ state[r] = "running"
  /\ ~shouldRun[r]
  /\ state' = [state EXCEPT ![r] = "ended"]
  /\ UNCHANGED <<brokerVars, shouldRun, inbox, tuple, shutDown, historyVars>>

Stop(r) ==
  /\ MayStop
  /\ faults < MaxFaults
  /\ state[r] # "down" /\ shouldRun[r]
  /\ faults' = faults + 1
  /\ shouldRun' = [shouldRun EXCEPT ![r] = FALSE]
  /\ UNCHANGED <<brokerVars, state, inbox, tuple, shutDown, pushed, starts, returns,
                 ahead>>

-----------------------------------------------------------------------------
(* Failures.                                                               *)

StaysUp(r) == UNCHANGED shutDown                                       \* mutant
SignalShutdown(r) == shutDown' = [shutDown EXCEPT ![r] = TRUE]

ConnectionLost(r) ==
  /\ faults < MaxFaults
  /\ connected[r]
  /\ faults' = faults + 1
  /\ connected' = [connected EXCEPT ![r] = FALSE]
  /\ SignalShutdown(r)
  /\ ReturnUnacked(r)
  /\ UNCHANGED <<outcome, state, shouldRun, inbox, tuple, pushed, starts>>

ConnectionRecovers(r) ==
  /\ ~connected[r] /\ state[r] # "down"
  /\ connected' = [connected EXCEPT ![r] = TRUE]
  /\ UNCHANGED <<ready, unacked, outcome, runnerVars, historyVars>>

ProcessDies(r) ==
  /\ ReturnUnacked(r)
  /\ connected' = [connected EXCEPT ![r] = FALSE]
  /\ state' = [state EXCEPT ![r] = "down"]
  /\ inbox' = [inbox EXCEPT ![r] = <<>>]
  /\ tuple' = [tuple EXCEPT ![r] = NoMessage]
  /\ shutDown' = [shutDown EXCEPT ![r] = FALSE]
  /\ UNCHANGED <<outcome, shouldRun, pushed, starts>>

Crash(r) ==
  /\ faults < MaxFaults
  /\ state[r] # "down"
  /\ faults' = faults + 1
  /\ ProcessDies(r)

\* The main thread of a runner process ends with run().
Exit(r) ==
  /\ state[r] = "ended"
  /\ ProcessDies(r)
  /\ UNCHANGED faults

Loop(r) == BeginLoop(r) \/ NextTuple(r) \/ Ack(r) \/ Fail(r) \/ SettleThrows(r) \/ NextTupleThrows(r)

Next ==
  \/ \E m \in Messages : Push(m)
  \/ \E r \in Runners :
       \/ \E m \in Messages : Deliver(r, m)
       \/ Open(r) \/ Loop(r) \/ EndLoop(r) \/ Stop(r)
       \/ ConnectionLost(r) \/ ConnectionRecovers(r) \/ Crash(r) \/ Exit(r)

Spec == Init /\ [][Next]_vars

\* The broker delivers, the loop runs, and a runner process that ended or
\* died is started again.
FairSpec ==
  /\ Spec
  /\ \A r \in Runners :
       /\ WF_vars(\E m \in Messages : Deliver(r, m))
       /\ WF_vars(Loop(r))
       /\ WF_vars(Open(r))
       /\ WF_vars(Exit(r))

-----------------------------------------------------------------------------
TypeOK ==
  /\ ready \subseteq Messages
  /\ unacked \in [Runners -> SUBSET Messages]
  /\ outcome \in [Messages -> {"none", "acked", "rejected"}]
  /\ connected \in [Runners -> BOOLEAN]
  /\ state \in [Runners -> {"down", "opened", "running", "processing", "ended"}]
  /\ shouldRun \in [Runners -> BOOLEAN]
  /\ inbox \in [Runners -> Seq(Messages)]
  /\ tuple \in [Runners -> Messages \cup {NoMessage}]
  /\ shutDown \in [Runners -> BOOLEAN]
  /\ pushed \subseteq Messages
  /\ starts \in [Messages -> Nat]
  /\ returns \in [Messages -> Nat]
  /\ ahead \in [Messages -> SUBSET Messages]
  /\ faults \in Nat

(* A pushed message is in exactly one place: in the queue, held for one    *)
(* consumer, or settled.  None is lost and none is doubled, whatever is    *)
(* lost of the runners.                                                    *)
OnePlace ==
  \A m \in Messages :
    LET holders == {r \in Runners : m \in unacked[r]} IN
      /\ m \in ready => m \in pushed /\ holders = {} /\ outcome[m] = "none"
      /\ holders # {} => outcome[m] = "none" /\ \A r, s \in holders : r = s
      /\ m \in pushed /\ outcome[m] = "none" => m \in ready \/ holders # {}

(* process is called on a message again only because it came back to the   *)
(* queue after a crash, a lost connection or a runner's exit.              *)
RepeatsOnlyAfterReturn == \A m \in Messages : starts[m] <= 1 + returns[m]

(* Two runners work on one message at the same time only when one of them  *)
(* lost its connection and does not know yet.                              *)
NoConcurrentProcessing ==
  \A r, s \in Runners :
    r # s /\ tuple[r] = tuple[s] /\ tuple[r] # NoMessage => shutDown[r] \/ shutDown[s]

(* While a message is in the queue, a runner begins one of a lower         *)
(* priority only if it had been prefetched before the other came there.    *)
OvertakenOnlyByPrefetched ==
  [][\A r \in Runners, n \in ready :
       starts' # starts /\ tuple[r] # tuple'[r] /\ Outranks(n, tuple'[r])
         => tuple'[r] \in ahead[n]]_vars

(* Where a message is, for those who pushed it.                            *)
place ==
  [m \in Messages |->
     IF outcome[m] # "none" THEN outcome[m]
     ELSE IF m \in ready THEN "ready"
     ELSE IF m \in pushed THEN "held" ELSE "unsent"]

Queue == INSTANCE AtLeastOnceQueue

(* The loops over the broker implement a queue that delivers at least once.*)
ImplementsQueue == Queue!Spec

(* Every message is acknowledged or rejected in the end, when run() ends   *)
(* with its process.                                                       *)
EveryMessageSettles ==
  \A m \in Messages : m \in pushed ~> outcome[m] # "none"
=============================================================================
