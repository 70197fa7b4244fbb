--------------------------- MODULE WorkerBase_proofs ---------------------------
(***************************************************************************)
(* Proofs about the runners' loop over the broker, for any messages,       *)
(* priorities, prefetch count and number of faults, and finitely many      *)
(* runners.                                                                *)
(*                                                                         *)
(* IInv is inductive.  Places says where a message can be; Loaded relates  *)
(* what a runner works on, or has in its local queue, to what the broker   *)
(* holds for it, which is what makes the tag of an acknowledgement good;   *)
(* Credit counts the calls of process that are still to come.              *)
(***************************************************************************)
EXTENDS WorkerBase, FiniteSetTheorems, TLAPS

Places ==
  /\ ready \subseteq pushed
  /\ \A m \in ready : outcome[m] = "none"
  /\ \A r \in Runners : \A m \in unacked[r] :
       m \in pushed /\ m \notin ready /\ outcome[m] = "none"
  /\ \A r, s \in Runners : \A m \in unacked[r] \cap unacked[s] : r = s
  /\ \A m \in pushed : outcome[m] = "none" =>
       m \in ready \/ \E r \in Runners : m \in unacked[r]
  /\ \A m \in Messages : outcome[m] # "none" => m \in pushed

\* The entries of the local queue differ from one another and from the message
\* that is processed; as long as the consumer is up they are held for it.
Loaded ==
  \A r \in Runners :
    /\ state[r] = "processing" <=> tuple[r] # NoMessage
    /\ \A k, l \in 1 .. Len(inbox[r]) : inbox[r][k] = inbox[r][l] => k = l
    /\ ~shutDown[r] =>
         /\ tuple[r] # NoMessage => tuple[r] \in unacked[r]
         /\ \A k \in 1 .. Len(inbox[r]) :
              inbox[r][k] \in unacked[r] /\ inbox[r][k] # tuple[r]

InInbox(r, m) == \E k \in 1 .. Len(inbox[r]) : inbox[r][k] = m
Pending(m) == {r \in Runners : InInbox(r, m)}
Delivered(m) == IF m \in pushed /\ m \notin ready THEN 1 ELSE 0

Credit ==
  \A m \in Messages : starts[m] + Cardinality(Pending(m)) <= returns[m] + Delivered(m)

IInv == TypeOK /\ Places /\ Loaded /\ Credit
-----------------------------------------------------------------------------
(* Type correctness.                                                       *)

LEMMA InitType == Init => TypeOK
  BY ConstantsAssumption DEF Init, TypeOK

LEMMA ReturnType ==
  ASSUME TypeOK, NEW r \in Runners, ReturnUnacked(r)
  PROVE  /\ ready' \subseteq Messages
         /\ unacked' \in [Runners -> SUBSET Messages]
         /\ returns' \in [Messages -> Nat]
         /\ ahead' \in [Messages -> SUBSET Messages]
  BY DEF TypeOK, ReturnUnacked, ComesToQueue, Prefetched

LEMMA StepType == TypeOK /\ [Next]_vars => TypeOK'
<1> SUFFICES ASSUME TypeOK, [Next]_vars PROVE TypeOK'
  OBVIOUS
<1>1. ASSUME NEW m \in Messages, Push(m) PROVE TypeOK'
  BY <1>1 DEF TypeOK, Push, ComesToQueue, Prefetched, runnerVars
<1>2. ASSUME NEW r \in Runners, NEW m \in Messages, Deliver(r, m) PROVE TypeOK'
  BY <1>2 DEF TypeOK, Deliver, historyVars
<1>3. ASSUME NEW r \in Runners, Open(r) PROVE TypeOK'
  BY <1>3 DEF TypeOK, Open, historyVars
<1>4. ASSUME NEW r \in Runners, BeginLoop(r) PROVE TypeOK'
  BY <1>4 DEF TypeOK, BeginLoop, brokerVars, historyVars
<1>5. ASSUME NEW r \in Runners, NextTuple(r) PROVE TypeOK'
  <2>1. Head(inbox[r]) \in Messages /\ Tail(inbox[r]) \in Seq(Messages)
    BY <1>5 DEF TypeOK, NextTuple
  <2>2. tuple' \in [Runners -> Messages \cup {NoMessage}] /\ inbox' \in [Runners -> Seq(Messages)]
    BY <1>5, <2>1 DEF TypeOK, NextTuple
  <2>3. starts' \in [Messages -> Nat]
    BY <1>5, <2>1 DEF TypeOK, NextTuple
  <2> QED
    BY <1>5, <2>2, <2>3 DEF TypeOK, NextTuple, brokerVars
<1>6. ASSUME NEW r \in Runners, Ack(r) \/ Fail(r) PROVE TypeOK'
  <2>1. PICK how \in {"acked", "rejected"} : Settle(r, how)
    BY <1>6 DEF Ack, Fail
  <2>2. CASE shutDown[r]
    BY <2>1, <2>2 DEF TypeOK, Settle, SettleLiveTag, historyVars
  <2>3. CASE ~shutDown[r]
    <3>1. unacked' \in [Runners -> SUBSET Messages]
      <4>1. unacked' = [unacked EXCEPT ![r] = @ \ {tuple[r]}]
        BY <2>1, <2>3 DEF Settle, SettleLiveTag
      <4>2. unacked[r] \ {tuple[r]} \in SUBSET Messages
        BY DEF TypeOK
      <4> QED
        BY <4>1, <4>2 DEF TypeOK
    <3>2. outcome' \in [Messages -> {"none", "acked", "rejected"}]
      <4>1. outcome' = [outcome EXCEPT ![tuple[r]] = how]
        BY <2>1, <2>3 DEF Settle, SettleLiveTag
      <4> QED
        BY <4>1 DEF TypeOK
    <3> QED
      BY <2>1, <3>1, <3>2 DEF TypeOK, Settle, historyVars
  <2> QED
    BY <2>2, <2>3
<1>7. ASSUME NEW r \in Runners, SettleThrows(r) \/ NextTupleThrows(r) \/ EndLoop(r)
      PROVE  TypeOK'
  BY <1>7 DEF TypeOK, SettleThrows, NextTupleThrows, EndLoop, brokerVars, historyVars
<1>8. ASSUME NEW r \in Runners, Stop(r) PROVE TypeOK'
  BY <1>8 DEF TypeOK, Stop, brokerVars
<1>9. ASSUME NEW r \in Runners, ConnectionLost(r) PROVE TypeOK'
  BY <1>9, ReturnType DEF TypeOK, ConnectionLost, SignalShutdown
<1>10. ASSUME NEW r \in Runners, ConnectionRecovers(r) PROVE TypeOK'
  BY <1>10 DEF TypeOK, ConnectionRecovers, runnerVars, historyVars
<1>11. ASSUME NEW r \in Runners, Crash(r) \/ Exit(r) PROVE TypeOK'
  <2>1. ProcessDies(r) /\ faults' \in Nat
    BY <1>11 DEF TypeOK, Crash, Exit
  <2>2. ReturnUnacked(r)
    BY <2>1 DEF ProcessDies
  <2> QED
    BY <2>1, <2>2, ReturnType, SMTT(30) DEF TypeOK, ProcessDies
<1>12. CASE UNCHANGED vars
  BY <1>12 DEF TypeOK, vars, brokerVars, runnerVars, historyVars
<1> QED
  BY <1>1, <1>2, <1>3, <1>4, <1>5, <1>6, <1>7, <1>8, <1>9, <1>10, <1>11, <1>12
     DEF Next, Loop

(* Every variable keeps its type: in particular the runners' queues hold   *)
(* nothing but messages, and an outcome is one the broker knows.           *)
THEOREM TypeCorrect == Spec => []TypeOK
  BY InitType, StepType, PTL DEF Spec
-----------------------------------------------------------------------------
(* Where a message is.                                                     *)

\* The steps of the loop that touch neither the broker nor what was pushed.
LocalStep(r) ==
  BeginLoop(r) \/ NextTuple(r) \/ SettleThrows(r) \/ NextTupleThrows(r) \/ EndLoop(r) \/ Stop(r)

LEMMA LocalStepKeepsBroker ==
  ASSUME NEW r \in Runners, LocalStep(r)
  PROVE  UNCHANGED <<brokerVars, pushed, returns, shutDown>>
  BY DEF LocalStep, BeginLoop, NextTuple, SettleThrows, NextTupleThrows, EndLoop, Stop,
         brokerVars, historyVars

LEMMA NextSplit ==
  ASSUME Next
  PROVE  \/ \E m \in Messages : Push(m)
         \/ \E r \in Runners :
              \/ \E m \in Messages : Deliver(r, m)
              \/ Open(r) \/ LocalStep(r)
              \/ \E how \in {"acked", "rejected"} : Settle(r, how)
              \/ ConnectionLost(r) \/ ConnectionRecovers(r)
              \/ ProcessDies(r)
  BY DEF Next, Loop, LocalStep, Ack, Fail, Crash, Exit

LEMMA InitInv == Init => Places /\ Loaded /\ Credit
<1> SUFFICES ASSUME Init PROVE Places /\ Loaded /\ Credit
  OBVIOUS
<1>1. Places
  BY DEF Init, Places
<1>2. Loaded
  BY DEF Init, Loaded
<1>3. Credit
  <2> SUFFICES ASSUME NEW m \in Messages
               PROVE  starts[m] + Cardinality(Pending(m)) <= returns[m] + Delivered(m)
    BY DEF Credit
  <2>1. Pending(m) = {}
    BY DEF Init, Pending, InInbox
  <2>2. Cardinality(Pending(m)) = 0
    BY <2>1, FS_EmptySet
  <2>3. starts[m] = 0 /\ returns[m] = 0 /\ Delivered(m) = 0
    BY DEF Init, Delivered
  <2> QED
    BY <2>2, <2>3
<1> QED
  BY <1>1, <1>2, <1>3

LEMMA ReturnPlaces ==
  ASSUME TypeOK, Places, NEW r \in Runners, ReturnUnacked(r), UNCHANGED <<outcome, pushed>>
  PROVE  Places'
  BY DEF TypeOK, Places, ReturnUnacked

\* A tag that means something is the tag of a message held for the consumer.
LEMMA LiveTag ==
  ASSUME TypeOK, Loaded, NEW r \in Runners, state[r] = "processing", ~shutDown[r]
  PROVE  tuple[r] \in Messages /\ tuple[r] \in unacked[r]
  BY DEF TypeOK, Loaded

LEMMA SettlePlaces ==
  ASSUME TypeOK, Places, Loaded,
         NEW r \in Runners, NEW how \in {"acked", "rejected"}, Settle(r, how)
  PROVE  Places'
<1>1. CASE shutDown[r]
  BY <1>1 DEF TypeOK, Places, Settle, SettleLiveTag, historyVars
<1>2. CASE ~shutDown[r]
  <2>1. /\ unacked' = [unacked EXCEPT ![r] = @ \ {tuple[r]}]
        /\ outcome' = [outcome EXCEPT ![tuple[r]] = how]
        /\ ready' = ready /\ pushed' = pushed
    BY <1>2 DEF Settle, SettleLiveTag, historyVars
  <2>2. tuple[r] \in Messages /\ tuple[r] \in unacked[r]
    BY <1>2, LiveTag DEF Settle
  <2>3. tuple[r] \in pushed /\ tuple[r] \notin ready
    BY <2>2 DEF Places
  <2>4. \A s \in Runners : tuple[r] \notin unacked'[s]
    BY <2>1, <2>2 DEF TypeOK, Places
  <2>5. \A m \in Messages : outcome'[m] = IF m = tuple[r] THEN how ELSE outcome[m]
    BY <2>1, <2>2 DEF TypeOK
  <2>6. \A s \in Runners : \A m \in Messages :
          m \in unacked'[s] <=> m \in unacked[s] /\ m # tuple[r]
    BY <2>1, <2>4 DEF TypeOK
  <2>7. \A s \in Runners : unacked[s] \subseteq Messages /\ unacked'[s] \subseteq Messages
    BY <2>1 DEF TypeOK
  <2>8. pushed \subseteq Messages /\ ready \subseteq Messages
    BY DEF TypeOK
  <2> QED
    BY <2>1, <2>3, <2>5, <2>6, <2>7, <2>8 DEF Places
<1> QED
  BY <1>1, <1>2

LEMMA StepPlaces == TypeOK /\ Places /\ Loaded /\ [Next]_vars => Places'
<1> SUFFICES ASSUME TypeOK, Places, Loaded, [Next]_vars PROVE Places'
  OBVIOUS
<1>1. ASSUME NEW m \in Messages, Push(m) PROVE Places'
  BY <1>1 DEF TypeOK, Places, Push, runnerVars
<1>2. ASSUME NEW r \in Runners, NEW m \in Messages, Deliver(r, m) PROVE Places'
  <2>1. /\ ready' = ready \ {m} /\ m \in ready
        /\ unacked' = [unacked EXCEPT ![r] = @ \cup {m}]
        /\ outcome' = outcome /\ pushed' = pushed
    BY <1>2 DEF Deliver, historyVars
  <2>2. \A s \in Runners : unacked'[s] = IF s = r THEN unacked[s] \cup {m} ELSE unacked[s]
    BY <2>1 DEF TypeOK
  <2> QED
    BY <2>1, <2>2 DEF Places
<1>3. ASSUME NEW r \in Runners, Open(r) \/ ConnectionRecovers(r) PROVE Places'
  BY <1>3 DEF Places, Open, ConnectionRecovers, historyVars
<1>4. ASSUME NEW r \in Runners, LocalStep(r) PROVE Places'
  BY <1>4, LocalStepKeepsBroker DEF Places, brokerVars
<1>5. ASSUME NEW r \in Runners, NEW how \in {"acked", "rejected"}, Settle(r, how) PROVE Places'
  BY <1>5, SettlePlaces
<1>6. ASSUME NEW r \in Runners, ConnectionLost(r) \/ ProcessDies(r) PROVE Places'
  BY <1>6, ReturnPlaces DEF ConnectionLost, ProcessDies
<1>7. CASE UNCHANGED vars
  BY <1>7 DEF Places, vars, brokerVars, historyVars
<1> QED
  BY <1>1, <1>2, <1>3, <1>4, <1>5, <1>6, <1>7, NextSplit
-----------------------------------------------------------------------------
(* What a runner works on.                                                 *)

LEMMA AppendEntries ==
  ASSUME NEW S, NEW q \in Seq(S), NEW e \in S
  PROVE  /\ Append(q, e) \in Seq(S)
         /\ Len(Append(q, e)) = Len(q) + 1
         /\ \A k \in 1 .. Len(q) : Append(q, e)[k] = q[k]
         /\ Append(q, e)[Len(q) + 1] = e
  OBVIOUS

LEMMA TailEntries ==
  ASSUME NEW S, NEW q \in Seq(S), q # <<>>
  PROVE  /\ Tail(q) \in Seq(S)
         /\ Len(Tail(q)) = Len(q) - 1
         /\ Len(q) \in Nat \ {0}
         /\ \A k \in 1 .. Len(q) - 1 : Tail(q)[k] = q[k + 1]
         /\ Head(q) = q[1] /\ Head(q) \in S
  OBVIOUS

\* Loaded, for one runner and given values of its variables.
LoadedWith(st, tp, ib, sd, un) ==
  /\ st = "processing" <=> tp # NoMessage
  /\ \A k, l \in 1 .. Len(ib) : ib[k] = ib[l] => k = l
  /\ ~sd => /\ tp # NoMessage => tp \in un
            /\ \A k \in 1 .. Len(ib) : ib[k] \in un /\ ib[k] # tp

LEMMA DeliverLoaded ==
  ASSUME NEW S, NEW q \in Seq(S), NEW e \in S, NEW st, NEW tp, NEW un,
         LoadedWith(st, tp, q, FALSE, un), e \notin un, e # NoMessage
  PROVE  LoadedWith(st, tp, Append(q, e), FALSE, un \cup {e})
<1>1. /\ Len(Append(q, e)) = Len(q) + 1 /\ Len(q) \in Nat
      /\ \A k \in 1 .. Len(q) : Append(q, e)[k] = q[k]
      /\ Append(q, e)[Len(q) + 1] = e
  BY AppendEntries
<1>2. \A k \in 1 .. Len(q) : q[k] \in un /\ q[k] # tp
  BY DEF LoadedWith
<1>3. \A k, l \in 1 .. Len(q) + 1 : Append(q, e)[k] = Append(q, e)[l] => k = l
  <2> SUFFICES ASSUME NEW k \in 1 .. Len(q) + 1, NEW l \in 1 .. Len(q) + 1,
                      Append(q, e)[k] = Append(q, e)[l]
               PROVE  k = l
    OBVIOUS
  <2>1. CASE k \in 1 .. Len(q) /\ l \in 1 .. Len(q)
    BY <1>1, <2>1 DEF LoadedWith
  <2>2. CASE k = Len(q) + 1 \/ l = Len(q) + 1
    BY <1>1, <1>2, <2>2
  <2> QED
    BY <1>1, <2>1, <2>2
<1>4. tp # e /\ (tp # NoMessage => tp \in un)
  BY DEF LoadedWith
<1>5. \A k \in 1 .. Len(q) + 1 : Append(q, e)[k] \in un \cup {e} /\ Append(q, e)[k] # tp
  BY <1>1, <1>2, <1>4
<1> QED
  BY <1>1, <1>3, <1>4, <1>5 DEF LoadedWith

LEMMA TakeLoaded ==
  ASSUME NEW S, NEW q \in Seq(S), q # <<>>, NoMessage \notin S,
         NEW st, NEW tp, NEW sd, NEW un, LoadedWith(st, tp, q, sd, un)
  PROVE  LoadedWith("processing", Head(q), Tail(q), sd, un)
<1>1. /\ Len(Tail(q)) = Len(q) - 1 /\ Len(q) \in Nat \ {0}
      /\ \A k \in 1 .. Len(q) - 1 : Tail(q)[k] = q[k + 1]
      /\ Head(q) = q[1] /\ Head(q) \in S
  BY TailEntries
<1>2. \A k, l \in 1 .. Len(q) : q[k] = q[l] => k = l
  BY DEF LoadedWith
<1>3. \A k, l \in 1 .. Len(q) - 1 : Tail(q)[k] = Tail(q)[l] => k = l
  BY <1>1, <1>2
<1>4. \A k \in 1 .. Len(q) - 1 : Tail(q)[k] # Head(q)
  BY <1>1, <1>2
<1>5. ~sd => \A k \in 1 .. Len(q) : q[k] \in un
  BY DEF LoadedWith
<1>6. ~sd => Head(q) \in un /\ \A k \in 1 .. Len(q) - 1 : Tail(q)[k] \in un
  BY <1>1, <1>5
<1> QED
  BY <1>1, <1>3, <1>4, <1>6 DEF LoadedWith

LEMMA LoadedIsPerRunner ==
  Loaded <=> \A r \in Runners :
               LoadedWith(state[r], tuple[r], inbox[r], shutDown[r], unacked[r])
  BY DEF Loaded, LoadedWith

LEMMA LoadedIsPerRunnerNext ==
  Loaded' <=> \A r \in Runners :
               LoadedWith(state'[r], tuple'[r], inbox'[r], shutDown'[r], unacked'[r])
  BY DEF Loaded, LoadedWith

\* A step that touches what concerns one runner has to keep Loaded for it.
LEMMA OneRunner ==
  ASSUME TypeOK, Loaded, NEW r \in Runners,
         \A s \in Runners \ {r} :
           /\ state'[s] = state[s] /\ tuple'[s] = tuple[s] /\ inbox'[s] = inbox[s]
           /\ shutDown'[s] = shutDown[s] /\ unacked'[s] = unacked[s],
         LoadedWith(state'[r], tuple'[r], inbox'[r], shutDown'[r], unacked'[r])
  PROVE  Loaded'
<1>1. \A s \in Runners \ {r} :
        LoadedWith(state'[s], tuple'[s], inbox'[s], shutDown'[s], unacked'[s])
  BY LoadedIsPerRunner
<1> QED
  BY <1>1, LoadedIsPerRunnerNext

LEMMA StepLoaded == TypeOK /\ Places /\ Loaded /\ [Next]_vars => Loaded'
<1> SUFFICES ASSUME TypeOK, Places, Loaded, [Next]_vars PROVE Loaded'
  OBVIOUS
<1>1. ASSUME NEW m \in Messages, Push(m) PROVE Loaded'
  BY <1>1 DEF Loaded, Push, runnerVars
<1>2. ASSUME NEW r \in Runners, NEW m \in Messages, Deliver(r, m) PROVE Loaded'
  <2>1. /\ m \in ready /\ m \notin unacked[r] /\ m # NoMessage
        /\ unacked' = [unacked EXCEPT ![r] = @ \cup {m}]
        /\ state' = state /\ tuple' = tuple /\ shutDown' = shutDown
    BY <1>2, ConstantsAssumption DEF Deliver, Places
  <2>2. unacked'[r] = unacked[r] \cup {m} /\ \A s \in Runners \ {r} : unacked'[s] = unacked[s]
    BY <2>1 DEF TypeOK
  <2>3. LoadedWith(state[r], tuple[r], inbox[r], shutDown[r], unacked[r])
    BY LoadedIsPerRunner
  <2>4. CASE shutDown[r]
    <3>1. inbox' = inbox
      BY <1>2, <2>4 DEF Deliver
    <3>2. LoadedWith(state[r], tuple[r], inbox[r], shutDown[r], unacked'[r])
      BY <2>3, <2>4 DEF LoadedWith
    <3> QED
      BY <2>1, <2>2, <3>1, <3>2, OneRunner
  <2>5. CASE ~shutDown[r]
    <3>1. inbox' = [inbox EXCEPT ![r] = Append(@, m)]
      BY <1>2, <2>5 DEF Deliver
    <3>2. inbox'[r] = Append(inbox[r], m) /\ \A s \in Runners \ {r} : inbox'[s] = inbox[s]
      BY <3>1 DEF TypeOK
    <3>3. shutDown[r] = FALSE /\ inbox[r] \in Seq(Messages)
      BY <2>5 DEF TypeOK
    <3>4. LoadedWith(state[r], tuple[r], Append(inbox[r], m), FALSE, unacked[r] \cup {m})
      BY <2>1, <2>3, <3>3, DeliverLoaded
    <3> QED
      BY <2>1, <2>2, <3>2, <3>3, <3>4, OneRunner
  <2> QED
    BY <2>4, <2>5
<1>3. ASSUME NEW r \in Runners, NextTuple(r) PROVE Loaded'
  <2>1. /\ inbox[r] # <<>> /\ inbox[r] \in Seq(Messages)
        /\ state'[r] = "processing" /\ tuple'[r] = Head(inbox[r]) /\ inbox'[r] = Tail(inbox[r])
        /\ shutDown' = shutDown /\ unacked' = unacked
    BY <1>3 DEF TypeOK, NextTuple, brokerVars
  <2>2. \A s \in Runners \ {r} :
          state'[s] = state[s] /\ tuple'[s] = tuple[s] /\ inbox'[s] = inbox[s]
    BY <1>3 DEF TypeOK, NextTuple
  <2>3. LoadedWith(state[r], tuple[r], inbox[r], shutDown[r], unacked[r])
    BY LoadedIsPerRunner
  <2>4. LoadedWith("processing", Head(inbox[r]), Tail(inbox[r]), shutDown[r], unacked[r])
    BY <2>1, <2>3, TakeLoaded, ConstantsAssumption
  <2> QED
    BY <2>1, <2>2, <2>4, OneRunner
<1>4. ASSUME NEW r \in Runners,
             \/ BeginLoop(r) \/ SettleThrows(r) \/ NextTupleThrows(r) \/ EndLoop(r)
             \/ Stop(r) \/ Open(r) \/ ConnectionRecovers(r)
      PROVE  Loaded'
  <2>1. UNCHANGED <<unacked, inbox, shutDown>>
    BY <1>4 DEF BeginLoop, SettleThrows, NextTupleThrows, EndLoop, Stop, Open,
                ConnectionRecovers, brokerVars, runnerVars, historyVars
  <2>2. /\ \A s \in Runners \ {r} : state'[s] = state[s] /\ tuple'[s] = tuple[s]
        /\ \/ /\ state[r] # "processing" /\ state'[r] # "processing" /\ tuple'[r] = tuple[r]
           \/ state'[r] # "processing" /\ tuple'[r] = NoMessage
           \/ state'[r] = state[r] /\ tuple'[r] = tuple[r]
    <3>1. CASE BeginLoop(r) \/ NextTupleThrows(r) \/ EndLoop(r) \/ Open(r)
      BY <3>1 DEF TypeOK, BeginLoop, NextTupleThrows, EndLoop, Open
    <3>2. CASE SettleThrows(r)
      BY <3>2 DEF TypeOK, SettleThrows
    <3>3. CASE Stop(r) \/ ConnectionRecovers(r)
      BY <3>3 DEF Stop, ConnectionRecovers, runnerVars
    <3> QED
      BY <1>4, <3>1, <3>2, <3>3
  <2>3. LoadedWith(state[r], tuple[r], inbox[r], shutDown[r], unacked[r])
    BY LoadedIsPerRunner
  <2>4. \A k \in 1 .. Len(inbox[r]) : inbox[r][k] # NoMessage
    BY ConstantsAssumption DEF TypeOK
  <2>5. LoadedWith(state'[r], tuple'[r], inbox[r], shutDown[r], unacked[r])
    BY <2>2, <2>3, <2>4 DEF LoadedWith
  <2> QED
    BY <2>1, <2>2, <2>5, OneRunner
<1>5. ASSUME NEW r \in Runners, NEW how \in {"acked", "rejected"}, Settle(r, how) PROVE Loaded'
  <2>1. /\ state'[r] = "running" /\ tuple'[r] = NoMessage /\ state[r] = "processing"
        /\ inbox' = inbox /\ shutDown' = shutDown
        /\ \A s \in Runners \ {r} : state'[s] = state[s] /\ tuple'[s] = tuple[s]
    BY <1>5 DEF TypeOK, Settle
  <2>2. /\ \A s \in Runners \ {r} : unacked'[s] = unacked[s]
        /\ ~shutDown[r] => unacked'[r] = unacked[r] \ {tuple[r]}
    BY <1>5 DEF TypeOK, Settle, SettleLiveTag
  <2>3. LoadedWith(state[r], tuple[r], inbox[r], shutDown[r], unacked[r])
    BY LoadedIsPerRunner
  <2>4. inbox[r] \in Seq(Messages)
    BY DEF TypeOK
  <2>5. \A k \in 1 .. Len(inbox[r]) : inbox[r][k] # NoMessage
    BY <2>4, ConstantsAssumption
  <2>6. LoadedWith("running", NoMessage, inbox[r], shutDown[r], unacked'[r])
    BY <2>2, <2>3, <2>5 DEF LoadedWith
  <2> QED
    BY <2>1, <2>2, <2>6, OneRunner
<1>6. ASSUME NEW r \in Runners, ConnectionLost(r) PROVE Loaded'
  BY <1>6 DEF TypeOK, Loaded, ConnectionLost, SignalShutdown, ReturnUnacked
<1>7. ASSUME NEW r \in Runners, ProcessDies(r) PROVE Loaded'
  BY <1>7 DEF TypeOK, Loaded, ProcessDies, ReturnUnacked
<1>8. CASE UNCHANGED vars
  BY <1>8 DEF Loaded, vars, brokerVars, runnerVars
<1> QED
  BY <1>1, <1>2, <1>3, <1>4, <1>5, <1>6, <1>7, <1>8, NextSplit DEF LocalStep
-----------------------------------------------------------------------------
(* How often process is called.                                            *)

LEMMA PendingFinite ==
  \A m : IsFiniteSet(Pending(m)) /\ Cardinality(Pending(m)) \in Nat
  BY FS_Subset, FS_CardinalityType, ConstantsAssumption DEF Pending

LEMMA PendingFiniteNext ==
  \A m : IsFiniteSet(Pending(m)') /\ Cardinality(Pending(m)') \in Nat
<1>1. \A m : Pending(m)' \subseteq Runners
  BY DEF Pending
<1> QED
  BY <1>1, FS_Subset, FS_CardinalityType, ConstantsAssumption

\* The local queues only lose messages, and as many of them come back to the
\* queue as were held.
LEMMA CreditKept ==
  ASSUME TypeOK, TypeOK', Credit, starts' = starts,
         \A m \in Messages : Pending(m)' \subseteq Pending(m),
         \A m \in Messages : returns[m] + Delivered(m) <= returns'[m] + Delivered(m)'
  PROVE  Credit'
<1> SUFFICES ASSUME NEW m \in Messages
             PROVE  starts'[m] + Cardinality(Pending(m)') <= returns'[m] + Delivered(m)'
  BY DEF Credit
<1>1. Cardinality(Pending(m)') <= Cardinality(Pending(m))
  BY PendingFinite, FS_Subset
<1>2. starts[m] \in Nat /\ returns[m] \in Nat /\ returns'[m] \in Nat
  BY DEF TypeOK
<1>3. Delivered(m) \in Nat /\ Delivered(m)' \in Nat
  BY DEF Delivered
<1> QED
  BY <1>1, <1>2, <1>3, PendingFinite, PendingFiniteNext DEF Credit

LEMMA ReturnCredit ==
  ASSUME TypeOK, TypeOK', Places, Credit, NEW r \in Runners, ReturnUnacked(r),
         UNCHANGED <<starts, pushed>>,
         \A m \in Messages : Pending(m)' \subseteq Pending(m)
  PROVE  Credit'
<1>1. \A m \in Messages : returns[m] + Delivered(m) <= returns'[m] + Delivered(m)'
  <2> SUFFICES ASSUME NEW m \in Messages
               PROVE  returns[m] + Delivered(m) <= returns'[m] + Delivered(m)'
    OBVIOUS
  <2>1. returns[m] \in Nat /\ returns'[m] = returns[m] + IF m \in unacked[r] THEN 1 ELSE 0
    BY DEF TypeOK, ReturnUnacked
  <2>2. m \in ready' <=> m \in ready \/ m \in unacked[r]
    BY DEF ReturnUnacked
  <2>3. CASE m \in unacked[r]
    BY <2>1, <2>2, <2>3 DEF Places, Delivered
  <2>4. CASE m \notin unacked[r]
    BY <2>1, <2>2, <2>4 DEF Delivered
  <2> QED
    BY <2>3, <2>4
<1> QED
  BY <1>1, CreditKept

LEMMA DeliverCredit ==
  ASSUME TypeOK, TypeOK', Places, Loaded, Credit,
         NEW r \in Runners, NEW m \in Messages, Deliver(r, m)
  PROVE  Credit'
<1>1. /\ m \in ready /\ m \in pushed /\ m \notin unacked[r]
      /\ ready' = ready \ {m}
      /\ UNCHANGED <<starts, returns, pushed>>
  BY DEF Deliver, Places, historyVars
<1>2. \A n \in Messages : Delivered(n)' = IF n = m THEN 1 ELSE Delivered(n)
  BY <1>1 DEF Delivered
<1>3. Delivered(m) = 0
  BY <1>1 DEF Delivered
<1>4. \A n \in Messages : Pending(n)' \subseteq Pending(n) \cup (IF n = m THEN {r} ELSE {})
  <2>1. inbox' = inbox \/ inbox' = [inbox EXCEPT ![r] = Append(@, m)]
    BY DEF Deliver
  <2>2. CASE inbox' = inbox
    BY <2>2 DEF Pending, InInbox
  <2>3. CASE inbox' = [inbox EXCEPT ![r] = Append(@, m)]
    <3>1. \A s \in Runners : inbox'[s] = IF s = r THEN Append(inbox[r], m) ELSE inbox[s]
      BY <2>3 DEF TypeOK
    <3>2. inbox[r] \in Seq(Messages)
      BY DEF TypeOK
    <3>3. \A n \in Messages : InInbox(r, n)' => InInbox(r, n) \/ n = m
      <4> SUFFICES ASSUME NEW n \in Messages, NEW k \in 1 .. Len(inbox'[r]), inbox'[r][k] = n, n # m
                   PROVE  InInbox(r, n)
        BY DEF InInbox
      <4>1. /\ Len(inbox'[r]) = Len(inbox[r]) + 1 /\ Len(inbox[r]) \in Nat
            /\ \A j \in 1 .. Len(inbox[r]) : inbox'[r][j] = inbox[r][j]
            /\ inbox'[r][Len(inbox[r]) + 1] = m
        <5>1. inbox'[r] = Append(inbox[r], m)
          BY <3>1
        <5>2. Len(inbox[r]) \in Nat
          BY <3>2
        <5> QED
          BY <3>2, <5>1, <5>2, AppendEntries
      <4>2. k \in 1 .. Len(inbox[r])
        BY <4>1
      <4> QED
        BY <4>1, <4>2 DEF InInbox
    <3>4. \A n \in Messages : \A s \in Runners \ {r} : InInbox(s, n)' => InInbox(s, n)
      BY <3>1 DEF InInbox
    <3> QED
      BY <3>3, <3>4 DEF Pending
  <2> QED
    BY <2>1, <2>2, <2>3
<1> SUFFICES ASSUME NEW n \in Messages
             PROVE  starts'[n] + Cardinality(Pending(n)') <= returns'[n] + Delivered(n)'
  BY DEF Credit
<1>5. Cardinality(Pending(n)') <= Cardinality(Pending(n)) + IF n = m THEN 1 ELSE 0
  <2>1. CASE n # m
    BY <1>4, <2>1, PendingFinite, FS_Subset
  <2>2. CASE n = m
    <3>1. /\ IsFiniteSet(Pending(n) \cup {r})
          /\ Cardinality(Pending(n) \cup {r}) <= Cardinality(Pending(n)) + 1
      <4>1. IsFiniteSet(Pending(n)) /\ Cardinality(Pending(n)) \in Nat
        BY PendingFinite
      <4>2. /\ IsFiniteSet(Pending(n) \cup {r})
            /\ \/ Cardinality(Pending(n) \cup {r}) = Cardinality(Pending(n))
               \/ Cardinality(Pending(n) \cup {r}) = Cardinality(Pending(n)) + 1
        BY <4>1, FS_AddElement
      <4> QED
        BY <4>1, <4>2
    <3>2. Cardinality(Pending(n)') <= Cardinality(Pending(n) \cup {r})
      BY <1>4, <2>2, <3>1, FS_Subset
    <3>3. Cardinality(Pending(n) \cup {r}) \in Nat
      BY <3>1, FS_CardinalityType
    <3> QED
      BY <2>2, <3>1, <3>2, <3>3, PendingFinite, PendingFiniteNext
  <2> QED
    BY <2>1, <2>2
<1>6. starts[n] \in Nat /\ returns[n] \in Nat /\ Delivered(n) \in Nat
  BY DEF TypeOK, Delivered
<1>7. starts[n] + Cardinality(Pending(n)) <= returns[n] + Delivered(n)
  BY DEF Credit
<1> QED
  BY <1>1, <1>2, <1>3, <1>5, <1>6, <1>7, PendingFinite, PendingFiniteNext

LEMMA TakeCredit ==
  ASSUME TypeOK, TypeOK', Loaded, Credit, NEW r \in Runners, NextTuple(r)
  PROVE  Credit'
<1>1. PICK h \in Messages :
        /\ h = Head(inbox[r]) /\ h = inbox[r][1]
        /\ Len(inbox[r]) \in Nat \ {0} /\ Len(Tail(inbox[r])) = Len(inbox[r]) - 1
        /\ \A k \in 1 .. Len(inbox[r]) - 1 : Tail(inbox[r])[k] = inbox[r][k + 1]
  <2>1. inbox[r] \in Seq(Messages) /\ inbox[r] # <<>>
    BY DEF TypeOK, NextTuple
  <2> QED
    BY <2>1, TailEntries
<1>2. /\ inbox'[r] = Tail(inbox[r])
      /\ \A s \in Runners \ {r} : inbox'[s] = inbox[s]
  BY DEF TypeOK, NextTuple
<1>3. Len(inbox'[r]) = Len(inbox[r]) - 1
      /\ \A k \in 1 .. Len(inbox'[r]) : inbox'[r][k] = inbox[r][k + 1]
  BY <1>1, <1>2
<1>4. \A n : Pending(n)' \subseteq Pending(n)
  <2>1. \A n : InInbox(r, n)' => InInbox(r, n)
    <3> SUFFICES ASSUME NEW n, NEW k \in 1 .. Len(inbox'[r]), inbox'[r][k] = n
                 PROVE  InInbox(r, n)
      BY DEF InInbox
    <3>1. k + 1 \in 1 .. Len(inbox[r]) /\ inbox[r][k + 1] = n
      BY <1>1, <1>3
    <3> QED
      BY <3>1 DEF InInbox
  <2>2. \A n : \A s \in Runners \ {r} : InInbox(s, n)' => InInbox(s, n)
    BY <1>2 DEF InInbox
  <2> QED
    BY <2>1, <2>2 DEF Pending
<1>5. r \in Pending(h) /\ r \notin Pending(h)'
  <2>1. InInbox(r, h)
    BY <1>1 DEF InInbox
  <2>2. \A k \in 1 .. Len(inbox'[r]) : inbox'[r][k] # h
    <3> SUFFICES ASSUME NEW k \in 1 .. Len(inbox'[r]), inbox[r][k + 1] = inbox[r][1]
                 PROVE  FALSE
      BY <1>1, <1>3
    <3>1. k + 1 \in 1 .. Len(inbox[r]) /\ 1 \in 1 .. Len(inbox[r]) /\ k + 1 # 1
      BY <1>1, <1>3
    <3> QED
      BY <3>1 DEF Loaded
  <2> QED
    BY <2>1, <2>2 DEF Pending, InInbox
<1>6. Cardinality(Pending(h)') + 1 <= Cardinality(Pending(h))
  <2>1. Pending(h)' \subseteq Pending(h) \ {r}
    BY <1>4, <1>5
  <2>2. IsFiniteSet(Pending(h)) /\ Cardinality(Pending(h)) \in Nat
    BY PendingFinite
  <2>3. /\ IsFiniteSet(Pending(h) \ {r})
        /\ Cardinality(Pending(h) \ {r}) = Cardinality(Pending(h)) - 1
    BY <1>5, <2>2, FS_RemoveElement
  <2>4. Cardinality(Pending(h)') <= Cardinality(Pending(h) \ {r})
    BY <2>1, <2>3, FS_Subset
  <2> QED
    BY <2>2, <2>3, <2>4, PendingFiniteNext
<1>7. \A n \in Messages :
        /\ starts'[n] = starts[n] + IF n = h THEN 1 ELSE 0
        /\ returns'[n] = returns[n] /\ Delivered(n)' = Delivered(n)
  BY <1>1 DEF TypeOK, NextTuple, Delivered, brokerVars
<1> SUFFICES ASSUME NEW n \in Messages
             PROVE  starts'[n] + Cardinality(Pending(n)') <= returns'[n] + Delivered(n)'
  BY DEF Credit
<1>8. Cardinality(Pending(n)') <= Cardinality(Pending(n))
  BY <1>4, PendingFinite, FS_Subset
<1>9. starts[n] \in Nat /\ returns[n] \in Nat /\ Delivered(n) \in Nat
  BY DEF TypeOK, Delivered
<1>10. starts[n] + Cardinality(Pending(n)) <= returns[n] + Delivered(n)
  BY DEF Credit
<1> QED
  BY <1>6, <1>7, <1>8, <1>9, <1>10, PendingFinite, PendingFiniteNext

LEMMA StepCredit == TypeOK /\ TypeOK' /\ Places /\ Loaded /\ Credit /\ [Next]_vars => Credit'
<1> SUFFICES ASSUME TypeOK, TypeOK', Places, Loaded, Credit, [Next]_vars PROVE Credit'
  OBVIOUS
<1>1. ASSUME NEW m \in Messages, Push(m) PROVE Credit'
  <2>1. UNCHANGED <<starts, returns, inbox>>
    BY <1>1 DEF Push, runnerVars
  <2>2. \A n \in Messages : Delivered(n)' = Delivered(n)
    BY <1>1 DEF Push, Delivered, Places
  <2>3. \A n \in Messages : Pending(n)' = Pending(n)
    BY <2>1 DEF Pending, InInbox
  <2> QED
    BY <2>1, <2>2, <2>3 DEF Credit
<1>2. ASSUME NEW r \in Runners, NEW m \in Messages, Deliver(r, m) PROVE Credit'
  BY <1>2, DeliverCredit
<1>3. ASSUME NEW r \in Runners, NextTuple(r) PROVE Credit'
  BY <1>3, TakeCredit
<1>4. ASSUME UNCHANGED <<ready, pushed, starts, returns, inbox>> PROVE Credit'
  BY <1>4 DEF Credit, Pending, InInbox, Delivered
<1>5. ASSUME NEW r \in Runners,
             \/ BeginLoop(r) \/ SettleThrows(r) \/ NextTupleThrows(r) \/ EndLoop(r)
             \/ Stop(r) \/ Open(r) \/ ConnectionRecovers(r)
             \/ \E how \in {"acked", "rejected"} : Settle(r, how)
      PROVE  Credit'
  <2>1. UNCHANGED <<ready, pushed, starts, returns, inbox>>
    BY <1>5 DEF BeginLoop, SettleThrows, NextTupleThrows, EndLoop, Stop, Open,
                ConnectionRecovers, Settle, brokerVars, runnerVars, historyVars
  <2> QED
    BY <1>4, <2>1
<1>6. ASSUME NEW r \in Runners, ConnectionLost(r) PROVE Credit'
  <2>1. ReturnUnacked(r) /\ UNCHANGED <<starts, pushed, inbox>>
    BY <1>6 DEF ConnectionLost
  <2>2. \A n \in Messages : Pending(n)' \subseteq Pending(n)
    BY <2>1 DEF Pending, InInbox
  <2> QED
    BY <2>1, <2>2, ReturnCredit
<1>7. ASSUME NEW r \in Runners, ProcessDies(r) PROVE Credit'
  <2>1. ReturnUnacked(r) /\ UNCHANGED <<starts, pushed>>
    BY <1>7 DEF ProcessDies
  <2>2. inbox'[r] = <<>> /\ \A s \in Runners \ {r} : inbox'[s] = inbox[s]
    BY <1>7 DEF TypeOK, ProcessDies
  <2>3. \A n \in Messages : Pending(n)' \subseteq Pending(n)
    BY <2>2 DEF Pending, InInbox
  <2> QED
    BY <2>1, <2>3, ReturnCredit
<1>8. CASE UNCHANGED vars
  BY <1>4, <1>8 DEF vars, brokerVars, runnerVars, historyVars
<1> QED
  BY <1>1, <1>2, <1>3, <1>5, <1>6, <1>7, <1>8, NextSplit DEF LocalStep
-----------------------------------------------------------------------------
(* The properties.                                                         *)

LEMMA Inductive == Spec => []IInv
<1>1. Init => IInv
  BY InitType, InitInv DEF IInv
<1>2. IInv /\ [Next]_vars => IInv'
  BY StepType, StepPlaces, StepLoaded, StepCredit DEF IInv
<1> QED
  BY <1>1, <1>2, PTL DEF Spec

(* RabbitMQ's queue and the consumers together never lose a pushed message *)
(* and never have it twice, whatever crashes, lost connections, stops and  *)
(* late acknowledgements there are.                                        *)
THEOREM EveryMessageInOnePlace == Spec => []OnePlace
<1>1. IInv => OnePlace
  BY DEF IInv, TypeOK, Places, OnePlace
<1> QED
  BY <1>1, Inductive, PTL

(* A message is processed once more than it came back to the queue, at     *)
(* most: no step of the loop repeats a call by itself.                     *)
THEOREM CallsAreBounded == Spec => []RepeatsOnlyAfterReturn
<1>1. ASSUME IInv PROVE RepeatsOnlyAfterReturn
  <2> SUFFICES ASSUME NEW m \in Messages PROVE starts[m] <= 1 + returns[m]
    BY DEF RepeatsOnlyAfterReturn
  <2>1. starts[m] + Cardinality(Pending(m)) <= returns[m] + Delivered(m)
    BY <1>1 DEF IInv, Credit
  <2>2. starts[m] \in Nat /\ returns[m] \in Nat /\ Delivered(m) \in {0, 1}
    BY <1>1 DEF IInv, TypeOK, Delivered
  <2> QED
    BY <2>1, <2>2, PendingFinite
<1> QED
  BY <1>1, Inductive, PTL

(* Of two runners that process the same message at the same time, one has  *)
(* lost its connection.                                                    *)
THEOREM ProcessingIsExclusive == Spec => []NoConcurrentProcessing
<1>1. ASSUME IInv PROVE NoConcurrentProcessing
  <2> SUFFICES ASSUME NEW r \in Runners, NEW s \in Runners, r # s,
                      tuple[r] = tuple[s], tuple[r] # NoMessage,
                      ~shutDown[r], ~shutDown[s]
               PROVE  FALSE
    BY DEF NoConcurrentProcessing
  <2>1. tuple[r] \in unacked[r] \cap unacked[s]
    BY <1>1 DEF IInv, Loaded
  <2> QED
    BY <1>1, <2>1 DEF IInv, Places
<1> QED
  BY <1>1, Inductive, PTL

-----------------------------------------------------------------------------
(* The refinement.                                                         *)

LEMMA MoveIsMove ==
  ASSUME NEW S \in SUBSET Messages, NEW from, NEW to,
         \A m \in S : place[m] = from,
         \A m \in Messages : place'[m] = IF m \in S THEN to ELSE place[m]
  PROVE  Queue!Move(S, from, to)
<1>1. place' = [m \in Messages |-> place'[m]]
  BY DEF place
<1> QED
  BY <1>1 DEF Queue!Move

LEMMA ReturnRefines ==
  ASSUME TypeOK, Places, NEW r \in Runners, ReturnUnacked(r), UNCHANGED <<outcome, pushed>>
  PROVE  Queue!Return
<1>1. unacked[r] \in SUBSET Messages
  BY DEF TypeOK
<1>2. \A m \in unacked[r] : place[m] = "held"
  BY <1>1 DEF Places, place
<1>3. \A m \in Messages : place'[m] = IF m \in unacked[r] THEN "ready" ELSE place[m]
  BY <1>1 DEF Places, place, ReturnUnacked
<1> QED
  BY <1>1, <1>2, <1>3, MoveIsMove DEF Queue!Return

LEMMA SettleRefines ==
  ASSUME TypeOK, Places, Loaded,
         NEW r \in Runners, NEW how \in {"acked", "rejected"}, Settle(r, how)
  PROVE  [Queue!Next]_place
<1>1. CASE shutDown[r]
  BY <1>1 DEF Settle, SettleLiveTag, historyVars, place
<1>2. CASE ~shutDown[r]
  <2>1. tuple[r] \in Messages /\ tuple[r] \in unacked[r]
    BY <1>2, LiveTag DEF Settle
  <2>2. place[tuple[r]] = "held"
    BY <2>1 DEF Places, place
  <2>3. \A m \in Messages : outcome'[m] = IF m = tuple[r] THEN how ELSE outcome[m]
    BY <1>2, <2>1 DEF TypeOK, Settle, SettleLiveTag
  <2>4. ready' = ready /\ pushed' = pushed
    BY DEF Settle, historyVars
  <2>5. \A m \in Messages : place'[m] = IF m \in {tuple[r]} THEN how ELSE place[m]
    BY <2>3, <2>4 DEF place
  <2>6. Queue!Move({tuple[r]}, "held", how)
    BY <2>1, <2>2, <2>5, MoveIsMove
  <2> QED
    BY <2>1, <2>6 DEF Queue!Next, Queue!Ack, Queue!Reject
<1> QED
  BY <1>1, <1>2

LEMMA StepRefines == IInv /\ [Next]_vars => [Queue!Next]_place
<1> SUFFICES ASSUME TypeOK, Places, Loaded, [Next]_vars PROVE [Queue!Next]_place
  BY DEF IInv
<1>1. ASSUME NEW m \in Messages, Push(m) PROVE Queue!Push
  <2>1. /\ m \notin pushed /\ outcome' = outcome
        /\ pushed' = pushed \cup {m} /\ ready' = ready \cup {m}
    BY <1>1 DEF Push
  <2>2. place[m] = "unsent"
    BY <2>1 DEF Places, place
  <2>3. outcome[m] = "none"
    BY <2>1 DEF Places
  <2>4. \A n \in Messages : place'[n] = IF n \in {m} THEN "ready" ELSE place[n]
    BY <2>1, <2>3 DEF place
  <2> QED
    BY <2>2, <2>4, MoveIsMove DEF Queue!Push
<1>2. ASSUME NEW r \in Runners, NEW m \in Messages, Deliver(r, m) PROVE Queue!Deliver
  <2>1. m \in ready /\ m \in pushed /\ outcome[m] = "none"
    BY <1>2 DEF Deliver, Places
  <2>2. ready' = ready \ {m} /\ outcome' = outcome /\ pushed' = pushed
    BY <1>2 DEF Deliver, historyVars
  <2>3. place[m] = "ready"
    BY <2>1 DEF place
  <2>4. \A n \in Messages : place'[n] = IF n \in {m} THEN "held" ELSE place[n]
    BY <2>1, <2>2 DEF place
  <2> QED
    BY <2>3, <2>4, MoveIsMove DEF Queue!Deliver
<1>3. ASSUME NEW r \in Runners, Open(r) \/ ConnectionRecovers(r) PROVE UNCHANGED place
  BY <1>3 DEF Open, ConnectionRecovers, historyVars, place
<1>4. ASSUME NEW r \in Runners, LocalStep(r) PROVE UNCHANGED place
  BY <1>4, LocalStepKeepsBroker DEF brokerVars, place
<1>5. ASSUME NEW r \in Runners, NEW how \in {"acked", "rejected"}, Settle(r, how)
      PROVE  [Queue!Next]_place
  BY <1>5, SettleRefines
<1>6. ASSUME NEW r \in Runners, ConnectionLost(r) \/ ProcessDies(r) PROVE Queue!Return
  BY <1>6, ReturnRefines DEF ConnectionLost, ProcessDies
<1>7. CASE UNCHANGED vars
  BY <1>7 DEF vars, brokerVars, historyVars, place
<1> QED
  BY <1>1, <1>2, <1>3, <1>4, <1>5, <1>6, <1>7, NextSplit DEF Queue!Next

(* The runners and the broker implement a queue that hands each message to *)
(* one consumer at a time, takes it back when the consumer is gone, and    *)
(* keeps it settled once it is settled.                                    *)
THEOREM QueueImplemented == Spec => ImplementsQueue
<1>1. Init => Queue!Init
  BY DEF Init, Queue!Init, place
<1> QED
  BY <1>1, StepRefines, Inductive, PTL DEF Spec, ImplementsQueue, Queue!Spec
-----------------------------------------------------------------------------
(* What overtakes.                                                         *)

\* What a runner has prefetched and a message in the queue outranks was
\* prefetched when the message came there.
Early ==
  \A n \in ready, r \in Runners : \A k \in 1 .. Len(inbox[r]) :
    Outranks(n, inbox[r][k]) => inbox[r][k] \in ahead[n]

LEMMA OutranksIsHigher ==
  ASSUME NEW n \in Messages, NEW m \in Messages, Outranks(n, m)
  PROVE  ~(Level(n) <= Level(m))
  BY ConstantsAssumption DEF Outranks, Level

LEMMA FewerPrefetched ==
  ASSUME TypeOK, Early, ready' \subseteq ready, ahead' = ahead,
         \A r \in Runners : \/ inbox'[r] = inbox[r]
                            \/ inbox[r] # <<>> /\ inbox'[r] = Tail(inbox[r])
  PROVE  Early'
<1> SUFFICES ASSUME NEW n \in ready', NEW r \in Runners, NEW k \in 1 .. Len(inbox'[r]),
                    Outranks(n, inbox'[r][k])
             PROVE  inbox'[r][k] \in ahead[n]
  BY DEF Early, Outranks
<1>1. PICK j \in 1 .. Len(inbox[r]) : inbox'[r][k] = inbox[r][j]
  <2>1. inbox[r] \in Seq(Messages)
    BY DEF TypeOK
  <2>2. CASE inbox'[r] = inbox[r]
    BY <2>2
  <2>3. CASE inbox[r] # <<>> /\ inbox'[r] = Tail(inbox[r])
    BY <2>1, <2>3
  <2> QED
    BY <2>2, <2>3
<1> QED
  BY <1>1 DEF Early

LEMMA SamePrefetched ==
  ASSUME Early, UNCHANGED <<ready, ahead, inbox>>
  PROVE  Early'
  BY DEF Early, Outranks

LEMMA ReturnEarly ==
  ASSUME TypeOK, Early, NEW r \in Runners, ReturnUnacked(r),
         \A s \in Runners : inbox'[s] = inbox[s] \/ inbox'[s] = <<>>
  PROVE  Early'
<1> SUFFICES ASSUME NEW n \in ready', NEW s \in Runners, NEW k \in 1 .. Len(inbox'[s]),
                    Outranks(n, inbox'[s][k])
             PROVE  inbox'[s][k] \in ahead'[n]
  BY DEF Early, Outranks
<1>1. inbox'[s] = inbox[s] /\ inbox[s] \in Seq(Messages)
  BY DEF TypeOK
<1>2. n \in Messages
  BY DEF TypeOK, ReturnUnacked
<1>3. CASE n \in unacked[r]
  BY <1>1, <1>2, <1>3 DEF ReturnUnacked, ComesToQueue, Prefetched
<1>4. CASE n \notin unacked[r]
  BY <1>1, <1>2, <1>4 DEF ReturnUnacked, ComesToQueue, Early
<1> QED
  BY <1>3, <1>4

LEMMA StepEarly == TypeOK /\ Early /\ [Next]_vars => Early'
<1> SUFFICES ASSUME TypeOK, Early, [Next]_vars PROVE Early'
  OBVIOUS
<1>1. ASSUME NEW m \in Messages, Push(m) PROVE Early'
  <2> SUFFICES ASSUME NEW n \in ready', NEW s \in Runners, NEW k \in 1 .. Len(inbox'[s]),
                      Outranks(n, inbox'[s][k])
               PROVE  inbox'[s][k] \in ahead'[n]
    BY DEF Early, Outranks
  <2>1. inbox' = inbox /\ inbox[s] \in Seq(Messages) /\ n \in Messages
    BY <1>1 DEF TypeOK, Push, runnerVars
  <2>2. CASE n = m
    BY <1>1, <2>1, <2>2 DEF Push, ComesToQueue, Prefetched
  <2>3. CASE n # m
    BY <1>1, <2>1, <2>3 DEF Push, ComesToQueue, Early
  <2> QED
    BY <2>2, <2>3
<1>2. ASSUME NEW q \in Runners, NEW m \in Messages, Deliver(q, m) PROVE Early'
  <2> SUFFICES ASSUME NEW n \in ready', NEW s \in Runners, NEW k \in 1 .. Len(inbox'[s]),
                      Outranks(n, inbox'[s][k])
               PROVE  inbox'[s][k] \in ahead'[n]
    BY DEF Early, Outranks
  <2>1. n \in ready /\ n \in Messages /\ ahead' = ahead /\ inbox[s] \in Seq(Messages)
    BY <1>2 DEF TypeOK, Deliver, historyVars
  <2>2. CASE inbox'[s] = inbox[s]
    BY <2>1, <2>2 DEF Early
  <2>3. CASE inbox'[s] = Append(inbox[s], m)
    <3>1. inbox'[s][k] = m \/ (k \in 1 .. Len(inbox[s]) /\ inbox'[s][k] = inbox[s][k])
      BY <2>1, <2>3
    <3>2. ~Outranks(n, m)
      BY <1>2, <2>1, OutranksIsHigher DEF Deliver
    <3> QED
      BY <2>1, <3>1, <3>2 DEF Early
  <2> QED
    BY <1>2, <2>2, <2>3 DEF Deliver, TypeOK
<1>3. ASSUME NEW r \in Runners, Open(r) \/ ConnectionRecovers(r) PROVE Early'
  BY <1>3, SamePrefetched DEF Open, ConnectionRecovers, runnerVars, historyVars
<1>4. ASSUME NEW r \in Runners, LocalStep(r) PROVE Early'
  <2>1. ready' = ready /\ ahead' = ahead
    BY <1>4 DEF LocalStep, BeginLoop, NextTuple, SettleThrows, NextTupleThrows, EndLoop, Stop,
                brokerVars, historyVars
  <2>2. \A s \in Runners : \/ inbox'[s] = inbox[s]
                           \/ inbox[s] # <<>> /\ inbox'[s] = Tail(inbox[s])
    <3>1. CASE NextTuple(r)
      <4>1. inbox' = [inbox EXCEPT ![r] = Tail(inbox[r])] /\ inbox[r] # <<>>
        BY <3>1 DEF NextTuple
      <4>2. inbox \in [Runners -> Seq(Messages)]
        BY DEF TypeOK
      <4> QED
        BY <4>1, <4>2
    <3>2. CASE ~NextTuple(r)
      <4>1. inbox' = inbox
        BY <1>4, <3>2 DEF LocalStep, BeginLoop, SettleThrows, NextTupleThrows, EndLoop, Stop
      <4> QED
        BY <4>1
    <3> QED
      BY <3>1, <3>2
  <2> QED
    BY <2>1, <2>2, FewerPrefetched
<1>5. ASSUME NEW r \in Runners, NEW how \in {"acked", "rejected"}, Settle(r, how) PROVE Early'
  BY <1>5, SamePrefetched DEF Settle, historyVars
<1>6. ASSUME NEW r \in Runners, ConnectionLost(r) \/ ProcessDies(r) PROVE Early'
  <2>1. \A s \in Runners : inbox'[s] = inbox[s] \/ inbox'[s] = <<>>
    BY <1>6 DEF TypeOK, ConnectionLost, ProcessDies
  <2>2. ReturnUnacked(r)
    BY <1>6 DEF ConnectionLost, ProcessDies
  <2> QED
    BY <2>1, <2>2, ReturnEarly
<1>7. CASE UNCHANGED vars
  BY <1>7, SamePrefetched DEF vars, brokerVars, runnerVars, historyVars
<1> QED
  BY <1>1, <1>2, <1>3, <1>4, <1>5, <1>6, <1>7, NextSplit

\* Only NextTuple begins a call, on the head of the runner's local queue.
LEMMA BeginsOnHead ==
  ASSUME TypeOK, [Next]_vars, starts' # starts, NEW r \in Runners, tuple'[r] # tuple[r]
  PROVE  inbox[r] # <<>> /\ tuple'[r] = inbox[r][1]
<1>1. PICK q \in Runners : NextTuple(q)
  BY NextSplit DEF Push, Deliver, Open, LocalStep, BeginLoop, SettleThrows, NextTupleThrows,
     EndLoop, Stop, Settle, ConnectionLost, ConnectionRecovers, ProcessDies, vars, historyVars
<1>2. q = r
  BY <1>1 DEF NextTuple, TypeOK
<1> QED
  BY <1>1, <1>2 DEF NextTuple, TypeOK

(* While a message is in the queue, a runner begins one of a lower         *)
(* priority only if that one had been prefetched before the other came:    *)
(* what waits behind low priorities is bounded by the prefetch counts.     *)
THEOREM OnlyPrefetchedOvertake == Spec => OvertakenOnlyByPrefetched
<1>1. Init => Early
  BY DEF Init, Early
<1>2. TypeOK /\ Early /\ [Next]_vars =>
        [\A r \in Runners, n \in ready :
           starts' # starts /\ tuple[r] # tuple'[r] /\ Outranks(n, tuple'[r])
             => tuple'[r] \in ahead[n]]_vars
  <2> SUFFICES ASSUME TypeOK, Early, [Next]_vars, NEW r \in Runners, NEW n \in ready,
                      starts' # starts, tuple[r] # tuple'[r], Outranks(n, tuple'[r])
               PROVE  tuple'[r] \in ahead[n]
    OBVIOUS
  <2>1. inbox[r] # <<>> /\ tuple'[r] = inbox[r][1]
    BY BeginsOnHead
  <2>2. 1 \in 1 .. Len(inbox[r])
    BY <2>1 DEF TypeOK
  <2> QED
    BY <2>1, <2>2 DEF Early
<1> QED
  BY <1>1, <1>2, StepEarly, TypeCorrect, PTL DEF Spec, OvertakenOnlyByPrefetched
=============================================================================
