-------------------------- MODULE DataRequest_proofs --------------------------
(***************************************************************************)
(* Proofs about data requests, for any number of requests, broadcasts and  *)
(* faults.                                                                 *)
(*                                                                         *)
(* EntryInv is inductive together with TypeOK and says when a request can  *)
(* have an entry at all.  SaveInv adds why saves are told of in the order  *)
(* they were made: once one got to its service none before it waits for    *)
(* the server, and the worker's messages keep the order in which they were *)
(* dispatched.                                                             *)
(***************************************************************************)
EXTENDS DataRequest, SequenceTheorems, TLAPS

Open == {"none", "made"}

EntryInv ==
  /\ \A r \in Ids : promise[r] = "none" <=> r > currentDataRequestId
  /\ \A r \in Ids : cancel[r] # "no" => promise[r] # "none"
  /\ \A r \in Ids : cancel[r] = "done" => promise[r] = "pending"
  /\ EntriesMatchPromises

IInv == TypeOK /\ EntryInv

\* A message of the batch answers r
Holds(batch, r) == \E i \in DOMAIN batch : batch[i].requestId = r

\* The answer of r is on its way
OnItsWay(c, r) == Holds(c.queue, r) \/ \E i \in DOMAIN c.sent : Holds(c.sent[i], r)

\* No answer of q is in a later batch than an answer of r
NotAfter(c, q, r) ==
  \A i \in DOMAIN c.sent :
    Holds(c.sent[i], r) =>
      /\ ~Holds(c.queue, q)
      /\ \A j \in DOMAIN c.sent : i < j => ~Holds(c.sent[j], q)

TwoSaves(q, r) == q < r /\ method[q] = "save" /\ method[r] = "save"

\* Requests are registered in order, and only a registered one is with the worker
WorkInv ==
  /\ \A q, r \in Ids : q < r /\ promise[r] \notin Open => promise[q] \notin Open
  /\ \A r \in Ids : work[r] # "none" => promise[r] \notin Open
  /\ \A r \in Ids : promise[r] = "fulfilled" \/ OnItsWay(channel, r) => work[r] = "answered"
  /\ \A q, r \in Ids :
       TwoSaves(q, r) /\ work[r] \in {"running", "answered", "aborted"}
       => work[q] \notin {"posted", "running"}

OrderInv ==
  \A q, r \in Ids :
    TwoSaves(q, r) =>
      /\ NotAfter(channel, q, r)
      /\ promise[r] = "fulfilled" => ~OnItsWay(channel, q)

SaveInv == WorkInv /\ OrderInv
-----------------------------------------------------------------------------
(* The worker's channel, under its dispatches.                             *)

Channels == [queue : Seq(Messages), timer : BOOLEAN, recent : BOOLEAN, sent : Seq(Seq(Messages))]

LEMMA DispatchedMessages ==
  /\ Rebroadcast \in Messages /\ Rebroadcast.requestId = 0
  /\ Update \in Messages /\ Update.requestId = 0
  /\ \A r \in Ids, success, cloneable \in BOOLEAN :
       /\ Completed(r, success, cloneable) \in Messages
       /\ Completed(r, success, cloneable).requestId = r
  BY DEF Rebroadcast, Update, Completed, Message, Messages

\* Draining the queue keeps the type, the messages and their order.
LEMMA DrainKeeps ==
  ASSUME NEW c \in Channels
  PROVE  /\ DrainMessageQueue(c) \in Channels
         /\ \A r \in Ids : OnItsWay(DrainMessageQueue(c), r) => OnItsWay(c, r)
         /\ \A q, r \in Ids : NotAfter(c, q, r) => NotAfter(DrainMessageQueue(c), q, r)
<1> DEFINE d == DrainMessageQueue(c)
<1>1. CASE ~Cloneable(c.queue)
  BY <1>1 DEF DrainMessageQueue
<1>2. CASE Cloneable(c.queue)
  <2>1. d = [c EXCEPT !.queue = <<>>, !.recent = TRUE, !.sent = Append(c.sent, c.queue)]
    BY <1>2 DEF DrainMessageQueue
  <2>2. d.queue = <<>> /\ d.sent = Append(c.sent, c.queue)
    BY <2>1 DEF Channels
  <2>3. d \in Channels
    <3>1. /\ Append(c.sent, c.queue) \in Seq(Seq(Messages))
          /\ <<>> \in Seq(Messages)
      BY DEF Channels
    <3> HIDE DEF d
    <3>2. QED
      BY <2>1, <3>1 DEF Channels
  <2>4. /\ Len(d.sent) = Len(c.sent) + 1
        /\ DOMAIN c.sent = 1 .. Len(c.sent)
        /\ DOMAIN d.sent = 1 .. Len(c.sent) + 1
        /\ \A i \in DOMAIN c.sent : d.sent[i] = c.sent[i]
        /\ d.sent[Len(c.sent) + 1] = c.queue
        /\ Len(c.sent) \in Nat
    BY <2>2 DEF Channels
  <2>5. \A r \in Ids : ~Holds(d.queue, r)
    BY <2>2 DEF Holds
  <2>6. \A r \in Ids : OnItsWay(d, r) => OnItsWay(c, r)
    BY <2>4, <2>5 DEF OnItsWay
  <2>7. ASSUME NEW q \in Ids, NEW r \in Ids, NotAfter(c, q, r)
        PROVE  NotAfter(d, q, r)
    BY <2>4, <2>5, <2>7 DEF NotAfter
  <2>8. QED
    BY <2>3, <2>6, <2>7
<1>3. QED
  BY <1>1, <1>2

\* So does dispatching a message, when it answers no request whose successor's answer is on its way.
LEMMA DispatchKeeps ==
  ASSUME NEW c \in Channels, NEW m \in Messages
  PROVE  /\ DispatchMain(c, m) \in Channels
         /\ \A r \in Ids : OnItsWay(DispatchMain(c, m), r) => OnItsWay(c, r) \/ m.requestId = r
         /\ \A q, r \in Ids :
              NotAfter(c, q, r) /\ (m.requestId = q => ~OnItsWay(c, r))
              => NotAfter(DispatchMain(c, m), q, r)
<1> DEFINE p == [c EXCEPT !.queue = Append(c.queue, m), !.timer = FALSE]
           t == [p EXCEPT !.timer = TRUE]
<1>1. p \in Channels /\ t \in Channels
  <2>1. Append(c.queue, m) \in Seq(Messages)
    BY DEF Channels
  <2>2. QED
    BY <2>1 DEF Channels
<1>2. /\ p.queue = Append(c.queue, m) /\ p.sent = c.sent
      /\ t.queue = Append(c.queue, m) /\ t.sent = c.sent
  BY DEF Channels
<1>3. \A r : Holds(Append(c.queue, m), r) <=> Holds(c.queue, r) \/ m.requestId = r
  <2>1. /\ DOMAIN Append(c.queue, m) = 1 .. Len(c.queue) + 1
        /\ DOMAIN c.queue = 1 .. Len(c.queue)
        /\ Len(c.queue) \in Nat
        /\ \A i \in DOMAIN c.queue : Append(c.queue, m)[i] = c.queue[i]
        /\ Append(c.queue, m)[Len(c.queue) + 1] = m
    BY DEF Channels
  <2> HIDE DEF p, t
  <2>2. QED
    BY <2>1 DEF Holds
<1>4. /\ \A r \in Ids : OnItsWay(p, r) => OnItsWay(c, r) \/ m.requestId = r
      /\ \A r \in Ids : OnItsWay(t, r) => OnItsWay(c, r) \/ m.requestId = r
  <2> HIDE DEF p, t
  <2>1. QED
    BY <1>2, <1>3 DEF OnItsWay
<1>5. \A q, r \in Ids :
        NotAfter(c, q, r) /\ (m.requestId = q => ~OnItsWay(c, r))
        => NotAfter(p, q, r) /\ NotAfter(t, q, r)
  <2> HIDE DEF p, t
  <2>1. QED
    BY <1>2, <1>3 DEF NotAfter, OnItsWay
<1>6. DispatchMain(c, m) = t \/ DispatchMain(c, m) = DrainMessageQueue(p)
  BY DEF DispatchMain
<1> HIDE DEF p, t
<1>7. CASE DispatchMain(c, m) = t
  <2>1. \A r \in Ids : OnItsWay(t, r) => OnItsWay(c, r) \/ m.requestId = r
    BY <1>4, Zenon
  <2>2. \A q, r \in Ids :
          NotAfter(c, q, r) /\ (m.requestId = q => ~OnItsWay(c, r)) => NotAfter(t, q, r)
    BY <1>5
  <2>3. QED
    BY <1>1, <1>7, <2>1, <2>2, Zenon
<1>8. CASE DispatchMain(c, m) = DrainMessageQueue(p)
  <2>1. DrainMessageQueue(p) \in Channels
    BY <1>1, DrainKeeps
  <2>2. \A r \in Ids : OnItsWay(DrainMessageQueue(p), r) => OnItsWay(c, r) \/ m.requestId = r
    <3>1. \A r \in Ids : OnItsWay(DrainMessageQueue(p), r) => OnItsWay(p, r)
      BY <1>1, DrainKeeps
    <3>2. QED
      BY <1>4, <3>1, Zenon
  <2>3. \A q, r \in Ids :
          NotAfter(c, q, r) /\ (m.requestId = q => ~OnItsWay(c, r))
          => NotAfter(DrainMessageQueue(p), q, r)
    BY <1>1, <1>5, DrainKeeps
  <2>4. QED
    BY <1>8, <2>1, <2>2, <2>3, Zenon
<1>9. QED
  BY <1>6, <1>7, <1>8

\* The first batch leaves the channel.
LEMMA BatchTaken ==
  ASSUME NEW c \in Channels, c.sent # <<>>, NEW d, d = [c EXCEPT !.sent = Tail(c.sent)]
  PROVE  /\ d \in Channels
         /\ Head(c.sent) \in Seq(Messages)
         /\ \A r \in Ids : OnItsWay(d, r) => OnItsWay(c, r)
         /\ \A r \in Ids : Holds(Head(c.sent), r) => OnItsWay(c, r)
         /\ \A q, r \in Ids : NotAfter(c, q, r) =>
              /\ NotAfter(d, q, r)
              /\ Holds(Head(c.sent), r) => ~OnItsWay(d, q)
<1>1. /\ d.queue = c.queue /\ d.sent = Tail(c.sent) /\ d \in Channels
      /\ Head(c.sent) \in Seq(Messages)
  <2>1. c.sent \in Seq(Seq(Messages))
    BY DEF Channels
  <2>2. Tail(c.sent) \in Seq(Seq(Messages)) /\ Head(c.sent) \in Seq(Messages)
    BY <2>1, HeadTailProperties
  <2>3. QED
    BY <2>2 DEF Channels
<1>2. /\ Len(c.sent) \in Nat \ {0}
      /\ DOMAIN c.sent = 1 .. Len(c.sent)
      /\ DOMAIN d.sent = 1 .. Len(c.sent) - 1
      /\ \A i \in DOMAIN d.sent : d.sent[i] = c.sent[i + 1]
      /\ Head(c.sent) = c.sent[1]
  BY <1>1, EmptySeq DEF Channels
<1>3. \A r \in Ids : OnItsWay(d, r) => OnItsWay(c, r)
  BY <1>1, <1>2 DEF OnItsWay
<1>4. \A r \in Ids : Holds(Head(c.sent), r) => OnItsWay(c, r)
  BY <1>2 DEF OnItsWay
<1>5. ASSUME NEW q \in Ids, NEW r \in Ids, NotAfter(c, q, r)
      PROVE  /\ NotAfter(d, q, r)
             /\ Holds(Head(c.sent), r) => ~OnItsWay(d, q)
  <2>1. NotAfter(d, q, r)
    <3> SUFFICES ASSUME NEW i \in DOMAIN d.sent, Holds(d.sent[i], r)
                 PROVE  /\ ~Holds(d.queue, q)
                        /\ \A j \in DOMAIN d.sent : i < j => ~Holds(d.sent[j], q)
      BY DEF NotAfter
    <3>1. i + 1 \in DOMAIN c.sent /\ Holds(c.sent[i + 1], r)
      BY <1>2
    <3>2. /\ ~Holds(c.queue, q)
          /\ \A k \in DOMAIN c.sent : i + 1 < k => ~Holds(c.sent[k], q)
      BY <1>5, <3>1 DEF NotAfter
    <3>3. \A j \in DOMAIN d.sent : j + 1 \in DOMAIN c.sent /\ (i < j => i + 1 < j + 1)
      BY <1>2
    <3>4. QED
      BY <1>1, <1>2, <3>2, <3>3
  <2>2. ASSUME Holds(Head(c.sent), r)
        PROVE  ~OnItsWay(d, q)
    <3>1. 1 \in DOMAIN c.sent /\ Holds(c.sent[1], r)
      BY <1>2, <2>2
    <3>2. /\ ~Holds(c.queue, q)
          /\ \A k \in DOMAIN c.sent : 1 < k => ~Holds(c.sent[k], q)
      BY <1>5, <3>1 DEF NotAfter
    <3>3. \A j \in DOMAIN d.sent : j + 1 \in DOMAIN c.sent /\ 1 < j + 1
      BY <1>2
    <3>4. QED
      BY <1>1, <1>2, <3>2, <3>3 DEF OnItsWay
  <2>3. QED
    BY <2>1, <2>2
<1>6. QED
  BY <1>1, <1>3, <1>4, <1>5
-----------------------------------------------------------------------------
(* Type correctness.                                                       *)

LEMMA InitType == Init => TypeOK
  BY ConstantsAssumption DEF Init, TypeOK, Ids, Methods

PageTypes ==
  /\ currentDataRequestId \in 0 .. MaxRequests
  /\ method \in [Ids -> Methods]
  /\ inDom \subseteq Ids
  /\ attached \in BOOLEAN
  /\ requests \subseteq Ids
  /\ timers \subseteq Ids
  /\ promise \in [Ids -> {"none", "made", "pending", "fulfilled", "rejected"}]

OtherTypes ==
  /\ work \in [Ids -> {"none", "posted", "running", "answered", "aborted", "threw"}]
  /\ cancel \in [Ids -> {"no", "early", "done"}]
  /\ lost \subseteq Ids
  /\ broadcasts \in 0 .. MaxBroadcasts
  /\ faults \in 0 .. MaxFaults

LEMMA TypeParts == TypeOK <=> PageTypes /\ OtherTypes /\ channel \in Channels
  BY DEF TypeOK, PageTypes, OtherTypes, Channels

LEMMA StartType ==
  ASSUME TypeOK, NEW r \in Ids, Start(r)
  PROVE  TypeOK'
<1>1. PageTypes'
  BY DEF TypeOK, PageTypes, Start, StartRequest, StartThrows, SaveUnchanged, pageVars
<1>2. OtherTypes'
  BY DEF TypeOK, OtherTypes, Start, StartRequest, StartThrows, SaveUnchanged, AbortPrevious,
         pageVars, historyVars
<1>3. channel' \in Channels
  <2>1. channel \in Channels
    BY TypeParts
  <2>2. channel' = channel \/ channel' = DispatchMain(channel, Completed(r, TRUE, TRUE))
    BY DEF Start, StartRequest, StartThrows, SaveUnchanged
  <2>3. QED
    BY <2>1, <2>2, DispatchKeeps, DispatchedMessages
<1>4. QED
  BY <1>1, <1>2, <1>3 DEF TypeOK, PageTypes, OtherTypes, Channels

LEMMA AnswerType ==
  ASSUME TypeOK, NEW r \in Ids, Answer(r)
  PROVE  TypeOK'
<1>1. PageTypes' /\ OtherTypes'
  <2>1. PageTypes'
    BY TypeParts DEF PageTypes, Answer, pageVars
  <2>2. faults' \in 0 .. MaxFaults
    <3>1. faults' = faults \/ (faults < MaxFaults /\ faults' = faults + 1)
      BY Zenon DEF Answer
    <3>2. QED
      BY <3>1, ConstantsAssumption DEF TypeOK
  <2>3. work' = [work EXCEPT ![r] = "answered"] /\ UNCHANGED <<cancel, lost, broadcasts>>
    BY DEF Answer
  <2>4. OtherTypes'
    BY <2>2, <2>3, TypeParts DEF OtherTypes
  <2>5. QED
    BY <2>1, <2>4
<1>2. \E m \in Messages : channel' = DispatchMain(channel, m)
  BY DispatchedMessages DEF Answer
<1>3. channel' \in Channels
  BY <1>2, TypeParts, DispatchKeeps
<1>4. QED
  BY <1>1, <1>3 DEF TypeOK, PageTypes, OtherTypes, Channels

LEMMA BroadcastType ==
  ASSUME TypeOK, Broadcast
  PROVE  TypeOK'
<1>1. PageTypes' /\ OtherTypes'
  BY ConstantsAssumption DEF TypeOK, PageTypes, OtherTypes, Broadcast, pageVars
<1>2. DispatchMain(channel, Update) \in Channels
  BY TypeParts, DispatchKeeps, DispatchedMessages
<1>3. channel' \in Channels
  BY <1>2, TypeParts, DispatchKeeps, DispatchedMessages DEF Broadcast
<1>4. QED
  BY <1>1, <1>3 DEF TypeOK, PageTypes, OtherTypes, Channels

LEMMA ChannelTimersType ==
  ASSUME TypeOK, DrainTimeout \/ SendRatePasses
  PROVE  TypeOK'
<1>1. PageTypes'
  BY DEF TypeOK, PageTypes, DrainTimeout, SendRatePasses, pageVars
<1>5. OtherTypes'
  BY DEF TypeOK, OtherTypes, DrainTimeout, SendRatePasses, historyVars
<1>2. channel \in Channels
  BY TypeParts
<1>3. [channel EXCEPT !.timer = FALSE] \in Channels /\ [channel EXCEPT !.recent = FALSE] \in Channels
  BY <1>2 DEF Channels
<1>4. channel' \in Channels
  BY <1>3, DrainKeeps DEF DrainTimeout, SendRatePasses
<1>6. QED
  BY <1>1, <1>4, <1>5 DEF TypeOK, PageTypes, OtherTypes, Channels

\* What a batch does to the state of the page.
LEMMA Processed ==
  ASSUME TypeOK, ProcessBatch
  PROVE  \E batch \in Seq(Messages), n \in Nat :
           /\ batch = Head(channel.sent)
           /\ channel.sent # <<>>
           /\ channel' = [channel EXCEPT !.sent = Tail(channel.sent)]
           /\ n \in HandledUpTo(batch)
           /\ requests' = requests \ (AnsweredIn(batch, n) \cap requests)
           /\ timers' = timers \ (AnsweredIn(batch, n) \cap requests)
           /\ promise' = [r \in Ids |->
                IF r \in AnsweredIn(batch, n) \cap requests
                THEN IF SuccessIn(batch, r) THEN "fulfilled" ELSE "rejected"
                ELSE promise[r]]
           /\ lost' = lost \cup (AnsweredIn(batch, Len(batch)) \ AnsweredIn(batch, n))
           /\ faults' = IF n = Len(batch) THEN faults ELSE faults + 1
<1>1. channel \in Channels /\ channel.sent # <<>>
  BY TypeParts DEF ProcessBatch
<1>2. Head(channel.sent) \in Seq(Messages)
  BY <1>1, HeadTailProperties DEF Channels
<1>3. PICK n \in HandledUpTo(Head(channel.sent)) :
        LET batch == Head(channel.sent)
            found == AnsweredIn(batch, n) \cap requests
        IN  /\ requests' = requests \ found
            /\ timers' = timers \ found
            /\ promise' = [r \in Ids |->
                 IF r \in found
                 THEN IF SuccessIn(batch, r) THEN "fulfilled" ELSE "rejected"
                 ELSE promise[r]]
            /\ lost' = lost \cup (AnsweredIn(batch, Len(batch)) \ AnsweredIn(batch, n))
            /\ faults' = IF n = Len(batch) THEN faults ELSE faults + 1
  BY DEF ProcessBatch
<1>4. n \in Nat
  BY <1>2 DEF HandledUpTo
<1>5. channel' = [channel EXCEPT !.sent = Tail(channel.sent)]
  BY DEF ProcessBatch
<1>6. QED
  BY <1>1, <1>2, <1>3, <1>4, <1>5

\* A batch answers ids of requests, and says so by its messages.
LEMMA BatchAnswers ==
  ASSUME NEW batch \in Seq(Messages)
  PROVE  /\ AnsweredIn(batch, Len(batch)) \subseteq Ids
         /\ \A r \in Ids : SuccessIn(batch, r) => Holds(batch, r)
<1>1. \A i \in 1 .. Len(batch) : batch[i] \in Messages
  BY ElementOfSeq
<1>2. QED
  BY <1>1 DEF AnsweredIn, SuccessIn, Holds, Messages

LEMMA ProcessBatchType ==
  ASSUME TypeOK, ProcessBatch
  PROVE  TypeOK'
<1>1. PICK batch \in Seq(Messages), n \in Nat :
        /\ channel.sent # <<>>
        /\ channel' = [channel EXCEPT !.sent = Tail(channel.sent)]
        /\ n \in HandledUpTo(batch)
        /\ requests' = requests \ (AnsweredIn(batch, n) \cap requests)
        /\ timers' = timers \ (AnsweredIn(batch, n) \cap requests)
        /\ promise' = [r \in Ids |->
             IF r \in AnsweredIn(batch, n) \cap requests
             THEN IF SuccessIn(batch, r) THEN "fulfilled" ELSE "rejected"
             ELSE promise[r]]
        /\ lost' = lost \cup (AnsweredIn(batch, Len(batch)) \ AnsweredIn(batch, n))
        /\ faults' = IF n = Len(batch) THEN faults ELSE faults + 1
  BY Processed
<1>2. channel' \in Channels
  BY <1>1, TypeParts, BatchTaken
<1>3. PageTypes'
  BY <1>1 DEF ProcessBatch, TypeOK, PageTypes
<1>4. lost' \subseteq Ids
  BY <1>1, BatchAnswers DEF TypeOK
<1>5. faults' \in 0 .. MaxFaults
  BY <1>1, ConstantsAssumption, SMTT(30) DEF HandledUpTo, TypeOK
<1>6. QED
  BY <1>2, <1>3, <1>4, <1>5 DEF ProcessBatch, TypeOK, PageTypes, Channels

LEMMA TypeStep == TypeOK /\ [Next]_vars => TypeOK'
<1> SUFFICES ASSUME TypeOK, [Next]_vars PROVE TypeOK'
  OBVIOUS
<1>1. ASSUME NEW m \in Methods, DataRequest(m) PROVE TypeOK'
  <2>1. PICK r \in Ids :
          /\ currentDataRequestId' = r
          /\ method' = [method EXCEPT ![r] = m]
          /\ promise' = [promise EXCEPT ![r] = "made"]
          /\ inDom' = inDom \cup {r} \/ inDom' = inDom
    <3> DEFINE n == currentDataRequestId + 1
    <3>1. n \in Ids
      BY <1>1, ConstantsAssumption DEF TypeOK, DataRequest, Ids
    <3>2. /\ currentDataRequestId' = n
          /\ method' = [method EXCEPT ![n] = m]
          /\ promise' = [promise EXCEPT ![n] = "made"]
          /\ inDom' = inDom \cup {n} \/ inDom' = inDom
      BY <1>1 DEF DataRequest
    <3>3. QED
      BY <3>1, <3>2
  <2>2. PageTypes'
    BY <1>1, <2>1, TypeParts, ConstantsAssumption DEF DataRequest, PageTypes, Ids
  <2>3. OtherTypes' /\ channel' = channel
    BY <1>1, TypeParts DEF DataRequest, OtherTypes, workerVars, historyVars
  <2>4. QED
    BY <2>2, <2>3 DEF TypeOK, PageTypes, OtherTypes
<1>2. ASSUME NEW r \in Ids, Register(r) PROVE TypeOK'
  <2>1. PageTypes'
    BY <1>2 DEF TypeOK, PageTypes, Register
  <2>2. OtherTypes'
    BY <1>2, ConstantsAssumption DEF TypeOK, OtherTypes, Register
  <2>3. channel' = channel
    BY <1>2 DEF Register
  <2>4. QED
    BY <2>1, <2>2, <2>3 DEF TypeOK, PageTypes, OtherTypes
<1>3. ASSUME NEW r \in Ids, Cancel(r) PROVE TypeOK'
  BY <1>3 DEF TypeOK, Cancel, workerVars
<1>4. CASE Detach \/ Attach
  BY <1>4 DEF TypeOK, Detach, Attach, workerVars, historyVars
<1>5. ASSUME NEW r \in Ids, Timeout(r) PROVE TypeOK'
  BY <1>5 DEF TypeOK, Timeout, workerVars, historyVars
<1>6. CASE ProcessBatch
  BY <1>6, ProcessBatchType
<1>7. CASE StartNext
  BY <1>7, StartType DEF StartNext
<1>8. CASE AnswerNext
  BY <1>8, AnswerType DEF AnswerNext
<1>9. CASE Broadcast
  BY <1>9, BroadcastType
<1>10. CASE DrainTimeout \/ SendRatePasses
  BY <1>10, ChannelTimersType
<1>11. CASE UNCHANGED vars
  BY <1>11 DEF TypeOK, vars, pageVars, workerVars, historyVars
<1>12. QED
  BY <1>1, <1>2, <1>3, <1>4, <1>5, <1>6, <1>7, <1>8, <1>9, <1>10, <1>11
  DEF Next, RegisterNext, TimeoutNext

(***************************************************************************)
(* The state of the page and of its worker has the types that TypeOK gives *)
(* it, whatever is asked, answered, cancelled or lost.                     *)
(***************************************************************************)
THEOREM TypeCorrect == Spec => []TypeOK
<1>1. Init => TypeOK
  BY InitType
<1>2. TypeOK /\ [Next]_vars => TypeOK'
  BY TypeStep
<1>3. QED
  BY <1>1, <1>2, PTL DEF Spec
-----------------------------------------------------------------------------
(* Entries and promises.                                                   *)

entryVars == <<currentDataRequestId, promise, cancel, requests, timers>>

LEMMA InitEntry == Init => EntryInv
  BY ConstantsAssumption DEF Init, EntryInv, EntriesMatchPromises, Ids

\* The steps of the worker leave the page alone.
LEMMA WorkerSteps ==
  ASSUME StartNext \/ AnswerNext \/ Broadcast \/ DrainTimeout \/ SendRatePasses
  PROVE  UNCHANGED <<currentDataRequestId, promise, cancel, requests, timers, method>>
<1>1. CASE StartNext
  BY <1>1 DEF StartNext, Start, StartRequest, StartThrows, SaveUnchanged, pageVars, historyVars
<1>2. CASE AnswerNext
  BY <1>2 DEF AnswerNext, Answer, pageVars
<1>3. CASE Broadcast
  BY <1>3 DEF Broadcast, pageVars
<1>4. CASE DrainTimeout
  BY <1>4 DEF DrainTimeout, pageVars, historyVars
<1>5. CASE SendRatePasses
  BY <1>5 DEF SendRatePasses, pageVars, historyVars
<1>6. QED
  BY <1>1, <1>2, <1>3, <1>4, <1>5

LEMMA ProcessBatchEntry ==
  ASSUME IInv, ProcessBatch
  PROVE  /\ EntryInv'
         /\ \A r \in Ids : promise'[r] # promise[r] => r \in requests
<1>1. PICK batch \in Seq(Messages), n \in Nat :
        /\ requests' = requests \ (AnsweredIn(batch, n) \cap requests)
        /\ timers' = timers \ (AnsweredIn(batch, n) \cap requests)
        /\ promise' = [r \in Ids |->
             IF r \in AnsweredIn(batch, n) \cap requests
             THEN IF SuccessIn(batch, r) THEN "fulfilled" ELSE "rejected"
             ELSE promise[r]]
  BY Processed DEF IInv
<1>2. UNCHANGED <<currentDataRequestId, cancel>>
  BY DEF ProcessBatch
<1>3. QED
  BY <1>1, <1>2 DEF IInv, TypeOK, EntryInv, EntriesMatchPromises

LEMMA EntryStep == IInv /\ [Next]_vars => EntryInv'
<1> SUFFICES ASSUME IInv, [Next]_vars PROVE EntryInv'
  OBVIOUS
<1> USE DEF IInv, EntryInv, EntriesMatchPromises
<1>1. ASSUME NEW m \in Methods, DataRequest(m) PROVE EntryInv'
  <2> DEFINE n == currentDataRequestId + 1
  <2>1. /\ n \in Ids
        /\ currentDataRequestId' = n
        /\ promise' = [promise EXCEPT ![n] = "made"]
        /\ UNCHANGED <<requests, timers, cancel>>
    BY <1>1, ConstantsAssumption DEF TypeOK, DataRequest, Ids, historyVars
  <2>2. QED
    BY <2>1, ConstantsAssumption DEF TypeOK, Ids
<1>2. ASSUME NEW r \in Ids, Register(r) PROVE EntryInv'
  <2>1. /\ promise[r] = "made"
        /\ promise' = [promise EXCEPT ![r] = "pending"]
        /\ requests' = requests \cup {r}
        /\ timers' = timers \cup {r} \/ timers' = timers
        /\ UNCHANGED <<currentDataRequestId, cancel>>
    BY <1>2 DEF Register
  <2>2. QED
    BY <2>1 DEF TypeOK
<1>3. ASSUME NEW r \in Ids, Cancel(r) PROVE EntryInv'
  BY <1>3 DEF TypeOK, Cancel
<1>4. CASE Detach \/ Attach
  BY <1>4 DEF Detach, Attach, historyVars
<1>5. ASSUME NEW r \in Ids, Timeout(r) PROVE EntryInv'
  BY <1>5 DEF TypeOK, Timeout, historyVars
<1>6. CASE ProcessBatch
  BY <1>6, ProcessBatchEntry
<1>7. CASE StartNext \/ AnswerNext \/ Broadcast \/ DrainTimeout \/ SendRatePasses
  BY <1>7, WorkerSteps
<1>8. CASE UNCHANGED vars
  BY <1>8 DEF vars, pageVars, historyVars
<1>9. QED
  BY <1>1, <1>2, <1>3, <1>4, <1>5, <1>6, <1>7, <1>8 DEF Next, RegisterNext, TimeoutNext

LEMMA Inductive == Spec => []IInv
<1>1. Init => IInv
  BY InitType, InitEntry DEF IInv
<1>2. IInv /\ [Next]_vars => IInv'
  BY TypeStep, EntryStep DEF IInv
<1>3. QED
  BY <1>1, <1>2, PTL DEF Spec

(***************************************************************************)
(* A request has an entry exactly while it is registered, open and not     *)
(* cancelled, and a timer only with an entry, for any number of requests.  *)
(***************************************************************************)
THEOREM EntriesMatch == Spec => []EntriesMatchPromises
<1>1. IInv => EntriesMatchPromises
  BY DEF IInv, EntryInv
<1>2. QED
  BY <1>1, Inductive, PTL

(***************************************************************************)
(* No message, time-out or registration settles a promise that was         *)
(* cancelled when it had an entry.                                         *)
(***************************************************************************)
THEOREM CancelledSilent == Spec => CancelledStaysSilent
<1> DEFINE Silent == \A r \in Ids : cancel[r] = "done" => promise'[r] = promise[r]
<1>1. IInv /\ [Next]_vars => [Silent]_vars
  <2> SUFFICES ASSUME IInv, [Next]_vars, NEW r \in Ids, cancel[r] = "done"
               PROVE  promise'[r] = promise[r]
    OBVIOUS
  <2>1. promise[r] = "pending" /\ r \notin requests /\ r \notin timers
    BY DEF IInv, EntryInv, EntriesMatchPromises
  <2>2. ASSUME NEW m \in Methods, DataRequest(m) PROVE promise'[r] = promise[r]
    <3>1. promise' = [promise EXCEPT ![currentDataRequestId + 1] = "made"]
          /\ currentDataRequestId + 1 \in Ids
      BY <2>2, ConstantsAssumption DEF DataRequest, IInv, TypeOK, Ids
    <3>2. promise[currentDataRequestId + 1] = "none"
      BY <3>1, ConstantsAssumption DEF IInv, TypeOK, EntryInv, Ids
    <3>3. QED
      BY <2>1, <3>1, <3>2 DEF IInv, TypeOK
  <2>3. ASSUME NEW q \in Ids, Register(q) PROVE promise'[r] = promise[r]
    BY <2>1, <2>3 DEF Register, IInv, TypeOK
  <2>4. ASSUME NEW q \in Ids, Cancel(q) PROVE promise'[r] = promise[r]
    BY <2>4 DEF Cancel
  <2>5. CASE Detach \/ Attach
    BY <2>5 DEF Detach, Attach
  <2>6. ASSUME NEW q \in Ids, Timeout(q) PROVE promise'[r] = promise[r]
    BY <2>1, <2>6 DEF Timeout, IInv, TypeOK
  <2>7. CASE ProcessBatch
    BY <2>1, <2>7, ProcessBatchEntry
  <2>8. CASE StartNext \/ AnswerNext \/ Broadcast \/ DrainTimeout \/ SendRatePasses
    BY <2>8, WorkerSteps
  <2>9. CASE UNCHANGED vars
    BY <2>9 DEF vars, pageVars
  <2>10. QED
    BY <2>2, <2>3, <2>4, <2>5, <2>6, <2>7, <2>8, <2>9 DEF Next, RegisterNext, TimeoutNext
<1>2. QED
  BY <1>1, Inductive, PTL DEF Spec, CancelledStaysSilent
-----------------------------------------------------------------------------
(* The order of saves.                                                     *)

\* What each step does to the state of saves.
LEMMA DataRequestSaves ==
  ASSUME IInv, NEW m \in Methods, DataRequest(m)
  PROVE  \E n \in Ids :
           /\ \A r \in Ids : promise[r] = "none" <=> r >= n
           /\ method' = [method EXCEPT ![n] = m]
           /\ promise' = [promise EXCEPT ![n] = "made"]
           /\ UNCHANGED <<work, channel>>
<1> DEFINE n == currentDataRequestId + 1
<1>1. n \in Ids
  BY ConstantsAssumption DEF IInv, TypeOK, DataRequest, Ids
<1>2. \A r \in Ids : promise[r] = "none" <=> r >= n
  BY ConstantsAssumption DEF IInv, TypeOK, EntryInv, Ids
<1>3. /\ method' = [method EXCEPT ![n] = m]
      /\ promise' = [promise EXCEPT ![n] = "made"]
      /\ UNCHANGED <<work, channel>>
  BY DEF DataRequest, workerVars
<1>4. QED
  BY <1>1, <1>2, <1>3

LEMMA RegisterSaves ==
  ASSUME IInv, NEW r \in Ids, Register(r)
  PROVE  /\ promise[r] = "made"
         /\ \A q \in Ids : q < r => promise[q] \notin Open
         /\ promise' = [promise EXCEPT ![r] = "pending"]
         /\ \/ work' = work
            \/ work' = [work EXCEPT ![r] = "posted"]
            \/ work' = [work EXCEPT ![r] = "threw"]
         /\ UNCHANGED <<method, channel>>
<1>1. \A q \in Ids : q < r => promise[q] # "none"
  BY ConstantsAssumption DEF IInv, TypeOK, EntryInv, Register, Ids
<1>2. QED
  BY <1>1 DEF Register, Open

\* A request starts when every save before it has, and then no save before it runs.
LEMMA StartSaves ==
  ASSUME IInv, NEW r \in Ids, Start(r)
  PROVE  /\ work[r] = "posted"
         /\ method[r] = "save" =>
              \A q \in Ids : q < r /\ method[q] = "save" => work[q] # "posted"
         /\ work'[r] \in {"running", "threw", "answered"}
         /\ \A q \in Ids \ {r} :
              work'[q] = IF method[r] = "save" /\ method[q] = "save" /\ work[q] = "running"
                         THEN "aborted" ELSE work[q]
         /\ \/ channel' = channel
            \/ work'[r] = "answered" /\ channel' = DispatchMain(channel, Completed(r, TRUE, TRUE))
         /\ UNCHANGED <<method, promise>>
  BY DEF IInv, TypeOK, Start, StartRequest, StartThrows, SaveUnchanged, AbortPrevious,
         FirstOfItsService, pageVars

LEMMA AnswerSaves ==
  ASSUME IInv, NEW r \in Ids, Answer(r)
  PROVE  /\ work[r] = "running"
         /\ work' = [work EXCEPT ![r] = "answered"]
         /\ \E m \in Messages : m.requestId = r /\ channel' = DispatchMain(channel, m)
         /\ UNCHANGED <<method, promise>>
<1>1. \E m \in Messages : m.requestId = r /\ channel' = DispatchMain(channel, m)
  BY DispatchedMessages DEF Answer
<1>2. QED
  BY <1>1 DEF Answer, pageVars

\* Broadcasts and timers add no answer, and keep the order of those on their way.
LEMMA NeutralSaves ==
  ASSUME IInv, Broadcast \/ DrainTimeout \/ SendRatePasses
  PROVE  /\ UNCHANGED <<promise, method, work>>
         /\ \A r \in Ids : OnItsWay(channel', r) => OnItsWay(channel, r)
         /\ \A q, r \in Ids : NotAfter(channel, q, r) => NotAfter(channel', q, r)
<1>1. channel \in Channels
  BY TypeParts DEF IInv
<1>2. ASSUME NEW c \in Channels, NEW m \in Messages, m.requestId = 0
      PROVE  /\ \A r \in Ids : OnItsWay(DispatchMain(c, m), r) => OnItsWay(c, r)
             /\ \A q, r \in Ids : NotAfter(c, q, r) => NotAfter(DispatchMain(c, m), q, r)
  <2>1. \A r \in Ids : m.requestId # r
    BY <1>2 DEF Ids
  <2>2. QED
    BY <2>1, DispatchKeeps
<1>3. CASE Broadcast
  <2>1. UNCHANGED <<promise, method, work>>
    BY <1>3 DEF Broadcast, pageVars
  <2> DEFINE d == DispatchMain(channel, Update)
  <2>2. /\ d \in Channels
        /\ \A r \in Ids : OnItsWay(d, r) => OnItsWay(channel, r)
        /\ \A q, r \in Ids : NotAfter(channel, q, r) => NotAfter(d, q, r)
    BY <1>1, <1>2, DispatchKeeps, DispatchedMessages
  <2>3. \/ channel' = DispatchMain(channel, Rebroadcast)
        \/ channel' = DispatchMain(d, Rebroadcast)
    BY <1>3 DEF Broadcast
  <2> HIDE DEF d
  <2>4. CASE channel' = DispatchMain(channel, Rebroadcast)
    BY <1>1, <1>2, <2>1, <2>4, DispatchedMessages
  <2>5. CASE channel' = DispatchMain(d, Rebroadcast)
    <3>1. /\ \A r \in Ids : OnItsWay(DispatchMain(d, Rebroadcast), r) => OnItsWay(d, r)
          /\ \A q, r \in Ids : NotAfter(d, q, r) => NotAfter(DispatchMain(d, Rebroadcast), q, r)
      BY <1>2, <2>2, DispatchedMessages
    <3>2. QED
      BY <2>1, <2>2, <2>5, <3>1
  <2>6. QED
    BY <2>3, <2>4, <2>5
<1>4. CASE DrainTimeout
  <2> DEFINE d == [channel EXCEPT !.timer = FALSE]
  <2>1. d \in Channels /\ d.queue = channel.queue /\ d.sent = channel.sent
    BY <1>1 DEF Channels
  <2>2. /\ \A r \in Ids : OnItsWay(d, r) => OnItsWay(channel, r)
        /\ \A q, r \in Ids : NotAfter(channel, q, r) => NotAfter(d, q, r)
    BY <2>1 DEF OnItsWay, NotAfter
  <2>3. channel' = DrainMessageQueue(d) /\ UNCHANGED <<promise, method, work>>
    BY <1>4 DEF DrainTimeout, pageVars
  <2> HIDE DEF d
  <2>4. QED
    BY <2>1, <2>2, <2>3, DrainKeeps
<1>5. CASE SendRatePasses
  <2>1. channel'.queue = channel.queue /\ channel'.sent = channel.sent
    BY <1>1, <1>5 DEF Channels, SendRatePasses
  <2>2. UNCHANGED <<promise, method, work>>
    BY <1>5 DEF SendRatePasses, pageVars
  <2>3. QED
    BY <2>1, <2>2 DEF OnItsWay, NotAfter
<1>6. QED
  BY <1>3, <1>4, <1>5

\* A batch fulfils only requests it holds an answer of.
LEMMA ProcessBatchSaves ==
  ASSUME IInv, ProcessBatch
  PROVE  /\ \A r \in Ids : promise'[r] \in Open <=> promise[r] \in Open
         /\ \A r \in Ids : promise'[r] = "fulfilled" =>
              \/ promise[r] = "fulfilled"
              \/ Holds(Head(channel.sent), r)
         /\ channel \in Channels /\ channel.sent # <<>>
         /\ channel' = [channel EXCEPT !.sent = Tail(channel.sent)]
         /\ UNCHANGED <<method, work>>
<1>1. PICK batch \in Seq(Messages), n \in Nat :
        /\ batch = Head(channel.sent)
        /\ channel.sent # <<>>
        /\ channel' = [channel EXCEPT !.sent = Tail(channel.sent)]
        /\ promise' = [r \in Ids |->
             IF r \in AnsweredIn(batch, n) \cap requests
             THEN IF SuccessIn(batch, r) THEN "fulfilled" ELSE "rejected"
             ELSE promise[r]]
  BY Processed DEF IInv
<1>2. \A r \in Ids : SuccessIn(batch, r) => Holds(batch, r)
  BY BatchAnswers
<1>3. \A r \in requests : promise[r] = "pending"
  BY DEF IInv, EntryInv, EntriesMatchPromises
<1>4. channel \in Channels
  BY TypeParts DEF IInv
<1>5. UNCHANGED <<method, work>>
  BY DEF ProcessBatch
<1>6. QED
  BY <1>1, <1>2, <1>3, <1>4, <1>5 DEF Open
\* The other steps of the page only reject what is open.
LEMMA PageSaves ==
  ASSUME IInv, (\E r \in Ids : Cancel(r) \/ Timeout(r)) \/ Detach \/ Attach \/ UNCHANGED vars
  PROVE  /\ \A r \in Ids : promise'[r] = promise[r] \/ (promise[r] = "pending" /\ promise'[r] = "rejected")
         /\ UNCHANGED <<method, work, channel>>
<1>1. ASSUME NEW r \in Ids, Cancel(r)
      PROVE  UNCHANGED <<promise, method, work, channel>>
  BY <1>1 DEF Cancel, workerVars
<1>2. ASSUME NEW r \in Ids, Timeout(r)
      PROVE  /\ promise' = promise \/ (promise[r] = "pending" /\ promise' = [promise EXCEPT ![r] = "rejected"])
             /\ UNCHANGED <<method, work, channel>>
  BY <1>2 DEF Timeout, workerVars, IInv, EntryInv, EntriesMatchPromises
<1>3. CASE Detach \/ Attach \/ UNCHANGED vars
  BY <1>3 DEF Detach, Attach, vars, pageVars, workerVars
<1>4. QED
  BY <1>1, <1>2, <1>3 DEF IInv, TypeOK

LEMMA InitSave == Init => SaveInv
<1> SUFFICES ASSUME Init PROVE SaveInv
  OBVIOUS
<1>1. \A r \in Ids : ~OnItsWay(channel, r)
  BY DEF Init, OnItsWay, Holds
<1>2. WorkInv
  BY <1>1 DEF Init, WorkInv, Open
<1>3. OrderInv
  BY DEF Init, OrderInv, NotAfter
<1>4. QED
  BY <1>2, <1>3 DEF SaveInv

LEMMA WorkStep == IInv /\ WorkInv /\ [Next]_vars => WorkInv'
<1> SUFFICES ASSUME IInv, WorkInv, [Next]_vars PROVE WorkInv'
  OBVIOUS
<1>0. channel \in Channels
  BY TypeParts DEF IInv
<1>1. ASSUME NEW m \in Methods, DataRequest(m) PROVE WorkInv'
  <2>1. PICK n \in Ids :
          /\ \A r \in Ids : promise[r] = "none" <=> r >= n
          /\ method' = [method EXCEPT ![n] = m]
          /\ promise' = [promise EXCEPT ![n] = "made"]
          /\ UNCHANGED <<work, channel>>
    BY <1>1, DataRequestSaves
  <2>2. \A r \in Ids : promise'[r] \in Open <=> promise[r] \in Open
    BY <2>1 DEF Open, IInv, TypeOK, Ids
  <2>3. \A r \in Ids : promise'[r] = "fulfilled" => promise[r] = "fulfilled"
    BY <2>1 DEF IInv, TypeOK
  <2>4. work[n] = "none" /\ \A r \in Ids : r > n => work[r] = "none"
    BY <2>1 DEF WorkInv, Open, Ids
  <2>5. ASSUME NEW q \in Ids, NEW r \in Ids, TwoSaves(q, r)',
               work'[r] \in {"running", "answered", "aborted"}
        PROVE  work'[q] \notin {"posted", "running"}
    <3>1. CASE q = n \/ r = n
      BY <2>1, <2>4, <2>5, <3>1 DEF TwoSaves
    <3>2. CASE q # n /\ r # n
      <4>1. TwoSaves(q, r)
        BY <2>1, <2>5, <3>2 DEF TwoSaves, IInv, TypeOK
      <4>2. QED
        BY <2>1, <2>5, <4>1 DEF WorkInv
    <3>3. QED
      BY <3>1, <3>2
  <2>6. QED
    BY <2>1, <2>2, <2>3, <2>5 DEF WorkInv
<1>2. ASSUME NEW r \in Ids, Register(r) PROVE WorkInv'
  <2>1. /\ promise[r] = "made"
        /\ \A q \in Ids : q < r => promise[q] \notin Open
        /\ promise' = [promise EXCEPT ![r] = "pending"]
        /\ \/ work' = work
           \/ work' = [work EXCEPT ![r] = "posted"]
           \/ work' = [work EXCEPT ![r] = "threw"]
        /\ UNCHANGED <<method, channel>>
    BY <1>2, RegisterSaves
  <2>2. /\ promise'[r] = "pending"
        /\ \A q \in Ids : q # r => promise'[q] = promise[q] /\ work'[q] = work[q]
        /\ work'[r] = work[r] \/ work'[r] \in {"posted", "threw"}
    BY <2>1 DEF IInv, TypeOK
  <2>3. /\ work[r] = "none"
        /\ ~OnItsWay(channel, r)
        /\ \A q \in Ids : r < q => promise[q] \in Open /\ work[q] = "none"
    BY <2>1 DEF WorkInv, Open
  <2>4. \A q, s \in Ids : q < s /\ promise'[s] \notin Open => promise'[q] \notin Open
    BY <2>1, <2>2, <2>3 DEF WorkInv, Open, Ids
  <2>5. \A s \in Ids : work'[s] # "none" => promise'[s] \notin Open
    BY <2>2 DEF WorkInv, Open
  <2>6. \A s \in Ids : promise'[s] = "fulfilled" \/ OnItsWay(channel', s) => work'[s] = "answered"
    BY <2>1, <2>2, <2>3 DEF WorkInv
  <2>7. ASSUME NEW q \in Ids, NEW s \in Ids, TwoSaves(q, s)',
               work'[s] \in {"running", "answered", "aborted"}
        PROVE  work'[q] \notin {"posted", "running"}
    <3>1. s # r /\ TwoSaves(q, s) /\ work[s] \in {"running", "answered", "aborted"}
      BY <2>1, <2>2, <2>3, <2>7 DEF TwoSaves
    <3>2. q # r
      BY <2>3, <3>1 DEF TwoSaves
    <3>3. QED
      BY <2>2, <3>1, <3>2 DEF WorkInv
  <2>8. QED
    BY <2>4, <2>5, <2>6, <2>7 DEF WorkInv
<1>3. CASE (\E r \in Ids : Cancel(r) \/ Timeout(r)) \/ Detach \/ Attach \/ UNCHANGED vars
  BY <1>3, PageSaves DEF WorkInv, Open, TwoSaves
<1>4. CASE ProcessBatch
  <2>1. \A r \in Ids : OnItsWay(channel', r) => OnItsWay(channel, r)
    BY <1>4, ProcessBatchSaves, BatchTaken
  <2>2. \A r \in Ids : Holds(Head(channel.sent), r) => OnItsWay(channel, r)
    BY <1>4, ProcessBatchSaves, BatchTaken
  <2>3. \A r \in Ids : promise'[r] = "fulfilled" \/ OnItsWay(channel', r) => work[r] = "answered"
    BY <1>4, <2>1, <2>2, ProcessBatchSaves DEF WorkInv
  <2>4. QED
    BY <1>4, <2>3, ProcessBatchSaves DEF WorkInv, TwoSaves
<1>5. ASSUME NEW r \in Ids, Start(r) PROVE WorkInv'
  <2>1. promise[r] \notin Open
    BY <1>5, StartSaves DEF WorkInv
  <2>2. \A s \in Ids : OnItsWay(channel', s) =>
          OnItsWay(channel, s) \/ (s = r /\ work'[r] = "answered")
    <3>1. \A s \in Ids : OnItsWay(DispatchMain(channel, Completed(r, TRUE, TRUE)), s) =>
            OnItsWay(channel, s) \/ s = r
      BY <1>0, DispatchKeeps, DispatchedMessages
    <3>2. QED
      BY <1>5, <3>1, StartSaves
  <2>3. promise[r] # "fulfilled" /\ ~OnItsWay(channel, r)
    BY <1>5, StartSaves DEF WorkInv
  <2>4. \A s \in Ids : promise'[s] = "fulfilled" \/ OnItsWay(channel', s) => work'[s] = "answered"
    BY <1>5, <2>2, <2>3, StartSaves DEF WorkInv
  <2>5. ASSUME NEW q \in Ids, NEW s \in Ids, TwoSaves(q, s)',
               work'[s] \in {"running", "answered", "aborted"}
        PROVE  work'[q] \notin {"posted", "running"}
    <3>1. TwoSaves(q, s)
      BY <1>5, <2>5, StartSaves DEF TwoSaves
    <3>2. CASE s = r
      <4>1. q \in Ids \ {r} /\ q < r /\ method[q] = "save" /\ method[r] = "save"
        BY <3>1, <3>2 DEF TwoSaves, Ids
      <4>2. work[q] # "posted"
        BY <1>5, <4>1, StartSaves
      <4>3. work'[q] = IF work[q] = "running" THEN "aborted" ELSE work[q]
        BY <1>5, <4>1, StartSaves
      <4>4. QED
        BY <4>2, <4>3
    <3>3. CASE s # r
      <4>1. work[s] \in {"running", "answered", "aborted"}
        BY <1>5, <2>5, <3>3, StartSaves
      <4>2. work[q] \notin {"posted", "running"}
        BY <3>1, <4>1 DEF WorkInv
      <4>3. q # r
        BY <1>5, <4>2, StartSaves
      <4>4. QED
        BY <1>5, <4>2, <4>3, StartSaves
    <3>4. QED
      BY <3>2, <3>3
  <2>6. \A s \in Ids : work'[s] # "none" => promise'[s] \notin Open
    BY <1>5, <2>1, StartSaves DEF WorkInv
  <2>7. QED
    BY <1>5, <2>4, <2>5, <2>6, StartSaves DEF WorkInv
<1>6. ASSUME NEW r \in Ids, Answer(r) PROVE WorkInv'
  <2>1. \A s \in Ids : OnItsWay(channel', s) => OnItsWay(channel, s) \/ s = r
    BY <1>0, <1>6, AnswerSaves, DispatchKeeps
  <2>2. /\ work'[r] = "answered" /\ work[r] = "running"
        /\ \A s \in Ids \ {r} : work'[s] = work[s]
        /\ UNCHANGED <<method, promise>>
    BY <1>6, AnswerSaves DEF IInv, TypeOK
  <2>3. QED
    BY <2>1, <2>2 DEF WorkInv, TwoSaves
<1>7. CASE Broadcast \/ DrainTimeout \/ SendRatePasses
  BY <1>7, NeutralSaves DEF WorkInv, TwoSaves
<1>8. QED
  BY <1>1, <1>2, <1>3, <1>4, <1>5, <1>6, <1>7 DEF Next, RegisterNext, TimeoutNext, StartNext, AnswerNext
LEMMA OrderStep == IInv /\ WorkInv /\ OrderInv /\ [Next]_vars => OrderInv'
<1> SUFFICES ASSUME IInv, WorkInv, OrderInv, [Next]_vars, NEW q \in Ids, NEW r \in Ids, TwoSaves(q, r)'
             PROVE  /\ NotAfter(channel', q, r)
                    /\ promise'[r] = "fulfilled" => ~OnItsWay(channel', q)
  BY DEF OrderInv
<1>0. channel \in Channels /\ q # r
  BY TypeParts DEF IInv, TwoSaves, Ids
<1> DEFINE Goal == /\ NotAfter(channel', q, r)
                   /\ promise'[r] = "fulfilled" => ~OnItsWay(channel', q)
<1>1. ASSUME NEW m \in Methods, DataRequest(m) PROVE Goal
  <2>1. PICK n \in Ids :
          /\ \A s \in Ids : promise[s] = "none" <=> s >= n
          /\ method' = [method EXCEPT ![n] = m]
          /\ promise' = [promise EXCEPT ![n] = "made"]
          /\ UNCHANGED <<work, channel>>
    BY <1>1, DataRequestSaves
  <2>2. CASE q = n \/ r = n
    <3>1. promise[r] = "none"
      BY <2>1, <2>2 DEF TwoSaves, Ids
    <3>2. ~OnItsWay(channel, r) /\ promise'[r] # "fulfilled"
      BY <2>1, <3>1 DEF WorkInv, Open, IInv, TypeOK
    <3>3. QED
      BY <2>1, <3>2 DEF NotAfter, OnItsWay
  <2>3. CASE q # n /\ r # n
    <3>1. TwoSaves(q, r) /\ promise'[r] = promise[r]
      BY <2>1, <2>3 DEF TwoSaves, IInv, TypeOK
    <3>2. QED
      BY <2>1, <3>1 DEF OrderInv
  <2>4. QED
    BY <2>2, <2>3
<1>2. ASSUME NEW s \in Ids, Register(s) PROVE Goal
  <2>1. /\ promise' = [promise EXCEPT ![s] = "pending"]
        /\ UNCHANGED <<method, channel>>
    BY <1>2, RegisterSaves
  <2>2. TwoSaves(q, r) /\ (promise'[r] = "fulfilled" => promise[r] = "fulfilled")
    BY <2>1 DEF TwoSaves, IInv, TypeOK
  <2>3. QED
    BY <2>1, <2>2 DEF OrderInv
<1>3. CASE (\E s \in Ids : Cancel(s) \/ Timeout(s)) \/ Detach \/ Attach \/ UNCHANGED vars
  <2>1. TwoSaves(q, r) /\ (promise'[r] = "fulfilled" => promise[r] = "fulfilled") /\ channel' = channel
    BY <1>3, PageSaves DEF TwoSaves
  <2>2. QED
    BY <2>1 DEF OrderInv
<1>4. CASE ProcessBatch
  <2>1. TwoSaves(q, r)
    BY <1>4, ProcessBatchSaves DEF TwoSaves
  <2>2. NotAfter(channel, q, r) /\ (promise[r] = "fulfilled" => ~OnItsWay(channel, q))
    BY <2>1 DEF OrderInv
  <2>3. /\ NotAfter(channel', q, r)
        /\ Holds(Head(channel.sent), r) => ~OnItsWay(channel', q)
        /\ OnItsWay(channel', q) => OnItsWay(channel, q)
    BY <1>4, <2>2, ProcessBatchSaves, BatchTaken
  <2>4. promise'[r] = "fulfilled" => promise[r] = "fulfilled" \/ Holds(Head(channel.sent), r)
    BY <1>4, ProcessBatchSaves
  <2>5. QED
    BY <2>2, <2>3, <2>4
\* A save that is answered has run, so none after it was answered, or ever ran.
<1>5. ASSUME NEW s \in Ids, NEW m \in Messages, m.requestId = s, work[s] \in {"posted", "running"},
             channel' = DispatchMain(channel, m), UNCHANGED <<method, promise>>
      PROVE  Goal
  <2>1. TwoSaves(q, r)
    BY <1>5 DEF TwoSaves
  <2>2. NotAfter(channel, q, r) /\ (promise[r] = "fulfilled" => ~OnItsWay(channel, q))
    BY <2>1 DEF OrderInv
  <2>3. s = q => ~OnItsWay(channel, r) /\ promise[r] # "fulfilled"
    BY <1>5, <2>1 DEF WorkInv
  <2>4. NotAfter(channel', q, r)
    BY <1>0, <1>5, <2>2, <2>3, DispatchKeeps
  <2>5. OnItsWay(channel', q) => OnItsWay(channel, q) \/ s = q
    BY <1>0, <1>5, DispatchKeeps
  <2>6. QED
    BY <1>5, <2>2, <2>3, <2>4, <2>5
<1>6. ASSUME NEW s \in Ids, Start(s) PROVE Goal
  <2>1. CASE channel' = channel
    <3>1. TwoSaves(q, r) /\ promise' = promise
      BY <1>6, StartSaves DEF TwoSaves
    <3>2. QED
      BY <2>1, <3>1 DEF OrderInv
  <2>2. CASE channel' = DispatchMain(channel, Completed(s, TRUE, TRUE))
    <3>1. Completed(s, TRUE, TRUE) \in Messages /\ Completed(s, TRUE, TRUE).requestId = s
      BY DispatchedMessages
    <3>2. work[s] = "posted" /\ UNCHANGED <<method, promise>>
      BY <1>6, StartSaves
    <3>3. QED
      BY <1>5, <2>2, <3>1, <3>2
  <2>3. QED
    BY <1>6, <2>1, <2>2, StartSaves
<1>7. ASSUME NEW s \in Ids, Answer(s) PROVE Goal
  <2>1. PICK m \in Messages : m.requestId = s /\ channel' = DispatchMain(channel, m)
    BY <1>7, AnswerSaves
  <2>2. work[s] = "running" /\ UNCHANGED <<method, promise>>
    BY <1>7, AnswerSaves
  <2>3. QED
    BY <1>5, <2>1, <2>2
<1>8. CASE Broadcast \/ DrainTimeout \/ SendRatePasses
  <2>1. TwoSaves(q, r) /\ promise' = promise
    BY <1>8, NeutralSaves DEF TwoSaves
  <2>2. QED
    BY <1>8, <2>1, NeutralSaves DEF OrderInv
<1>9. QED
  BY <1>1, <1>2, <1>3, <1>4, <1>6, <1>7, <1>8 DEF Next, RegisterNext, TimeoutNext, StartNext, AnswerNext

LEMMA SavesInductive == Spec => [](IInv /\ SaveInv)
<1>1. Init => IInv /\ SaveInv
  BY InitType, InitEntry, InitSave DEF IInv
<1>2. IInv /\ SaveInv /\ [Next]_vars => (IInv /\ SaveInv)'
  BY TypeStep, EntryStep, WorkStep, OrderStep DEF IInv, SaveInv
<1>3. QED
  BY <1>1, <1>2, PTL DEF Spec

(***************************************************************************)
(* Once a save is fulfilled no save made before it is fulfilled any more:  *)
(* the answer of a save is the last thing its service does, abortPrevious  *)
(* leaves no earlier one running, and the queue of dispatchMain keeps the  *)
(* order of what was dispatched.                                           *)
(***************************************************************************)
THEOREM SavesInOrder == Spec => SavesFulfilInOrder
<1> DEFINE InTurn == \A q, r \in Ids :
             /\ q < r /\ method[q] = "save" /\ method[r] = "save"
             /\ promise[r] = "fulfilled" /\ promise[q] # "fulfilled"
             => promise'[q] # "fulfilled"
<1>1. IInv /\ SaveInv /\ [Next]_vars => [InTurn]_vars
  <2> SUFFICES ASSUME IInv, SaveInv, [Next]_vars, NEW q \in Ids, NEW r \in Ids, TwoSaves(q, r),
                      promise[r] = "fulfilled", promise[q] # "fulfilled"
               PROVE  promise'[q] # "fulfilled"
    BY DEF TwoSaves
  <2>1. ~OnItsWay(channel, q)
    BY DEF SaveInv, OrderInv
  <2>2. ASSUME NEW m \in Methods, DataRequest(m) PROVE promise'[q] # "fulfilled"
    BY <2>2, DataRequestSaves DEF IInv, TypeOK
  <2>3. ASSUME NEW s \in Ids, Register(s) PROVE promise'[q] # "fulfilled"
    BY <2>3, RegisterSaves DEF IInv, TypeOK
  <2>4. CASE (\E s \in Ids : Cancel(s) \/ Timeout(s)) \/ Detach \/ Attach \/ UNCHANGED vars
    BY <2>4, PageSaves
  <2>5. CASE ProcessBatch
    BY <2>1, <2>5, ProcessBatchSaves, BatchTaken
  <2>6. CASE StartNext \/ AnswerNext \/ Broadcast \/ DrainTimeout \/ SendRatePasses
    BY <2>6, WorkerSteps
  <2>7. QED
    BY <2>2, <2>3, <2>4, <2>5, <2>6 DEF Next, RegisterNext, TimeoutNext
<1>2. QED
  BY <1>1, SavesInductive, PTL DEF Spec, SavesFulfilInOrder
=============================================================================
