------------------------------ MODULE Parts_proofs ------------------------------
(***************************************************************************)
(* Proofs about the parts, each for any constants that its module assumes. *)
(* WorkspaceStore: who is in the lock, what a server lists after its       *)
(* updates, and for how long a member whose access was taken away gets in. *)
(* DiffPanel, ActivityList, ObjectSelection, SearchPane: the invariant of  *)
(* each pane.  The invariants of the parts are inductive for their own     *)
(* steps; in Parts the other parts stutter.                                *)
(***************************************************************************)
EXTENDS Parts, SequenceTheorems, FiniteSetTheorems, WellFoundedInduction, TLAPS

\* A set of numbers has a least one
LEMMA LeastOfNat ==
  ASSUME NEW S, S \subseteq Nat, S # {}
  PROVE  \E m \in S : \A v \in S : m <= v
<1> DEFINE R == OpToRel(<, Nat)
<1>1. IsWellFoundedOn(R, Nat)
  BY NatLessThanWellFounded
<1>2. \A x, y \in Nat : <<x, y>> \in R <=> x < y
  BY DEF OpToRel
<1> HIDE DEF R
<1>3. PICK m \in S : \A v \in S : ~(<<v, m>> \in R)
  BY <1>1, WFMin
<1>4. \A v \in S : ~(v < m)
  BY <1>2, <1>3
<1>5. \A v \in S : m <= v
  BY <1>4
<1>6. QED
  BY <1>3, <1>5

-----------------------------------------------------------------------------
(* The workspaces of the servers: the inductive invariant.                 *)

\* A call between the monitor and its release has the monitor, and without a lost session whoever
\* is in the callable has the mutex
LockInv ==
  /\ HoldersGoOn
  /\ \A c \in Calls : call[c].at = "acquire" \/ Inside(c) => monitor[ServerOf[c]] = c
  /\ ~lostSession => \A c \in Calls : Inside(c) => mutex = c

\* A list that is going to be cached has what its server has updated
UpdateInv ==
  /\ OwnUpdatesSeen
  /\ \A e \in Entities : \A s \in writers[e] :
       /\ e \in visible
       /\ \A c \in CallsOf(s) : call[c].at = "read" => e \in call[c].listed

\* How old what still grants the access is at least, from the moment it was taken away
RefuseInv ==
  ~access =>
    /\ \A s \in Servers : \A x \in users[s] : x.value => revokedFor <= x.age
    /\ \A c \in Calls : call[c].at = "checked" /\ call[c].allowed =>
         revokedFor <= IF call[c].fromGraph THEN 0 ELSE Expiry - 1
    /\ \A s \in Servers : \A x \in granted[s] : revokedFor <= x.age + (Expiry - 1)

\* No check of the server that took the access away has found it since
RevokeInv ==
  /\ revokedBy # NoServer => ~access
  /\ \A s \in Servers :
       /\ revokedBy = s /\ ~foundBefore
       /\ \A c \in CallsOf(s) : call[c].at = "written" => call[c].kind = "update"
       => granted[s] = {} /\ (\A x \in users[s] : ~x.value) /\ ~HasFound(s)

StoreInv == StoreTypeOK /\ LockInv /\ UpdateInv /\ RefuseInv /\ RevokeInv

-----------------------------------------------------------------------------
(* What a step does to the thread that takes it.                           *)

Threads ==
  [at : Steps, kind : Kinds, about : Entities, allowed : BOOLEAN, fromGraph : BOOLEAN, listed : SUBSET Entities]

\* c is at step, and the other threads are where they were
Moves(c, step) ==
  /\ call' \in [Calls -> Threads]
  /\ call'[c].at = step
  /\ \A d \in Calls : d # c => call'[d] = call[d]

LEMMA AnyThread ==
  ASSUME NEW step \in Steps, NEW k \in Kinds, NEW e \in Entities
  PROVE  /\ Thread(step, k, e) \in Threads
         /\ Thread(step, k, e).at = step /\ Thread(step, k, e).kind = k /\ Thread(step, k, e).about = e
  BY DEF Thread, Threads

LEMMA IdleIsThread == Idle \in Threads /\ Idle.at = "idle"
<1>1. AnyEntity \in Entities
  BY StoreAssumption DEF AnyEntity
<1>2. QED
  BY <1>1 DEF Thread, Threads, Idle, Steps, Kinds

\* A thread that goes on keeps what it was asked to do.
LEMMA Going ==
  ASSUME StoreTypeOK, NEW c \in Calls, NEW step \in Steps, Go(c, step)
  PROVE  Moves(c, step) /\ call'[c].kind = call[c].kind /\ call'[c].about = call[c].about
<1>1. call \in [Calls -> Threads]
  BY DEF StoreTypeOK, Threads
<1>2. call[c].kind \in Kinds /\ call[c].about \in Entities
  BY <1>1 DEF Threads
<1>3. call' = [call EXCEPT ![c] = Thread(step, call[c].kind, call[c].about)]
  BY DEF Go
<1>4. QED
  BY <1>1, <1>2, <1>3, AnyThread DEF Moves

LEMMA Returning ==
  ASSUME StoreTypeOK, NEW c \in Calls, Return(c)
  PROVE  Moves(c, "idle")
<1>1. call \in [Calls -> Threads]
  BY DEF StoreTypeOK, Threads
<1>2. Idle \in Threads /\ Idle.at = "idle"
  BY IdleIsThread
<1>3. QED
  BY <1>1, <1>2 DEF Return, Moves

LEMMA Calling ==
  ASSUME StoreTypeOK, NEW c \in Calls, NEW k \in Kinds, NEW e \in Entities, Call(c, k, e)
  PROVE  Moves(c, "check") \/ Moves(c, "monitor")
<1>1. call \in [Calls -> Threads]
  BY DEF StoreTypeOK, Threads
<1>2. "check" \in Steps /\ "monitor" \in Steps
  BY DEF Steps
<1>3. QED
  BY <1>1, <1>2, AnyThread DEF Call, Moves

\* A check passes by the cache of granted accesses, or knows what it found in the graph or a list.
LEMMA LookingUp ==
  ASSUME StoreTypeOK, NEW c \in Calls, Lookup(c)
  PROVE  \/ call[c].kind = "update" /\ granted[ServerOf[c]] # {} /\ Moves(c, "monitor")
         \/ /\ call' \in [Calls -> Threads]
            /\ call'[c].at = "checked"
            /\ \A d \in Calls : d # c => call'[d] = call[d]
            /\ \/ users[ServerOf[c]] = {} /\ call'[c].fromGraph /\ call'[c].allowed = access
               \/ \E x \in users[ServerOf[c]] : ~call'[c].fromGraph /\ call'[c].allowed = x.value
<1>1. call \in [Calls -> Threads] /\ access \in BOOLEAN
  BY DEF StoreTypeOK, Threads
<1>2. CASE call[c].kind = "update" /\ granted[ServerOf[c]] # {}
  <2>1. Go(c, "monitor")
    BY <1>2 DEF Lookup
  <2>2. QED
    BY <1>2, <2>1, Going DEF Steps
<1>3. CASE ~(call[c].kind = "update" /\ granted[ServerOf[c]] # {})
  <2> DEFINE s == ServerOf[c]
  <2>1. PICK answer \in IF users[s] = {} THEN {access} ELSE {x.value : x \in users[s]} :
          call' = [call EXCEPT ![c].at = "checked", ![c].allowed = answer, ![c].fromGraph = users[s] = {}]
    BY <1>3 DEF Lookup
  <2>2. s \in Servers /\ users[s] \in Caches(BOOLEAN)
    BY StoreAssumption DEF StoreTypeOK
  <2>3. \A x \in users[s] : x.value \in BOOLEAN
    BY <2>2 DEF Caches
  <2>4. answer \in BOOLEAN
    BY <1>1, <2>1, <2>3
  <2>5. /\ call' \in [Calls -> Threads]
        /\ call'[c].at = "checked" /\ call'[c].allowed = answer /\ call'[c].fromGraph = (users[s] = {})
        /\ \A d \in Calls : d # c => call'[d] = call[d]
    <3> DEFINE found == [call[c] EXCEPT !.at = "checked", !.allowed = answer, !.fromGraph = users[s] = {}]
    <3>1. call' = [call EXCEPT ![c] = found]
      BY <1>1, <2>1
    <3>2. /\ found \in Threads
          /\ found.at = "checked" /\ found.allowed = answer /\ found.fromGraph = (users[s] = {})
      <4>1. call[c] \in Threads /\ (users[s] = {}) \in BOOLEAN
        BY <1>1
      <4>2. QED
        BY <2>4, <4>1 DEF Threads, Steps
    <3> HIDE DEF found
    <3>3. QED
      BY <1>1, <3>1, <3>2
  <2>6. CASE users[s] = {}
    BY <2>1, <2>5, <2>6
  <2>7. CASE users[s] # {}
    <3>1. PICK x \in users[s] : answer = x.value
      BY <2>1, <2>7
    <3>2. call'[c].fromGraph = FALSE
      BY <2>5, <2>7
    <3>3. QED
      BY <2>5, <3>1, <3>2
  <2>8. QED
    BY <2>6, <2>7
<1>4. QED
  BY <1>2, <1>3

LEMMA Finding ==
  ASSUME StoreTypeOK, NEW c \in Calls, FindEntities(c)
  PROVE  \/ Moves(c, "release")
         \/ Moves(c, "read") /\ call'[c].listed = visible
<1>1. call \in [Calls -> Threads] /\ visible \in SUBSET Entities
  BY DEF StoreTypeOK, Threads
<1>2. "release" \in Steps /\ "read" \in Steps
  BY DEF Steps
<1>3. CASE entities[ServerOf[c]] # {}
  BY <1>2, <1>3, Going DEF FindEntities
<1>4. CASE entities[ServerOf[c]] = {}
  <2>1. call' = [call EXCEPT ![c].at = "read", ![c].listed = visible]
    BY <1>4 DEF FindEntities
  <2>2. QED
    BY <1>1, <1>2, <2>1, ZenonT(30) DEF Moves, Threads
<1>5. QED
  BY <1>3, <1>4

-----------------------------------------------------------------------------
(* The caches.                                                             *)

LEMMA CacheTypes ==
  ASSUME NEW values
  PROVE  /\ {} \in Caches(values)
         /\ \A v \in values : Put(v) \in Caches(values)
         /\ \A cache \in Caches(values) :
              /\ Older(cache) \in Caches(values)
              /\ \A y \in Older(cache) : \E x \in cache : y.value = x.value /\ y.age = x.age + 1
              /\ \A x \in cache : x.value \in values /\ x.age \in 0 .. Expiry - 1
<1>1. Expiry \in Nat \ {0}
  BY StoreAssumption
<1>2. {} \in Caches(values)
  BY DEF Caches
<1>3. ASSUME NEW v \in values
      PROVE  Put(v) \in Caches(values)
  <2>1. [value |-> v, age |-> 0] \in [value : values, age : 0 .. Expiry - 1]
    BY <1>1
  <2>2. QED
    BY <2>1 DEF Put, Caches
<1>4. ASSUME NEW x \in [value : values, age : 0 .. Expiry - 1]
      PROVE  /\ Older({x}) \in Caches(values)
             /\ \A y \in Older({x}) : y.value = x.value /\ y.age = x.age + 1
  <2> DEFINE y == [x EXCEPT !.age = @ + 1]
  <2>1. x.age \in 0 .. Expiry - 1 /\ x.value \in values
    OBVIOUS
  <2>2. y.value = x.value /\ y.age = x.age + 1
    OBVIOUS
  <2>3. CASE x.age + 1 < Expiry
    <3>1. Older({x}) = {y}
      BY <2>3 DEF Older
    <3>2. y \in [value : values, age : 0 .. Expiry - 1]
      BY <1>1, <2>1, <2>3
    <3> HIDE DEF y
    <3>3. QED
      BY <2>2, <3>1, <3>2 DEF Caches
  <2>4. CASE ~(x.age + 1 < Expiry)
    <3>1. Older({x}) = {}
      BY <2>4 DEF Older
    <3>2. QED
      BY <1>2, <3>1
  <2>5. QED
    BY <2>3, <2>4
<1>5. Older({}) = {}
  BY DEF Older
<1>6. ASSUME NEW cache \in Caches(values)
      PROVE  /\ Older(cache) \in Caches(values)
             /\ \A y \in Older(cache) : \E x \in cache : y.value = x.value /\ y.age = x.age + 1
             /\ \A x \in cache : x.value \in values /\ x.age \in 0 .. Expiry - 1
  <2>1. CASE cache = {}
    BY <1>2, <1>5, <2>1
  <2>2. CASE cache # {}
    <3>1. PICK x \in [value : values, age : 0 .. Expiry - 1] : cache = {x}
      BY <1>6, <2>2 DEF Caches
    <3>2. QED
      BY <1>4, <3>1
  <2>3. QED
    BY <2>1, <2>2
<1>7. QED
  BY <1>2, <1>3, <1>6

-----------------------------------------------------------------------------
(* Types.                                                                  *)

LEMMA TypeFacts ==
  /\ \A c \in Calls : ServerOf[c] \in Servers
  /\ {} \in Caches(SUBSET Entities) /\ {} \in Caches(BOOLEAN) /\ {} \in Caches({TRUE})
  /\ \A v \in SUBSET Entities : Put(v) \in Caches(SUBSET Entities)
  /\ \A v \in BOOLEAN : Put(v) \in Caches(BOOLEAN)
  /\ Put(TRUE) \in Caches({TRUE})
  /\ \A cache \in Caches(SUBSET Entities) : Older(cache) \in Caches(SUBSET Entities)
  /\ \A cache \in Caches(BOOLEAN) : Older(cache) \in Caches(BOOLEAN)
  /\ \A cache \in Caches({TRUE}) : Older(cache) \in Caches({TRUE})
<1>1. \A c \in Calls : ServerOf[c] \in Servers
  BY StoreAssumption
<1>2. TRUE \in {TRUE}
  OBVIOUS
<1>3. QED
  BY <1>1, <1>2, CacheTypes

\* What is counted stays in its bounds.
LEMMA NumberFacts ==
  ASSUME StoreTypeOK
  PROVE  /\ StoreFault => started' \in 0 .. MaxStarted /\ storeFaults' \in 0 .. MaxStoreFaults
         /\ started < MaxStarted => started + 1 \in 0 .. MaxStarted
         /\ revokedFor < MaxTicks => revokedFor + 1 \in 0 .. MaxTicks
         /\ 0 \in 0 .. MaxTicks
<1>1. /\ started \in 0 .. MaxStarted /\ storeFaults \in 0 .. MaxStoreFaults /\ revokedFor \in 0 .. MaxTicks
      /\ MaxStarted \in Nat /\ MaxStoreFaults \in Nat /\ MaxTicks \in Nat
  BY StoreAssumption DEF StoreTypeOK
<1>2. QED
  BY <1>1 DEF StoreFault

\* Every step keeps the types.
LEMMA TypeStep ==
  ASSUME StoreTypeOK, [StoreNext]_storeVars
  PROVE  StoreTypeOK'
<1> USE DEF storeVars, graphVars, cacheVars, lockVars, accessHistory, boundVars
<1>1. ASSUME NEW c \in Calls, NEW k \in Kinds, NEW e \in Entities, Call(c, k, e)
      PROVE  StoreTypeOK'
  <2>1. call' \in [Calls -> Threads]
    BY <1>1, Calling DEF Moves
  <2>2. QED
    BY <1>1, <2>1, TypeFacts, NumberFacts, StoreAssumption DEF StoreTypeOK, Threads, Call
<1>2. ASSUME NEW c \in Calls, Lookup(c)
      PROVE  StoreTypeOK'
  <2>1. call' \in [Calls -> Threads]
    BY <1>2, LookingUp DEF Moves
  <2>2. QED
    BY <1>2, <2>1, TypeFacts, NumberFacts, StoreAssumption DEF StoreTypeOK, Threads, Lookup
<1>3. ASSUME NEW c \in Calls, Conclude(c)
      PROVE  StoreTypeOK'
  <2>1. call' \in [Calls -> Threads]
    BY <1>3, Going, Returning DEF Conclude, Moves, Steps
  <2>2. QED
    BY <1>3, <2>1, TypeFacts, NumberFacts, StoreAssumption DEF StoreTypeOK, Threads, Conclude
<1>4. ASSUME NEW c \in Calls, EnterMonitor(c)
      PROVE  StoreTypeOK'
  <2>1. call' \in [Calls -> Threads]
    BY <1>4, Going DEF EnterMonitor, Moves, Steps
  <2>2. QED
    BY <1>4, <2>1, TypeFacts, NumberFacts, StoreAssumption DEF StoreTypeOK, Threads, EnterMonitor
<1>5. ASSUME NEW c \in Calls, Acquire(c)
      PROVE  StoreTypeOK'
  <2>1. call' \in [Calls -> Threads]
    BY <1>5, Going DEF Acquire, Moves, Steps
  <2>2. QED
    BY <1>5, <2>1, TypeFacts, NumberFacts, StoreAssumption DEF StoreTypeOK, Threads, Acquire
<1>6. ASSUME NEW c \in Calls, AcquireFails(c)
      PROVE  StoreTypeOK'
  <2>1. call' \in [Calls -> Threads]
    BY <1>6, Returning DEF AcquireFails, Moves, Steps
  <2>2. QED
    BY <1>6, <2>1, TypeFacts, NumberFacts, StoreAssumption DEF StoreTypeOK, Threads, AcquireFails
<1>7. ASSUME NEW c \in Calls, Release(c)
      PROVE  StoreTypeOK'
  <2>1. call' \in [Calls -> Threads]
    BY <1>7, Returning DEF Release, Moves, Steps
  <2>2. QED
    BY <1>7, <2>1, TypeFacts, NumberFacts, StoreAssumption DEF StoreTypeOK, Threads, Release
<1>8. ASSUME NEW c \in Calls, FindEntities(c)
      PROVE  StoreTypeOK'
  <2>1. call' \in [Calls -> Threads]
    BY <1>8, Finding DEF Moves
  <2>2. QED
    BY <1>8, <2>1, TypeFacts, NumberFacts, StoreAssumption DEF StoreTypeOK, Threads, FindEntities
<1>9. ASSUME NEW c \in Calls, CacheEntities(c)
      PROVE  StoreTypeOK'
  <2>1. call' \in [Calls -> Threads]
    BY <1>9, Going DEF CacheEntities, Moves, Steps
  <2>2. QED
    BY <1>9, <2>1, TypeFacts, NumberFacts, StoreAssumption DEF StoreTypeOK, Threads, CacheEntities
<1>10. ASSUME NEW c \in Calls, UpdateEntity(c)
      PROVE  StoreTypeOK'
  <2>1. call' \in [Calls -> Threads]
    BY <1>10, Going DEF UpdateEntity, Moves, Steps
  <2>2. QED
    BY <1>10, <2>1, TypeFacts, NumberFacts, StoreAssumption DEF StoreTypeOK, Threads, UpdateEntity
<1>11. ASSUME NEW c \in Calls, UpdateBreaksOff(c)
      PROVE  StoreTypeOK'
  <2>1. call' \in [Calls -> Threads]
    BY <1>11, Going DEF UpdateBreaksOff, Moves, Steps
  <2>2. QED
    BY <1>11, <2>1, TypeFacts, NumberFacts, StoreAssumption DEF StoreTypeOK, Threads, UpdateBreaksOff
<1>12. ASSUME NEW c \in Calls, InvalidateEntities(c)
      PROVE  StoreTypeOK'
  <2>1. call' \in [Calls -> Threads]
    BY <1>12, Going DEF InvalidateEntities, Moves, Steps
  <2>2. QED
    BY <1>12, <2>1, TypeFacts, NumberFacts, StoreAssumption DEF StoreTypeOK, Threads, InvalidateEntities
<1>13. ASSUME NEW c \in Calls, ChangeAccess(c)
      PROVE  StoreTypeOK'
  <2>1. call' \in [Calls -> Threads]
    BY <1>13, Going DEF ChangeAccess, Moves, Steps
  <2>2. QED
    BY <1>13, <2>1, TypeFacts, NumberFacts, StoreAssumption DEF StoreTypeOK, Threads, ChangeAccess
<1>14. ASSUME NEW c \in Calls, ClearCache(c)
      PROVE  StoreTypeOK'
  <2>1. call' \in [Calls -> Threads]
    BY <1>14, Going DEF ClearCache, Moves, Steps
  <2>2. QED
    BY <1>14, <2>1, TypeFacts, NumberFacts, StoreAssumption DEF StoreTypeOK, Threads, ClearCache
<1>15. ASSUME NEW e \in Entities, SoftDeleteEntity(e)
      PROVE  StoreTypeOK'
  BY <1>15, TypeFacts, NumberFacts, StoreAssumption DEF StoreTypeOK, SoftDeleteEntity
<1>16. ASSUME Tick
      PROVE  StoreTypeOK'
  BY <1>16, TypeFacts, NumberFacts, StoreAssumption DEF StoreTypeOK, Tick
<1>17. ASSUME SessionLost
      PROVE  StoreTypeOK'
  BY <1>17, TypeFacts, NumberFacts, StoreAssumption DEF StoreTypeOK, SessionLost
<1>18. ASSUME SessionExpires
      PROVE  StoreTypeOK'
  BY <1>18, TypeFacts, NumberFacts, StoreAssumption DEF StoreTypeOK, SessionExpires
<1>19. ASSUME NEW s \in Servers, ServerDies(s)
      PROVE  StoreTypeOK'
  <2>1. call' \in [Calls -> Threads]
    BY <1>19, IdleIsThread DEF ServerDies, StoreTypeOK, Threads
  <2>2. QED
    BY <1>19, <2>1, TypeFacts, NumberFacts, StoreAssumption DEF StoreTypeOK, Threads, ServerDies
<1>20. CASE UNCHANGED storeVars
  BY <1>20 DEF StoreTypeOK
<1>21. QED
  BY <1>1, <1>2, <1>3, <1>4, <1>5, <1>6, <1>7, <1>8, <1>9, <1>10, <1>11, <1>12, <1>13, <1>14, <1>15, <1>16, <1>17, <1>18, <1>19, <1>20 DEF StoreNext, CallStep

-----------------------------------------------------------------------------
(* The locks.                                                              *)

\* A call enters the callable only with the monitor of its server and the mutex.
LEMMA LockStep ==
  ASSUME StoreInv, [StoreNext]_storeVars
  PROVE  LockInv'
<1>a. StoreTypeOK
  BY DEF StoreInv
<1>b. storeFaults \in Nat
  BY <1>a, StoreAssumption DEF StoreTypeOK
<1>0. /\ StoreTypeOK /\ storeFaults \in Nat
      /\ ServerOf \in [Calls -> Servers] /\ NoCall \notin Calls
      /\ monitor \in [Servers -> Calls \cup {NoCall}] /\ mutex \in Calls \cup {NoCall}
  BY <1>a, <1>b, StoreAssumption DEF StoreTypeOK
<1> USE DEF storeVars, graphVars, cacheVars, lockVars, accessHistory, boundVars
<1>1. ASSUME NEW c \in Calls, NEW k \in Kinds, NEW e \in Entities, Call(c, k, e)
      PROVE  LockInv'
  <2>1. Moves(c, "check") \/ Moves(c, "monitor")
    BY <1>0, <1>1, Calling
  <2>2. QED
    BY <1>0, <1>1, <2>1 DEF StoreInv, LockInv, HoldersGoOn, Inside, Moves, Call
<1>2. ASSUME NEW c \in Calls, Lookup(c)
      PROVE  LockInv'
  <2>1. /\ call'[c].at \in {"monitor", "checked"}
        /\ \A d \in Calls : d # c => call'[d] = call[d]
    BY <1>0, <1>2, LookingUp DEF Moves
  <2>2. call[c].at = "check" /\ UNCHANGED <<lockVars, lostSession, storeFaults>>
    BY <1>2 DEF Lookup
  <2>3. QED
    BY <1>0, <2>1, <2>2 DEF StoreInv, LockInv, HoldersGoOn, Inside
<1>3. ASSUME NEW c \in Calls, Conclude(c)
      PROVE  LockInv'
  <2>1. Moves(c, "monitor") \/ Moves(c, "idle")
    BY <1>0, <1>3, Going, Returning DEF Conclude, Steps
  <2>2. QED
    BY <1>0, <1>3, <2>1 DEF StoreInv, LockInv, HoldersGoOn, Inside, Moves, Conclude
<1>4. ASSUME NEW c \in Calls, EnterMonitor(c)
      PROVE  LockInv'
  <2>1. Moves(c, "acquire")
    BY <1>0, <1>4, Going DEF EnterMonitor, Steps
  <2>2. QED
    BY <1>0, <1>4, <2>1 DEF StoreInv, LockInv, HoldersGoOn, Inside, Moves, EnterMonitor
<1>5. ASSUME NEW c \in Calls, Acquire(c)
      PROVE  LockInv'
  <2>1. Moves(c, "inside")
    BY <1>0, <1>5, Going DEF Acquire, Steps
  <2>2. QED
    BY <1>0, <1>5, <2>1 DEF StoreInv, LockInv, HoldersGoOn, Inside, Moves, Acquire
<1>6. ASSUME NEW c \in Calls, AcquireFails(c)
      PROVE  LockInv'
  <2>1. Moves(c, "idle")
    BY <1>0, <1>6, Returning DEF AcquireFails, Steps
  <2>2. QED
    BY <1>0, <1>6, <2>1 DEF StoreInv, LockInv, HoldersGoOn, Inside, Moves, AcquireFails, StoreFault
<1>7. ASSUME NEW c \in Calls, Release(c)
      PROVE  LockInv'
  <2>1. Moves(c, "idle")
    BY <1>0, <1>7, Returning DEF Release, Steps
  <2>2. QED
    BY <1>0, <1>7, <2>1 DEF StoreInv, LockInv, HoldersGoOn, Inside, Moves, Release
<1>8. ASSUME NEW c \in Calls, FindEntities(c)
      PROVE  LockInv'
  <2>1. Moves(c, "release") \/ Moves(c, "read")
    BY <1>0, <1>8, Finding
  <2>2. QED
    BY <1>0, <1>8, <2>1 DEF StoreInv, LockInv, HoldersGoOn, Inside, Moves, FindEntities
<1>9. ASSUME NEW c \in Calls, CacheEntities(c)
      PROVE  LockInv'
  <2>1. Moves(c, "release")
    BY <1>0, <1>9, Going DEF CacheEntities, Steps
  <2>2. QED
    BY <1>0, <1>9, <2>1 DEF StoreInv, LockInv, HoldersGoOn, Inside, Moves, CacheEntities
<1>10. ASSUME NEW c \in Calls, UpdateEntity(c)
      PROVE  LockInv'
  <2>1. Moves(c, "written")
    BY <1>0, <1>10, Going DEF UpdateEntity, Steps
  <2>2. QED
    BY <1>0, <1>10, <2>1 DEF StoreInv, LockInv, HoldersGoOn, Inside, Moves, UpdateEntity
<1>11. ASSUME NEW c \in Calls, UpdateBreaksOff(c)
      PROVE  LockInv'
  <2>1. Moves(c, "release")
    BY <1>0, <1>11, Going DEF UpdateBreaksOff, Steps
  <2>2. QED
    BY <1>0, <1>11, <2>1 DEF StoreInv, LockInv, HoldersGoOn, Inside, Moves, UpdateBreaksOff, StoreFault
<1>12. ASSUME NEW c \in Calls, InvalidateEntities(c)
      PROVE  LockInv'
  <2>1. Moves(c, "release")
    BY <1>0, <1>12, Going DEF InvalidateEntities, Steps
  <2>2. QED
    BY <1>0, <1>12, <2>1 DEF StoreInv, LockInv, HoldersGoOn, Inside, Moves, InvalidateEntities
<1>13. ASSUME NEW c \in Calls, ChangeAccess(c)
      PROVE  LockInv'
  <2>1. Moves(c, "written")
    BY <1>0, <1>13, Going DEF ChangeAccess, Steps
  <2>2. QED
    BY <1>0, <1>13, <2>1 DEF StoreInv, LockInv, HoldersGoOn, Inside, Moves, ChangeAccess
<1>14. ASSUME NEW c \in Calls, ClearCache(c)
      PROVE  LockInv'
  <2>1. Moves(c, "release")
    BY <1>0, <1>14, Going DEF ClearCache, Steps
  <2>2. QED
    BY <1>0, <1>14, <2>1 DEF StoreInv, LockInv, HoldersGoOn, Inside, Moves, ClearCache
<1>15. ASSUME NEW e \in Entities, SoftDeleteEntity(e)
      PROVE  LockInv'
  BY <1>0, <1>15 DEF StoreInv, LockInv, HoldersGoOn, Inside, SoftDeleteEntity
<1>16. ASSUME Tick
      PROVE  LockInv'
  BY <1>0, <1>16 DEF StoreInv, LockInv, HoldersGoOn, Inside, Tick
<1>17. ASSUME SessionLost
      PROVE  LockInv'
  BY <1>0, <1>17 DEF StoreInv, LockInv, HoldersGoOn, Inside, SessionLost, StoreFault
<1>18. ASSUME SessionExpires
      PROVE  LockInv'
  BY <1>0, <1>18 DEF StoreInv, LockInv, HoldersGoOn, Inside, SessionExpires
<1>19. ASSUME NEW s \in Servers, ServerDies(s)
      PROVE  LockInv'
  BY <1>0, <1>19, IdleIsThread DEF StoreInv, LockInv, HoldersGoOn, Inside, ServerDies, StoreFault
<1>20. CASE UNCHANGED storeVars
  BY <1>20 DEF StoreInv, LockInv, HoldersGoOn, Inside
<1>21. QED
  BY <1>1, <1>2, <1>3, <1>4, <1>5, <1>6, <1>7, <1>8, <1>9, <1>10, <1>11, <1>12, <1>13, <1>14, <1>15, <1>16, <1>17, <1>18, <1>19, <1>20 DEF StoreNext, CallStep

\* Two threads of a server are not in the callable together, whatever became of the mutex.
LEMMA OneInMonitor ==
  ASSUME LockInv, NEW c \in Calls, NEW d \in Calls, Inside(c), Inside(d), ServerOf[c] = ServerOf[d]
  PROVE  c = d
  BY DEF LockInv

-----------------------------------------------------------------------------
(* What is cached of the entities.                                         *)

\* No list gets into the cache of a server that has updated something since it was read.
LEMMA UpdateStep ==
  ASSUME StoreInv, [StoreNext]_storeVars
  PROVE  UpdateInv'
<1>0. /\ StoreTypeOK
      /\ call \in [Calls -> Threads] /\ writers \in [Entities -> SUBSET Servers]
      /\ entities \in [Servers -> Caches(SUBSET Entities)] /\ ServerOf \in [Calls -> Servers]
  BY StoreAssumption DEF StoreInv, StoreTypeOK, Threads
<1>a. \A c \in Calls : call[c].kind \in Kinds /\ call[c].about \in Entities
  BY <1>0 DEF Threads
<1> USE DEF storeVars, graphVars, cacheVars, lockVars, accessHistory, boundVars
<1>1. ASSUME NEW c \in Calls, NEW k \in Kinds, NEW e \in Entities, Call(c, k, e)
      PROVE  UpdateInv'
  <2>1. Moves(c, "check") \/ Moves(c, "monitor")
    BY <1>0, <1>1, Calling
  <2>2. call[c].at = "idle" /\ UNCHANGED <<visible, writers, entities>>
    BY <1>1 DEF Call
  <2>3. QED
    BY <1>0, <2>1, <2>2 DEF StoreInv, UpdateInv, OwnUpdatesSeen, CallsOf, Moves
<1>2. ASSUME NEW c \in Calls, Lookup(c)
      PROVE  UpdateInv'
  <2>1. /\ call'[c].at \in {"monitor", "checked"}
        /\ \A d \in Calls : d # c => call'[d] = call[d]
    BY <1>0, <1>2, LookingUp DEF Moves
  <2>2. call[c].at = "check" /\ UNCHANGED <<visible, writers, entities>>
    BY <1>2 DEF Lookup
  <2>3. QED
    BY <1>0, <2>1, <2>2 DEF StoreInv, UpdateInv, OwnUpdatesSeen, CallsOf, Moves
<1>3. ASSUME NEW c \in Calls, Conclude(c)
      PROVE  UpdateInv'
  <2>1. Moves(c, "monitor") \/ Moves(c, "idle")
    BY <1>0, <1>3, Going, Returning DEF Conclude, Steps
  <2>2. call[c].at = "checked" /\ UNCHANGED <<visible, writers, entities>>
    BY <1>3 DEF Conclude
  <2>3. QED
    BY <1>0, <2>1, <2>2 DEF StoreInv, UpdateInv, OwnUpdatesSeen, CallsOf, Moves
<1>4. ASSUME NEW c \in Calls, EnterMonitor(c)
      PROVE  UpdateInv'
  <2>1. Moves(c, "acquire")
    BY <1>0, <1>4, Going DEF EnterMonitor, Steps
  <2>2. call[c].at = "monitor" /\ UNCHANGED <<visible, writers, entities>>
    BY <1>4 DEF EnterMonitor
  <2>3. QED
    BY <1>0, <2>1, <2>2 DEF StoreInv, UpdateInv, OwnUpdatesSeen, CallsOf, Moves
<1>5. ASSUME NEW c \in Calls, Acquire(c)
      PROVE  UpdateInv'
  <2>1. Moves(c, "inside")
    BY <1>0, <1>5, Going DEF Acquire, Steps
  <2>2. call[c].at = "acquire" /\ UNCHANGED <<visible, writers, entities>>
    BY <1>5 DEF Acquire
  <2>3. QED
    BY <1>0, <2>1, <2>2 DEF StoreInv, UpdateInv, OwnUpdatesSeen, CallsOf, Moves
<1>6. ASSUME NEW c \in Calls, AcquireFails(c)
      PROVE  UpdateInv'
  <2>1. Moves(c, "idle")
    BY <1>0, <1>6, Returning DEF AcquireFails, Steps
  <2>2. call[c].at = "acquire" /\ UNCHANGED <<visible, writers, entities>>
    BY <1>6 DEF AcquireFails
  <2>3. QED
    BY <1>0, <2>1, <2>2 DEF StoreInv, UpdateInv, OwnUpdatesSeen, CallsOf, Moves
<1>7. ASSUME NEW c \in Calls, Release(c)
      PROVE  UpdateInv'
  <2>1. Moves(c, "idle")
    BY <1>0, <1>7, Returning DEF Release, Steps
  <2>2. call[c].at = "release" /\ UNCHANGED <<visible, writers, entities>>
    BY <1>7 DEF Release
  <2>3. QED
    BY <1>0, <2>1, <2>2 DEF StoreInv, UpdateInv, OwnUpdatesSeen, CallsOf, Moves
<1>8. ASSUME NEW c \in Calls, FindEntities(c)
      PROVE  UpdateInv'
  <2>1. \/ Moves(c, "release")
        \/ Moves(c, "read") /\ call'[c].listed = visible
    BY <1>0, <1>8, Finding
  <2>2. call[c].at = "inside" /\ UNCHANGED <<visible, writers, entities>>
    BY <1>8 DEF FindEntities
  <2>3. QED
    BY <1>0, <2>1, <2>2 DEF StoreInv, UpdateInv, OwnUpdatesSeen, CallsOf, Moves
<1>9. ASSUME NEW c \in Calls, CacheEntities(c)
      PROVE  UpdateInv'
  <2>1. Moves(c, "release")
    BY <1>0, <1>9, Going DEF CacheEntities, Steps
  <2>2. call[c].at = "read" /\ UNCHANGED <<visible, writers>> /\ entities' = [entities EXCEPT ![ServerOf[c]] = Put(call[c].listed)]
    BY <1>9 DEF CacheEntities
  <2>3. \A x \in entities'[ServerOf[c]] : x.value = call[c].listed
    BY <1>0, <2>2 DEF Put
  <2>4. QED
    BY <1>0, <2>1, <2>2, <2>3 DEF StoreInv, UpdateInv, OwnUpdatesSeen, CallsOf, Moves
<1>10. ASSUME NEW c \in Calls, UpdateEntity(c)
      PROVE  UpdateInv'
  <2>1. Moves(c, "written")
    BY <1>0, <1>10, Going DEF UpdateEntity, Steps
  <2>2. call'[c].kind = "update" /\ call'[c].about = call[c].about
    BY <1>0, <1>10, Going DEF UpdateEntity, Steps
  <2>3. \A d \in CallsOf(ServerOf[c]) : call'[d].at # "read"
    BY <1>0, <1>10, <2>1, OneInMonitor DEF StoreInv, UpdateEntity, CallsOf, Inside, Moves
  <2>4. ASSUME NEW e \in Entities, NEW s \in writers'[e]
        PROVE  /\ e \in visible'
               /\ s # ServerOf[c] \/ e # call[c].about => s \in writers[e]
    BY <1>0, <1>a, <1>10 DEF StoreInv, UpdateInv, OwnUpdatesSeen, CallsOf, Moves, UpdateEntity
  <2>5. UNCHANGED entities /\ call[c].at = "inside" /\ (\A s \in Servers : c \in CallsOf(s) <=> s = ServerOf[c])
    BY <1>0, <1>10 DEF UpdateEntity, CallsOf
  <2>6. ASSUME NEW e \in Entities, NEW s \in writers'[e]
        PROVE  /\ (\A d \in CallsOf(s) : call'[d].at = "written" /\ call'[d].kind = "update" => call'[d].about # e)
                  => \A x \in entities'[s] : e \in x.value
               /\ \A d \in CallsOf(s) : call'[d].at = "read" => e \in call'[d].listed
    <3>1. CASE s = ServerOf[c] /\ e = call[c].about
      BY <1>0, <2>1, <2>2, <2>3, <3>1 DEF CallsOf, Moves
    <3>2. CASE s # ServerOf[c] \/ e # call[c].about
      <4>1. s \in writers[e]
        BY <2>4, <3>2
      <4>2. QED
        BY <1>0, <2>1, <2>2, <2>5, <3>2, <4>1 DEF StoreInv, UpdateInv, OwnUpdatesSeen, CallsOf, Moves
    <3>3. QED
      BY <3>1, <3>2
  <2>7. QED
    BY <2>4, <2>6 DEF UpdateInv, OwnUpdatesSeen, CallsOf
<1>11. ASSUME NEW c \in Calls, UpdateBreaksOff(c)
      PROVE  UpdateInv'
  <2>1. Moves(c, "release")
    BY <1>0, <1>11, Going DEF UpdateBreaksOff, Steps
  <2>2. call[c].at = "inside" /\ visible \subseteq visible' /\ UNCHANGED <<writers, entities>>
    BY <1>11 DEF UpdateBreaksOff
  <2>3. QED
    BY <1>0, <2>1, <2>2 DEF StoreInv, UpdateInv, OwnUpdatesSeen, CallsOf, Moves
<1>12. ASSUME NEW c \in Calls, InvalidateEntities(c)
      PROVE  UpdateInv'
  <2>1. Moves(c, "release")
    BY <1>0, <1>12, Going DEF InvalidateEntities, Steps
  <2>2. entities' = [entities EXCEPT ![ServerOf[c]] = {}] /\ UNCHANGED <<visible, writers>>
    BY <1>12 DEF InvalidateEntities
  <2>3. QED
    BY <1>0, <2>1, <2>2 DEF StoreInv, UpdateInv, OwnUpdatesSeen, CallsOf, Moves
<1>13. ASSUME NEW c \in Calls, ChangeAccess(c)
      PROVE  UpdateInv'
  <2>1. Moves(c, "written")
    BY <1>0, <1>13, Going DEF ChangeAccess, Steps
  <2>2. call[c].at = "inside" /\ UNCHANGED <<visible, writers, entities>>
    BY <1>13 DEF ChangeAccess
  <2>3. call'[c].kind # "update"
    BY <1>0, <1>13, Going DEF ChangeAccess, Steps
  <2>4. QED
    BY <1>0, <2>1, <2>2, <2>3 DEF StoreInv, UpdateInv, OwnUpdatesSeen, CallsOf, Moves
<1>14. ASSUME NEW c \in Calls, ClearCache(c)
      PROVE  UpdateInv'
  <2>1. Moves(c, "release")
    BY <1>0, <1>14, Going DEF ClearCache, Steps
  <2>2. entities' = [entities EXCEPT ![ServerOf[c]] = {}] /\ UNCHANGED <<visible, writers>>
    BY <1>14 DEF ClearCache
  <2>3. QED
    BY <1>0, <2>1, <2>2 DEF StoreInv, UpdateInv, OwnUpdatesSeen, CallsOf, Moves
<1>15. ASSUME NEW e \in Entities, SoftDeleteEntity(e)
      PROVE  UpdateInv'
  BY <1>0, <1>15 DEF StoreInv, UpdateInv, OwnUpdatesSeen, CallsOf, Moves, SoftDeleteEntity
<1>16. ASSUME Tick
      PROVE  UpdateInv'
  <2>1. \A s \in Servers : \A y \in entities'[s] : \E x \in entities[s] : y.value = x.value
    BY <1>0, <1>16, CacheTypes DEF Tick
  <2>2. QED
    BY <1>0, <1>16, <2>1 DEF StoreInv, UpdateInv, OwnUpdatesSeen, CallsOf, Moves, Tick
<1>17. ASSUME SessionLost
      PROVE  UpdateInv'
  BY <1>0, <1>17 DEF StoreInv, UpdateInv, OwnUpdatesSeen, CallsOf, Moves, SessionLost
<1>18. ASSUME SessionExpires
      PROVE  UpdateInv'
  BY <1>0, <1>18 DEF StoreInv, UpdateInv, OwnUpdatesSeen, CallsOf, Moves, SessionExpires
<1>19. ASSUME NEW s \in Servers, ServerDies(s)
      PROVE  UpdateInv'
  <2>1. /\ \A c \in CallsOf(s) : call'[c].at = "idle"
        /\ \A c \in Calls \ CallsOf(s) : call'[c] = call[c]
        /\ entities' = [entities EXCEPT ![s] = {}]
        /\ UNCHANGED <<visible, writers>>
    BY <1>19, IdleIsThread DEF ServerDies, CallsOf
  <2>2. QED
    BY <1>0, <2>1 DEF StoreInv, UpdateInv, OwnUpdatesSeen, CallsOf, Moves
<1>20. CASE UNCHANGED storeVars
  BY <1>20 DEF StoreInv, UpdateInv, OwnUpdatesSeen, CallsOf
<1>21. QED
  BY <1>1, <1>2, <1>3, <1>4, <1>5, <1>6, <1>7, <1>8, <1>9, <1>10, <1>11, <1>12, <1>13, <1>14, <1>15, <1>16, <1>17, <1>18, <1>19, <1>20 DEF StoreNext, CallStep

-----------------------------------------------------------------------------
(* What still grants an access that was taken away.                        *)

\* What grants an access after it was taken away gets older at the pace of the clock.
LEMMA RefuseStep ==
  ASSUME StoreInv, [StoreNext]_storeVars
  PROVE  RefuseInv'
<1>0. /\ StoreTypeOK /\ RefuseInv
      /\ access \in BOOLEAN /\ ServerOf \in [Calls -> Servers]
      /\ users \in [Servers -> Caches(BOOLEAN)] /\ granted \in [Servers -> Caches({TRUE})]
  BY StoreAssumption DEF StoreInv, StoreTypeOK
<1>a. revokedFor \in Nat /\ Expiry \in Nat \ {0}
  BY <1>0, StoreAssumption DEF StoreTypeOK
<1>b. /\ \A s \in Servers : \A x \in users[s] : x.value \in BOOLEAN /\ x.age \in 0 .. Expiry - 1
      /\ \A s \in Servers : \A x \in granted[s] : x.age \in 0 .. Expiry - 1
  BY <1>0, CacheTypes
<1> USE DEF storeVars, graphVars, cacheVars, lockVars, accessHistory, boundVars
<1>1. ASSUME NEW c \in Calls, NEW k \in Kinds, NEW e \in Entities, Call(c, k, e)
      PROVE  RefuseInv'
  <2>1. Moves(c, "check") \/ Moves(c, "monitor")
    BY <1>0, <1>1, Calling
  <2>2. UNCHANGED <<access, users, granted, revokedFor>>
    BY <1>1 DEF Call
  <2>3. QED
    BY <1>0, <2>1, <2>2 DEF RefuseInv, Moves
<1>2. ASSUME NEW c \in Calls, Lookup(c)
      PROVE  RefuseInv'
  <2>1. UNCHANGED <<access, users, granted, revokedFor>>
    BY <1>2 DEF Lookup
  <2>2. \A d \in Calls : d # c => call'[d] = call[d]
    BY <1>0, <1>2, LookingUp DEF Moves
  <2>3. ASSUME ~access', call'[c].at = "checked", call'[c].allowed
        PROVE  ~call'[c].fromGraph /\ revokedFor <= Expiry - 1
    <3>1. \E x \in users[ServerOf[c]] : ~call'[c].fromGraph /\ call'[c].allowed = x.value
      BY <1>0, <1>2, <2>1, <2>3, LookingUp DEF Moves
    <3>2. QED
      BY <1>0, <1>a, <1>b, <2>1, <2>3, <3>1 DEF RefuseInv
  <2>4. QED
    BY <1>0, <2>1, <2>2, <2>3 DEF RefuseInv
<1>3. ASSUME NEW c \in Calls, Conclude(c)
      PROVE  RefuseInv'
  <2>1. Moves(c, "monitor") \/ Moves(c, "idle")
    BY <1>0, <1>3, Going, Returning DEF Conclude, Steps
  <2>2. \A d \in Calls : call'[d].at = "checked" => call'[d] = call[d]
    BY <2>1 DEF Moves
  <2>3. call[c].at = "checked" /\ UNCHANGED <<access, revokedFor>>
    BY <1>3 DEF Conclude
  <2>4. ASSUME NEW s \in Servers, NEW x \in users'[s], ~access, x.value
        PROVE  revokedFor <= x.age
    <3>1. x \in users[s] \/ (call[c].fromGraph /\ x = [value |-> call[c].allowed, age |-> 0])
      BY <1>0, <1>3, <2>4 DEF Conclude, Put
    <3>2. CASE x \in users[s]
      BY <1>0, <2>4, <3>2 DEF RefuseInv
    <3>3. CASE call[c].fromGraph /\ x = [value |-> call[c].allowed, age |-> 0]
      BY <1>0, <2>3, <2>4, <3>3 DEF RefuseInv
    <3>4. QED
      BY <3>1, <3>2, <3>3
  <2>5. ASSUME NEW s \in Servers, NEW x \in granted'[s], ~access
        PROVE  revokedFor <= x.age + (Expiry - 1)
    <3>1. x \in granted[s] \/ (call[c].allowed /\ x.age = 0)
      BY <1>0, <1>3, <2>5 DEF Conclude, Put
    <3>2. CASE x \in granted[s]
      BY <1>0, <2>5, <3>2 DEF RefuseInv
    <3>3. CASE call[c].allowed /\ x.age = 0
      BY <1>0, <1>a, <2>3, <2>5, <3>3 DEF RefuseInv
    <3>4. QED
      BY <3>1, <3>2, <3>3
  <2>6. QED
    BY <1>0, <2>2, <2>3, <2>4, <2>5 DEF RefuseInv
<1>4. ASSUME NEW c \in Calls, EnterMonitor(c)
      PROVE  RefuseInv'
  <2>1. Moves(c, "acquire")
    BY <1>0, <1>4, Going DEF EnterMonitor, Steps
  <2>2. UNCHANGED <<access, users, granted, revokedFor>>
    BY <1>4 DEF EnterMonitor
  <2>3. QED
    BY <1>0, <2>1, <2>2 DEF RefuseInv, Moves
<1>5. ASSUME NEW c \in Calls, Acquire(c)
      PROVE  RefuseInv'
  <2>1. Moves(c, "inside")
    BY <1>0, <1>5, Going DEF Acquire, Steps
  <2>2. UNCHANGED <<access, users, granted, revokedFor>>
    BY <1>5 DEF Acquire
  <2>3. QED
    BY <1>0, <2>1, <2>2 DEF RefuseInv, Moves
<1>6. ASSUME NEW c \in Calls, AcquireFails(c)
      PROVE  RefuseInv'
  <2>1. Moves(c, "idle")
    BY <1>0, <1>6, Returning DEF AcquireFails, Steps
  <2>2. UNCHANGED <<access, users, granted, revokedFor>>
    BY <1>6 DEF AcquireFails
  <2>3. QED
    BY <1>0, <2>1, <2>2 DEF RefuseInv, Moves
<1>7. ASSUME NEW c \in Calls, Release(c)
      PROVE  RefuseInv'
  <2>1. Moves(c, "idle")
    BY <1>0, <1>7, Returning DEF Release, Steps
  <2>2. UNCHANGED <<access, users, granted, revokedFor>>
    BY <1>7 DEF Release
  <2>3. QED
    BY <1>0, <2>1, <2>2 DEF RefuseInv, Moves
<1>8. ASSUME NEW c \in Calls, FindEntities(c)
      PROVE  RefuseInv'
  <2>1. Moves(c, "release") \/ Moves(c, "read")
    BY <1>0, <1>8, Finding
  <2>2. UNCHANGED <<access, users, granted, revokedFor>>
    BY <1>8 DEF FindEntities
  <2>3. QED
    BY <1>0, <2>1, <2>2 DEF RefuseInv, Moves
<1>9. ASSUME NEW c \in Calls, CacheEntities(c)
      PROVE  RefuseInv'
  <2>1. Moves(c, "release")
    BY <1>0, <1>9, Going DEF CacheEntities, Steps
  <2>2. UNCHANGED <<access, users, granted, revokedFor>>
    BY <1>9 DEF CacheEntities
  <2>3. QED
    BY <1>0, <2>1, <2>2 DEF RefuseInv, Moves
<1>10. ASSUME NEW c \in Calls, UpdateEntity(c)
      PROVE  RefuseInv'
  <2>1. Moves(c, "written")
    BY <1>0, <1>10, Going DEF UpdateEntity, Steps
  <2>2. UNCHANGED <<access, users, granted, revokedFor>>
    BY <1>10 DEF UpdateEntity
  <2>3. QED
    BY <1>0, <2>1, <2>2 DEF RefuseInv, Moves
<1>11. ASSUME NEW c \in Calls, UpdateBreaksOff(c)
      PROVE  RefuseInv'
  <2>1. Moves(c, "release")
    BY <1>0, <1>11, Going DEF UpdateBreaksOff, Steps
  <2>2. UNCHANGED <<access, users, granted, revokedFor>>
    BY <1>11 DEF UpdateBreaksOff
  <2>3. QED
    BY <1>0, <2>1, <2>2 DEF RefuseInv, Moves
<1>12. ASSUME NEW c \in Calls, InvalidateEntities(c)
      PROVE  RefuseInv'
  <2>1. Moves(c, "release")
    BY <1>0, <1>12, Going DEF InvalidateEntities, Steps
  <2>2. UNCHANGED <<access, users, granted, revokedFor>>
    BY <1>12 DEF InvalidateEntities
  <2>3. QED
    BY <1>0, <2>1, <2>2 DEF RefuseInv, Moves
<1>13. ASSUME NEW c \in Calls, ChangeAccess(c)
      PROVE  RefuseInv'
  <2>1. Moves(c, "written")
    BY <1>0, <1>13, Going DEF ChangeAccess, Steps
  <2>2. /\ UNCHANGED <<users, granted>>
        /\ ~access' => revokedFor' = IF access THEN 0 ELSE revokedFor
    BY <1>13 DEF ChangeAccess
  <2>3. CASE access
    BY <1>a, <1>b, <2>1, <2>2, <2>3 DEF RefuseInv, Moves
  <2>4. CASE ~access
    BY <1>0, <2>1, <2>2, <2>4 DEF RefuseInv, Moves
  <2>5. QED
    BY <2>3, <2>4
<1>14. ASSUME NEW c \in Calls, ClearCache(c)
      PROVE  RefuseInv'
  <2>1. Moves(c, "release")
    BY <1>0, <1>14, Going DEF ClearCache, Steps
  <2>2. /\ users' = [users EXCEPT ![ServerOf[c]] = {}] /\ granted' = [granted EXCEPT ![ServerOf[c]] = {}]
        /\ UNCHANGED <<access, revokedFor>>
    BY <1>14 DEF ClearCache
  <2>3. QED
    BY <1>0, <2>1, <2>2 DEF RefuseInv, Moves
<1>15. ASSUME NEW e \in Entities, SoftDeleteEntity(e)
      PROVE  RefuseInv'
  BY <1>0, <1>15 DEF RefuseInv, SoftDeleteEntity
<1>16. ASSUME Tick
      PROVE  RefuseInv'
  <2>1. /\ \A s \in Servers : \A y \in users'[s] : \E x \in users[s] : y.value = x.value /\ y.age = x.age + 1
        /\ \A s \in Servers : \A y \in granted'[s] : \E x \in granted[s] : y.age = x.age + 1
    BY <1>0, <1>16, CacheTypes DEF Tick
  <2>2. /\ ~access' => ~access /\ revokedFor' = revokedFor + 1
        /\ \A c \in Calls : call'[c].at # "checked"
    BY <1>0, <1>16 DEF Tick
  <2>3. QED
    BY <1>0, <1>a, <1>b, <2>1, <2>2 DEF RefuseInv
<1>17. ASSUME SessionLost
      PROVE  RefuseInv'
  BY <1>0, <1>17 DEF RefuseInv, SessionLost
<1>18. ASSUME SessionExpires
      PROVE  RefuseInv'
  BY <1>0, <1>18 DEF RefuseInv, SessionExpires
<1>19. ASSUME NEW s \in Servers, ServerDies(s)
      PROVE  RefuseInv'
  <2>1. /\ \A c \in Calls : call'[c].at = "idle" \/ call'[c] = call[c]
        /\ users' = [users EXCEPT ![s] = {}] /\ granted' = [granted EXCEPT ![s] = {}]
        /\ UNCHANGED <<access, revokedFor>>
    BY <1>19, IdleIsThread DEF ServerDies
  <2>2. QED
    BY <1>0, <2>1 DEF RefuseInv
<1>20. CASE UNCHANGED storeVars
  BY <1>20 DEF StoreInv, RefuseInv
<1>21. QED
  BY <1>1, <1>2, <1>3, <1>4, <1>5, <1>6, <1>7, <1>8, <1>9, <1>10, <1>11, <1>12, <1>13, <1>14, <1>15, <1>16, <1>17, <1>18, <1>19, <1>20 DEF StoreNext, CallStep

-----------------------------------------------------------------------------
(* The server that took an access away.                                    *)

\* A check that finds the access after the caches were cleared read the graph before it was taken away.
LEMMA RevokeStep ==
  ASSUME StoreInv, [StoreNext]_storeVars
  PROVE  RevokeInv'
<1>0. /\ StoreTypeOK /\ RevokeInv
      /\ access \in BOOLEAN /\ foundBefore \in BOOLEAN /\ ServerOf \in [Calls -> Servers]
      /\ revokedBy \in Servers \cup {NoServer} /\ NoServer \notin Servers
      /\ users \in [Servers -> Caches(BOOLEAN)] /\ granted \in [Servers -> Caches({TRUE})]
  BY StoreAssumption DEF StoreInv, StoreTypeOK
<1>a. \A s \in Servers : \A x \in users[s] : x.value \in BOOLEAN
  BY <1>0, CacheTypes
<1> USE DEF storeVars, graphVars, cacheVars, lockVars, accessHistory, boundVars
<1>1. ASSUME NEW c \in Calls, NEW k \in Kinds, NEW e \in Entities, Call(c, k, e)
      PROVE  RevokeInv'
  <2>1. Moves(c, "check") \/ Moves(c, "monitor")
    BY <1>0, <1>1, Calling
  <2>2. call[c].at = "idle" /\ UNCHANGED <<users, granted>> /\ UNCHANGED <<access, revokedBy, foundBefore>>
    BY <1>1 DEF Call
  <2>3. QED
    BY <1>0, <2>1, <2>2 DEF RevokeInv, HasFound, CallsOf, Moves
<1>2. ASSUME NEW c \in Calls, Lookup(c)
      PROVE  RevokeInv'
  <2>1. /\ call[c].at = "check" /\ UNCHANGED <<users, granted>>
        /\ UNCHANGED <<access, revokedBy, foundBefore>>
    BY <1>2 DEF Lookup
  <2>2. /\ call'[c].at # "written"
        /\ \A d \in Calls : d # c => call'[d] = call[d]
    BY <1>0, <1>2, LookingUp DEF Moves
  <2>3. ASSUME call'[c].at = "checked", ~access, \A x \in users[ServerOf[c]] : ~x.value
        PROVE  ~call'[c].allowed
    BY <1>0, <1>a, <1>2, <2>3, LookingUp DEF Moves
  <2>4. QED
    BY <1>0, <2>1, <2>2, <2>3 DEF RevokeInv, HasFound, CallsOf
<1>3. ASSUME NEW c \in Calls, Conclude(c)
      PROVE  RevokeInv'
  <2>1. Moves(c, "monitor") \/ Moves(c, "idle")
    BY <1>0, <1>3, Going, Returning DEF Conclude, Steps
  <2>2. /\ call[c].at = "checked" /\ UNCHANGED <<access, revokedBy, foundBefore>>
        /\ granted' # granted => call[c].allowed
        /\ \A s \in Servers : s # ServerOf[c] => users'[s] = users[s] /\ granted'[s] = granted[s]
        /\ \A x \in users'[ServerOf[c]] : x \in users[ServerOf[c]] \/ x.value = call[c].allowed
    BY <1>0, <1>3 DEF Conclude, Put
  <2>3. ASSUME NEW s \in Servers, revokedBy' = s, ~foundBefore',
               \A d \in CallsOf(s) : call'[d].at = "written" => call'[d].kind = "update"
        PROVE  granted'[s] = {} /\ (\A x \in users'[s] : ~x.value) /\ ~HasFound(s)'
    <3>1. granted[s] = {} /\ (\A x \in users[s] : ~x.value) /\ ~HasFound(s)
      BY <1>0, <2>1, <2>2, <2>3 DEF RevokeInv, CallsOf, Moves
    <3>2. ~HasFound(s)'
      BY <1>0, <2>1, <3>1 DEF HasFound, CallsOf, Moves
    <3>3. CASE s = ServerOf[c]
      <4>1. ~call[c].allowed
        BY <2>2, <3>1, <3>3 DEF HasFound, CallsOf
      <4>2. QED
        BY <2>2, <3>1, <3>2, <3>3, <4>1
    <3>4. CASE s # ServerOf[c]
      BY <2>2, <3>1, <3>2, <3>4
    <3>5. QED
      BY <3>3, <3>4
  <2>4. QED
    BY <1>0, <2>2, <2>3 DEF RevokeInv
<1>4. ASSUME NEW c \in Calls, EnterMonitor(c)
      PROVE  RevokeInv'
  <2>1. Moves(c, "acquire")
    BY <1>0, <1>4, Going DEF EnterMonitor, Steps
  <2>2. call[c].at = "monitor" /\ UNCHANGED <<users, granted>> /\ UNCHANGED <<access, revokedBy, foundBefore>>
    BY <1>4 DEF EnterMonitor
  <2>3. QED
    BY <1>0, <2>1, <2>2 DEF RevokeInv, HasFound, CallsOf, Moves
<1>5. ASSUME NEW c \in Calls, Acquire(c)
      PROVE  RevokeInv'
  <2>1. Moves(c, "inside")
    BY <1>0, <1>5, Going DEF Acquire, Steps
  <2>2. call[c].at = "acquire" /\ UNCHANGED <<users, granted>> /\ UNCHANGED <<access, revokedBy, foundBefore>>
    BY <1>5 DEF Acquire
  <2>3. QED
    BY <1>0, <2>1, <2>2 DEF RevokeInv, HasFound, CallsOf, Moves
<1>6. ASSUME NEW c \in Calls, AcquireFails(c)
      PROVE  RevokeInv'
  <2>1. Moves(c, "idle")
    BY <1>0, <1>6, Returning DEF AcquireFails, Steps
  <2>2. call[c].at = "acquire" /\ UNCHANGED <<users, granted>> /\ UNCHANGED <<access, revokedBy, foundBefore>>
    BY <1>6 DEF AcquireFails
  <2>3. QED
    BY <1>0, <2>1, <2>2 DEF RevokeInv, HasFound, CallsOf, Moves
<1>7. ASSUME NEW c \in Calls, Release(c)
      PROVE  RevokeInv'
  <2>1. Moves(c, "idle")
    BY <1>0, <1>7, Returning DEF Release, Steps
  <2>2. call[c].at = "release" /\ UNCHANGED <<users, granted>> /\ UNCHANGED <<access, revokedBy, foundBefore>>
    BY <1>7 DEF Release
  <2>3. QED
    BY <1>0, <2>1, <2>2 DEF RevokeInv, HasFound, CallsOf, Moves
<1>8. ASSUME NEW c \in Calls, FindEntities(c)
      PROVE  RevokeInv'
  <2>1. Moves(c, "release") \/ Moves(c, "read")
    BY <1>0, <1>8, Finding
  <2>2. call[c].at = "inside" /\ UNCHANGED <<users, granted>> /\ UNCHANGED <<access, revokedBy, foundBefore>>
    BY <1>8 DEF FindEntities
  <2>3. QED
    BY <1>0, <2>1, <2>2 DEF RevokeInv, HasFound, CallsOf, Moves
<1>9. ASSUME NEW c \in Calls, CacheEntities(c)
      PROVE  RevokeInv'
  <2>1. Moves(c, "release")
    BY <1>0, <1>9, Going DEF CacheEntities, Steps
  <2>2. call[c].at = "read" /\ UNCHANGED <<users, granted>> /\ UNCHANGED <<access, revokedBy, foundBefore>>
    BY <1>9 DEF CacheEntities
  <2>3. QED
    BY <1>0, <2>1, <2>2 DEF RevokeInv, HasFound, CallsOf, Moves
<1>10. ASSUME NEW c \in Calls, UpdateEntity(c)
      PROVE  RevokeInv'
  <2>1. Moves(c, "written")
    BY <1>0, <1>10, Going DEF UpdateEntity, Steps
  <2>2. call[c].at = "inside" /\ UNCHANGED <<users, granted>> /\ UNCHANGED <<access, revokedBy, foundBefore>>
    BY <1>10 DEF UpdateEntity
  <2>3. QED
    BY <1>0, <2>1, <2>2 DEF RevokeInv, HasFound, CallsOf, Moves
<1>11. ASSUME NEW c \in Calls, UpdateBreaksOff(c)
      PROVE  RevokeInv'
  <2>1. Moves(c, "release")
    BY <1>0, <1>11, Going DEF UpdateBreaksOff, Steps
  <2>2. call[c].at = "inside" /\ UNCHANGED <<users, granted>> /\ UNCHANGED <<access, revokedBy, foundBefore>>
    BY <1>11 DEF UpdateBreaksOff
  <2>3. QED
    BY <1>0, <2>1, <2>2 DEF RevokeInv, HasFound, CallsOf, Moves
<1>12. ASSUME NEW c \in Calls, InvalidateEntities(c)
      PROVE  RevokeInv'
  <2>1. Moves(c, "release")
    BY <1>0, <1>12, Going DEF InvalidateEntities, Steps
  <2>2. call[c].at = "written" /\ call[c].kind = "update" /\ UNCHANGED <<users, granted>> /\ UNCHANGED <<access, revokedBy, foundBefore>>
    BY <1>12 DEF InvalidateEntities
  <2>3. QED
    BY <1>0, <2>1, <2>2 DEF RevokeInv, HasFound, CallsOf, Moves
<1>13. ASSUME NEW c \in Calls, ChangeAccess(c)
      PROVE  RevokeInv'
  <2>1. Moves(c, "written")
    BY <1>0, <1>13, Going DEF ChangeAccess, Steps
  <2>2. /\ call'[c].kind # "update"
        /\ revokedBy' = IF access' THEN NoServer ELSE ServerOf[c]
    BY <1>0, <1>13, Going DEF ChangeAccess, Steps
  <2>3. QED
    BY <1>0, <2>1, <2>2 DEF RevokeInv, HasFound, CallsOf, Moves
<1>14. ASSUME NEW c \in Calls, ClearCache(c)
      PROVE  RevokeInv'
  <2>1. Moves(c, "release")
    BY <1>0, <1>14, Going DEF ClearCache, Steps
  <2>2. /\ users' = [users EXCEPT ![ServerOf[c]] = {}] /\ granted' = [granted EXCEPT ![ServerOf[c]] = {}]
        /\ UNCHANGED <<access, revokedBy>>
        /\ foundBefore' = (foundBefore \/ (revokedBy = ServerOf[c] /\ HasFound(ServerOf[c])))
    BY <1>14 DEF ClearCache
  <2>3. ASSUME NEW s \in Servers, revokedBy = s, ~foundBefore',
               \A d \in CallsOf(s) : call'[d].at = "written" => call'[d].kind = "update"
        PROVE  granted'[s] = {} /\ (\A x \in users'[s] : ~x.value) /\ ~HasFound(s)'
    <3>1. CASE s = ServerOf[c]
      BY <1>0, <2>1, <2>2, <2>3, <3>1 DEF HasFound, CallsOf, Moves
    <3>2. CASE s # ServerOf[c]
      BY <1>0, <2>1, <2>2, <2>3, <3>2 DEF RevokeInv, HasFound, CallsOf, Moves
    <3>3. QED
      BY <3>1, <3>2
  <2>4. QED
    BY <1>0, <2>2, <2>3 DEF RevokeInv
<1>15. ASSUME NEW e \in Entities, SoftDeleteEntity(e)
      PROVE  RevokeInv'
  BY <1>0, <1>15 DEF RevokeInv, HasFound, CallsOf, SoftDeleteEntity
<1>16. ASSUME Tick
      PROVE  RevokeInv'
  <2>1. /\ \A s \in Servers : \A y \in users'[s] : \E x \in users[s] : y.value = x.value
        /\ \A s \in Servers : \A y \in granted'[s] : \E x \in granted[s] : y.value = x.value
    BY <1>0, <1>16, CacheTypes DEF Tick
  <2>2. UNCHANGED <<access, revokedBy, foundBefore>> /\ UNCHANGED call
    BY <1>16 DEF Tick
  <2>3. QED
    BY <1>0, <1>a, <2>1, <2>2 DEF RevokeInv, HasFound, CallsOf
<1>17. ASSUME SessionLost
      PROVE  RevokeInv'
  BY <1>0, <1>17 DEF RevokeInv, HasFound, CallsOf, SessionLost
<1>18. ASSUME SessionExpires
      PROVE  RevokeInv'
  BY <1>0, <1>18 DEF RevokeInv, HasFound, CallsOf, SessionExpires
<1>19. ASSUME NEW s \in Servers, ServerDies(s)
      PROVE  RevokeInv'
  <2>1. /\ \A c \in CallsOf(s) : call'[c].at = "idle"
        /\ \A c \in Calls \ CallsOf(s) : call'[c] = call[c]
        /\ users' = [users EXCEPT ![s] = {}] /\ granted' = [granted EXCEPT ![s] = {}]
        /\ UNCHANGED <<access, revokedBy, foundBefore>>
    BY <1>19, IdleIsThread DEF ServerDies, CallsOf
  <2>2. QED
    BY <1>0, <2>1 DEF RevokeInv, HasFound, CallsOf
<1>20. CASE UNCHANGED storeVars
  BY <1>20 DEF StoreInv, RevokeInv, HasFound, CallsOf
<1>21. QED
  BY <1>1, <1>2, <1>3, <1>4, <1>5, <1>6, <1>7, <1>8, <1>9, <1>10, <1>11, <1>12, <1>13, <1>14, <1>15, <1>16, <1>17, <1>18, <1>19, <1>20 DEF StoreNext, CallStep

-----------------------------------------------------------------------------
(* The theorems.                                                           *)

LEMMA InitInv == StoreInit => StoreInv
<1> SUFFICES ASSUME StoreInit PROVE StoreInv
  OBVIOUS
<1>1. \A c \in Calls : call[c] = Idle
  BY DEF StoreInit
<1>2. StoreTypeOK
  <2>1. call \in [Calls -> Threads]
    BY IdleIsThread DEF StoreInit
  <2>2. 0 \in 0 .. MaxTicks /\ 0 \in 0 .. MaxStarted /\ 0 \in 0 .. MaxStoreFaults
    BY StoreAssumption
  <2>3. QED
    BY <2>1, <2>2, TypeFacts DEF StoreInit, StoreTypeOK, Threads
<1>3. LockInv
  BY <1>1, IdleIsThread DEF StoreInit, LockInv, HoldersGoOn, Inside
<1>4. UpdateInv
  BY DEF StoreInit, UpdateInv, OwnUpdatesSeen
<1>5. RefuseInv
  BY DEF StoreInit, RefuseInv
<1>6. RevokeInv
  BY StoreAssumption DEF StoreInit, RevokeInv
<1>7. QED
  BY <1>2, <1>3, <1>4, <1>5, <1>6 DEF StoreInv

LEMMA StepInv == StoreInv /\ [StoreNext]_storeVars => StoreInv'
<1> SUFFICES ASSUME StoreInv, [StoreNext]_storeVars PROVE StoreInv'
  OBVIOUS
<1>1. StoreTypeOK
  BY DEF StoreInv
<1>2. QED
  BY <1>1, TypeStep, LockStep, UpdateStep, RefuseStep, RevokeStep DEF StoreInv

LEMMA Invariance == StoreSpec => []StoreInv
  BY InitInv, StepInv, PTL DEF StoreSpec

(***************************************************************************)
(* The graph, the caches, the locks and the calls keep their types.        *)
(***************************************************************************)
THEOREM StoreTypes == StoreSpec => []StoreTypeOK
<1>1. StoreInv => StoreTypeOK
  BY DEF StoreInv
<1>2. QED
  BY <1>1, Invariance, PTL

(***************************************************************************)
(* Two calls are in callables of the lock at a time only when a ZooKeeper  *)
(* session was lost, and even then not in the same server.                 *)
(***************************************************************************)
THEOREM MutualExclusion == StoreSpec => []OneInside
<1>1. StoreInv => OneInside
  BY DEF StoreInv, LockInv, OneInside
<1>2. QED
  BY <1>1, Invariance, PTL

(***************************************************************************)
(* The monitor of a server and the mutex are held by calls that go on.     *)
(***************************************************************************)
THEOREM NobodyIsWaitedForIdly == StoreSpec => []HoldersGoOn
<1>1. StoreInv => HoldersGoOn
  BY DEF StoreInv, LockInv
<1>2. QED
  BY <1>1, Invariance, PTL

(***************************************************************************)
(* A server that updated an entity lists it from then on, until it is      *)
(* removed, for any number of servers and lost sessions.                   *)
(***************************************************************************)
THEOREM UpdatesAreListed == StoreSpec => []OwnUpdatesSeen
<1>1. StoreInv => OwnUpdatesSeen
  BY DEF StoreInv, UpdateInv
<1>2. QED
  BY <1>1, Invariance, PTL

(***************************************************************************)
(* Nothing that a server has cached grants an access that was taken away   *)
(* on it, but for a check that was under way.                              *)
(***************************************************************************)
THEOREM RevokedAtOnce == StoreSpec => []RevokedWhereRevoked
<1>1. StoreInv => RevokedWhereRevoked
  BY DEF StoreInv, RevokeInv, RevokedWhereRevoked
<1>2. QED
  BY <1>1, Invariance, PTL

\* Only a check lets a call go on to the lock.
LEMMA PassedByACheck ==
  ASSUME StoreTypeOK, [StoreNext]_storeVars, NEW c \in Calls,
         call[c].at \in {"check", "checked"}, call'[c].at = "monitor"
  PROVE  Lookup(c) \/ Conclude(c)
<1>1. ASSUME NEW d \in Calls, NEW k \in Kinds, NEW e \in Entities, Call(d, k, e)
      PROVE  FALSE
  <2>1. d # c
    BY <1>1 DEF Call
  <2>2. QED
    BY <1>1, <2>1, Calling DEF Moves
<1>2. ASSUME NEW d \in Calls, CallStep(d), d # c
      PROVE  FALSE
  <2>1. CASE Lookup(d)
    BY <1>2, <2>1, LookingUp DEF Moves
  <2>2. CASE FindEntities(d)
    BY <1>2, <2>2, Finding DEF Moves
  <2>3. CASE Return(d)
    BY <1>2, <2>3, Returning DEF Moves
  <2>4. ASSUME NEW step \in Steps, Go(d, step)
        PROVE  FALSE
    BY <1>2, <2>4, Going DEF Moves
  <2>5. QED
    BY <1>2, <2>1, <2>2, <2>3, <2>4
       DEF CallStep, Conclude, EnterMonitor, Acquire, AcquireFails, Release, CacheEntities, UpdateEntity,
           UpdateBreaksOff, InvalidateEntities, ChangeAccess, ClearCache, Steps
<1>3. ASSUME CallStep(c)
      PROVE  Lookup(c) \/ Conclude(c)
  BY <1>3 DEF CallStep, EnterMonitor, Acquire, AcquireFails, Release, FindEntities, CacheEntities, UpdateEntity,
              UpdateBreaksOff, InvalidateEntities, ChangeAccess, ClearCache
<1>4. ASSUME NEW s \in Servers, ServerDies(s)
      PROVE  FALSE
  BY <1>4, IdleIsThread DEF ServerDies
<1>5. UNCHANGED call => FALSE
  OBVIOUS
<1>6. QED
  BY <1>1, <1>2, <1>3, <1>4, <1>5 DEF StoreNext, storeVars, SoftDeleteEntity, Tick, SessionLost, SessionExpires

(***************************************************************************)
(* A member whose access was taken away passes no check on any server      *)
(* after twice the time that things are cached for.                        *)
(***************************************************************************)
THEOREM RefusedEverywhere == StoreSpec => RefusedInTime
<1>1. ASSUME StoreInv, [StoreNext]_storeVars, NEW c \in Calls,
             call[c].at \in {"check", "checked"}, call'[c].at = "monitor", ~access
      PROVE  revokedFor < 2 * Expiry - 1
  <2>a. StoreTypeOK
    BY <1>1 DEF StoreInv
  <2>b. revokedFor \in Nat /\ Expiry \in Nat \ {0}
    BY <2>a, StoreAssumption DEF StoreTypeOK
  <2>1. /\ revokedFor \in Nat /\ Expiry \in Nat \ {0} /\ StoreTypeOK
        /\ ServerOf[c] \in Servers /\ granted \in [Servers -> Caches({TRUE})]
    BY <2>a, <2>b, StoreAssumption DEF StoreTypeOK
  <2>2. Lookup(c) \/ Conclude(c)
    BY <1>1, PassedByACheck DEF StoreInv
  <2>3. CASE Lookup(c)
    <3>1. granted[ServerOf[c]] # {}
      BY <1>1, <2>1, <2>3, LookingUp DEF Moves
    <3>2. PICK x \in granted[ServerOf[c]] : TRUE
      BY <3>1
    <3>3. x.age \in 0 .. Expiry - 1
      BY <2>1, CacheTypes
    <3>4. revokedFor <= x.age + (Expiry - 1)
      BY <1>1, <2>1 DEF StoreInv, RefuseInv
    <3>5. QED
      BY <2>1, <3>3, <3>4
  <2>4. CASE Conclude(c)
    <3>1. call[c].at = "checked" /\ call[c].allowed
      BY <1>1, <2>1, <2>4, Returning DEF Conclude, Moves
    <3>2. revokedFor <= IF call[c].fromGraph THEN 0 ELSE Expiry - 1
      BY <1>1, <3>1 DEF StoreInv, RefuseInv
    <3>3. QED
      BY <2>1, <3>2
  <2>5. QED
    BY <2>2, <2>3, <2>4
<1>2. StoreInv /\ [StoreNext]_storeVars =>
        \A c \in Calls : call[c].at \in {"check", "checked"} /\ call'[c].at = "monitor" /\ ~access
                         => revokedFor < 2 * Expiry - 1
  BY <1>1
<1>3. QED
  BY <1>2, Invariance, PTL DEF StoreSpec, RefusedInTime

-----------------------------------------------------------------------------
(* The panel of unpublished changes.                                       *)

DiffInv == MarksAreWhole

Marks == [Rows -> {"none", "publish", "undo"}]

\* cleared and released, if the rows are m after buttons of that action were clicked
Cleared(action, m) ==
  (cleared \cup IF action = "undo" THEN {d \in Rows : marks[d] = "publish" /\ m[d] = "none"} ELSE {})
    \ MarkedIn(m, "publish")
Released(action, m) ==
  (released \cup IF action = "publish" THEN {d \in Rows : marks[d] = "undo" /\ m[d] = "none"} ELSE {})
    \ MarkedIn(m, "undo")

\* Clicks of one action lead to no marks of the other, and leave all whole
WholeIn(action, m) ==
  /\ m \in Marks
  /\ \A d \in Rows : diffs[d] = "none" => m[d] = "none"
  /\ \A d \in Rows : m[d] # "none" /\ m[d] # action => marks[d] = m[d]
  /\ \A d \in Rows : m[d] = "publish" =>
       \A x \in Needs(d) : m[x] = "publish" \/ x \in Cleared(action, m)
  /\ \A d \in Rows : m[d] = "undo" /\ diffs[d] = "created" /\ d \notin PropertyRows =>
       \A x \in Below(d) : m[x] = "undo" \/ x \in Released(action, m)

-----------------------------------------------------------------------------
(* What depends on what.                                                   *)

\* A vertex is about itself, an edge about vertices, and a property about a vertex or an edge
LEMMA RowsDepend ==
  /\ \A d \in Rows : Elements(d) \subseteq VertexRows \cup EdgeRows
  /\ \A d \in VertexRows : Elements(d) = {}
  /\ \A d \in EdgeRows : Elements(d) \subseteq VertexRows
  /\ Rows = VertexRows \cup EdgeRows \cup PropertyRows
  /\ VertexRows \cap EdgeRows = {} /\ PropertyRows \cap (VertexRows \cup EdgeRows) = {}
<1>1. \A d \in VertexRows : Elements(d) = {}
  BY DiffPanelAssumption DEF Elements
<1>2. \A d \in EdgeRows : Elements(d) \subseteq VertexRows
  BY DiffPanelAssumption DEF Elements
<1>3. \A d \in PropertyRows : Elements(d) \subseteq VertexRows \cup EdgeRows
  BY DiffPanelAssumption DEF Elements
<1>4. QED
  BY <1>1, <1>2, <1>3, DiffPanelAssumption DEF Rows

\* What the server reports about an element and what is about it
LEMMA ReportsAgree ==
  ASSUME diffs \in Reports
  PROVE  /\ diffs \in [Rows -> {"none", "created", "deleted"}]
         /\ \A d \in Rows : \A x \in Elements(d) :
              diffs[x] = "created" => diffs[d] \in {"none", "created"}
         /\ \A d \in EdgeRows : \A x \in Elements(d) :
              diffs[x] # "none" => diffs[d] \in {"none", diffs[x]}
<1>1. /\ diffs \in [Rows -> {"none", "created", "deleted"}]
      /\ \A p \in PropertyRows : diffs[p] # "deleted"
      /\ \A e \in EdgeRows : \A v \in Elements(e) : diffs[v] # "none" => diffs[e] \in {diffs[v], "none"}
  BY DEF Reports
<1>2. QED
  BY <1>1, RowsDepend

LEMMA AreBelow ==
  ASSUME NEW d, NEW x
  PROVE  x \in Below(d) <=>
           /\ x \in Shown
           /\ d \in Elements(x) \/ \E y \in Shown : d \in Elements(y) /\ y \in Elements(x)
BY DEF Below, Dependents

LEMMA AreAbove ==
  ASSUME NEW d, NEW x
  PROVE  x \in Above(d) <=>
           /\ x \in Shown
           /\ x \in Elements(d) \/ \E w \in Shown : w \in Elements(d) /\ x \in Elements(w)
<1> DEFINE up == Elements(d) \cap Shown
<1>1. x \in Above(d) <=> x \in up \/ \E w \in up : x \in Elements(w) \cap Shown
  BY DEF Above
<1>2. QED
  BY <1>1

LEMMA AreNeeded ==
  ASSUME NEW d, NEW x
  PROVE  x \in Needs(d) <=>
           /\ diffs[x] = "created"
           /\ \/ x \in Elements(d) /\ diffs[d] # "deleted"
              \/ \E y \in Elements(d) :
                   diffs[y] = "created" /\ diffs[d] # "deleted" /\ x \in Elements(y) /\ diffs[y] # "deleted"
BY DEF Needs

\* What is below what is below d is below d
LEMMA BelowBelow ==
  ASSUME diffs \in Reports, NEW d \in Rows, NEW y \in Below(d), NEW x \in Below(y)
  PROVE  x \in Below(d)
<1>1. x \in Shown /\ y \in Shown /\ x \in Rows /\ y \in Rows
  BY AreBelow DEF Shown
<1>2. Elements(y) # {}
  BY AreBelow
<1>3. y \in EdgeRows \/ y \in PropertyRows
  BY <1>1, <1>2, RowsDepend
<1>4. y \in VertexRows \cup EdgeRows
  <2>1. CASE y \in Elements(x)
    BY <1>1, <2>1, RowsDepend
  <2>2. CASE y \notin Elements(x)
    <3>1. PICK z \in Shown : y \in Elements(z)
      BY <2>2, AreBelow
    <3>2. QED
      BY <3>1, RowsDepend DEF Shown
  <2>3. QED
    BY <2>1, <2>2
<1>5. y \in EdgeRows
  BY <1>3, <1>4, RowsDepend
<1>6. Elements(y) \subseteq VertexRows
  BY <1>5, RowsDepend
<1>7. d \in Elements(y)
  <2>1. \A z \in Elements(y) : Elements(z) = {}
    BY <1>6, RowsDepend
  <2>2. QED
    BY <2>1, AreBelow
<1>8. y \in Elements(x)
  <2>1. \A z \in Shown : y \in Elements(z) => z \notin VertexRows /\ z \notin EdgeRows
    BY <1>5, RowsDepend DEF Shown
  <2>2. \A z \in Shown : y \in Elements(z) => z \notin Elements(x)
    BY <1>1, <2>1, RowsDepend
  <2>3. QED
    BY <2>2, AreBelow
<1>9. QED
  BY <1>1, <1>7, <1>8, AreBelow

\* A row that is there needs those, and only those, new elements that it is below
LEMMA NeededIsAbove ==
  ASSUME diffs \in Reports, NEW d \in Shown, NEW x \in Rows
  PROVE  x \in Needs(d) <=> diffs[x] = "created" /\ d \in Below(x) 
<1>1. d \in Rows /\ diffs[d] # "none"
  BY DEF Shown
<1>2. ASSUME x \in Needs(d)
      PROVE  diffs[x] = "created" /\ d \in Below(x)
  <2>1. diffs[x] = "created"
    BY <1>2, AreNeeded
  <2>2. CASE x \in Elements(d)
    BY <2>1, <2>2, AreBelow
  <2>3. CASE x \notin Elements(d)
    <3>1. PICK y \in Elements(d) : diffs[y] = "created" /\ x \in Elements(y)
      BY <1>2, <2>3, AreNeeded
    <3>2. y \in Shown
      BY <1>1, <3>1, RowsDepend DEF Shown
    <3>3. QED
      BY <2>1, <3>1, <3>2, AreBelow
  <2>4. QED
    BY <2>2, <2>3
<1>3. ASSUME diffs[x] = "created", d \in Below(x)
      PROVE  x \in Needs(d)
  <2>1. CASE x \in Elements(d)
    <3>1. diffs[d] # "deleted"
      BY <1>1, <1>3, <2>1, ReportsAgree
    <3>2. QED
      BY <1>3, <2>1, <3>1, AreNeeded
  <2>2. CASE x \notin Elements(d)
    <3>1. PICK y \in Shown : x \in Elements(y) /\ y \in Elements(d)
      BY <1>3, <2>2, AreBelow
    <3>2. y \in Rows /\ diffs[y] # "none"
      BY DEF Shown
    <3>3. diffs[y] = "created"
      BY <1>3, <3>1, <3>2, ReportsAgree
    <3>4. diffs[d] # "deleted"
      BY <1>1, <3>1, <3>3, ReportsAgree
    <3>5. QED
      BY <1>3, <3>1, <3>3, <3>4, AreNeeded
  <2>3. QED
    BY <2>1, <2>2
<1>4. QED
  BY <1>2, <1>3

\* What is needed is a new vertex or edge
LEMMA NeededIsElement ==
  ASSUME diffs \in Reports, NEW d \in Rows, NEW x \in Needs(d)
  PROVE  x \in Shown /\ x \in Rows /\ x \notin PropertyRows /\ diffs[x] = "created"
<1>1. diffs[x] = "created"
  BY AreNeeded
<1>2. x \in VertexRows \cup EdgeRows
  <2>1. CASE x \in Elements(d)
    BY <2>1, RowsDepend
  <2>2. CASE x \notin Elements(d)
    <3>1. PICK y \in Elements(d) : x \in Elements(y)
      BY <2>2, AreNeeded
    <3>2. y \in Rows
      BY <3>1, RowsDepend
    <3>3. QED
      BY <3>1, <3>2, RowsDepend
  <2>3. QED
    BY <2>1, <2>2
<1>3. QED
  BY <1>1, <1>2, RowsDepend DEF Shown

\* What a row that d needs needs itself, d needs
LEMMA NeedsNeeds ==
  ASSUME diffs \in Reports, NEW d \in Shown, NEW y \in Needs(d), NEW x \in Needs(y)
  PROVE  x \in Needs(d)
<1>1. d \in Rows
  BY DEF Shown
<1>2. y \in Shown /\ y \in Rows
  BY <1>1, NeededIsElement
<1>3. x \in Rows /\ diffs[x] = "created"
  BY <1>2, NeededIsElement
<1>4. y \in Below(x)
  BY <1>2, <1>3, NeededIsAbove
<1>5. d \in Below(y)
  BY <1>2, NeededIsAbove
<1>6. d \in Below(x)
  BY <1>3, <1>4, <1>5, BelowBelow
<1>7. QED
  BY <1>3, <1>6, NeededIsAbove

\* What is above d, and shown, is above what is above d
LEMMA AboveAbove ==
  ASSUME diffs \in Reports, NEW d \in Shown, NEW y \in {d} \cup Above(d), NEW z \in Shown, y \in Below(z)
  PROVE  z \in Above(d)
<1>1. d \in Rows /\ z \in Rows
  BY DEF Shown
<1>3. CASE y = d
  BY <1>3, AreBelow, AreAbove
<1>4. CASE y \in Above(d)
  <2>1. y \in Shown /\ y \in Rows
    <3>1. y \in Shown
      BY <1>4, AreAbove
    <3>2. QED
      BY <3>1 DEF Shown
  <2>2. Elements(y) # {}
    BY AreBelow
  <2>3. y \notin VertexRows
    BY <2>2, RowsDepend
  <2>4. y \in Elements(d)
    <3>1. \A w \in Shown : w \in Elements(d) /\ y \in Elements(w) => FALSE
      <4>1. SUFFICES ASSUME NEW w \in Shown, w \in Elements(d), y \in Elements(w)
                     PROVE  FALSE
        OBVIOUS
      <4>2. w \in VertexRows \cup EdgeRows
        BY <1>1, <4>1, RowsDepend
      <4>3. w \in EdgeRows
        BY <4>1, <4>2, RowsDepend
      <4>4. QED
        BY <2>3, <4>1, <4>3, RowsDepend
    <3>2. QED
      BY <1>4, <3>1, AreAbove
  <2>5. y \in EdgeRows
    BY <1>1, <2>3, <2>4, RowsDepend
  <2>6. z \in Elements(y)
    <3>1. \A w \in Elements(y) : Elements(w) = {}
      BY <2>5, RowsDepend
    <3>2. QED
      BY <3>1, AreBelow
  <2>7. QED
    BY <2>1, <2>4, <2>6, AreAbove
<1>5. QED
  BY <1>3, <1>4

-----------------------------------------------------------------------------
(* What a click does to the marks.                                         *)

LEMMA Remarked ==
  ASSUME NEW m \in Marks, NEW on, NEW off, NEW mark \in {"publish", "undo"}
  PROVE  /\ Remark(m, on, mark, off) \in Marks
         /\ \A d \in Rows : Remark(m, on, mark, off)[d] =
              IF d \in on THEN mark ELSE IF d \in off THEN "none" ELSE m[d]
BY DEF Remark, Marks

\* Marks to be published that come or go stay whole if what comes has what it needs, and nothing
\* stays of which something that it needs goes
LEMMA PublishedWhole ==
  ASSUME diffs \in Reports, NEW m, WholeIn("publish", m), NEW on, NEW off,
         \A y \in on : y \in Shown /\ Needs(y) \subseteq on,
         \A y \in Rows : m[y] = "publish" /\ y \notin off => Needs(y) \cap off \subseteq on
  PROVE  WholeIn("publish", Remark(m, on, "publish", off))
<1> DEFINE n == Remark(m, on, "publish", off)
<1>1. m \in Marks
  BY DEF WholeIn
<1>2. n \in Marks /\ \A d \in Rows : n[d] = IF d \in on THEN "publish" ELSE IF d \in off THEN "none" ELSE m[d]
  BY <1>1, Remarked
<1> HIDE DEF n
<1>3. \A d \in Rows : diffs[d] = "none" => n[d] = "none"
  BY <1>2 DEF WholeIn, Shown
<1>4. \A d \in Rows : n[d] # "none" /\ n[d] # "publish" => marks[d] = n[d]
  BY <1>2 DEF WholeIn
<1>5. ASSUME NEW d \in Rows, n[d] = "publish", NEW x \in Needs(d)
      PROVE  n[x] = "publish" \/ x \in Cleared("publish", n)
  <2>1. x \in Rows
    BY NeededIsElement
  <2>2. CASE d \in on
    BY <1>2, <2>1, <2>2, <1>5
  <2>3. CASE x \in on
    BY <1>2, <2>1, <2>3
  <2>4. CASE d \notin on /\ x \notin on
    <3>1. d \notin off /\ m[d] = "publish"
      BY <1>2, <1>5, <2>4
    <3>2. x \notin off
      BY <1>5, <2>4, <3>1
    <3>3. n[x] = m[x]
      BY <1>2, <2>1, <2>4, <3>2
    <3>4. m[x] = "publish" \/ x \in Cleared("publish", m)
      BY <1>5, <3>1 DEF WholeIn
    <3>5. QED
      BY <3>3, <3>4 DEF Cleared, MarkedIn
  <2>5. QED
    BY <2>2, <2>3, <2>4
<1>6. ASSUME NEW d \in Rows, n[d] = "undo", diffs[d] = "created", d \notin PropertyRows, NEW x \in Below(d)
      PROVE  n[x] = "undo" \/ x \in Released("publish", n)
  <2>1. x \in Shown /\ x \in Rows
    BY AreBelow DEF Shown
  <2>2. d \notin on /\ m[d] = "undo"
    BY <1>2, <1>6
  <2>3. d \in Needs(x)
    BY <1>6, <2>1, NeededIsAbove
  <2>4. x \notin on
    BY <2>2, <2>3
  <2>5. m[x] = "undo" \/ x \in Released("publish", m)
    BY <1>6, <2>2 DEF WholeIn
  <2>6. m[x] = "undo" => marks[x] = "undo"
    BY <2>1 DEF WholeIn
  <2>7. n[x] = "none" \/ n[x] = m[x]
    BY <1>2, <2>1, <2>4
  <2>8. QED
    BY <2>1, <2>5, <2>6, <2>7 DEF Released, MarkedIn
<1>7. QED
  BY <1>2, <1>3, <1>4, <1>5, <1>6 DEF WholeIn, n

\* Marks to be undone that come or go stay whole if what comes takes along what is below it, and
\* what needs it, and nothing stays of which something below goes
LEMMA UndoneWhole ==
  ASSUME diffs \in Reports, NEW m, WholeIn("undo", m), NEW on, NEW off,
         \A y \in on : y \in Shown,
         \A y \in on : diffs[y] = "created" /\ y \notin PropertyRows => Below(y) \subseteq on,
         \A y \in Rows : m[y] = "undo" /\ y \notin off /\ diffs[y] = "created" /\ y \notin PropertyRows =>
           Below(y) \cap off \subseteq on
  PROVE  WholeIn("undo", Remark(m, on, "undo", off))
<1> DEFINE n == Remark(m, on, "undo", off)
<1>1. m \in Marks
  BY DEF WholeIn
<1>2. n \in Marks /\ \A d \in Rows : n[d] = IF d \in on THEN "undo" ELSE IF d \in off THEN "none" ELSE m[d]
  BY <1>1, Remarked
<1> HIDE DEF n
<1>3. \A d \in Rows : diffs[d] = "none" => n[d] = "none"
  BY <1>2 DEF WholeIn, Shown
<1>4. \A d \in Rows : n[d] # "none" /\ n[d] # "undo" => marks[d] = n[d]
  BY <1>2 DEF WholeIn
<1>5. ASSUME NEW d \in Rows, n[d] = "publish", NEW x \in Needs(d)
      PROVE  n[x] = "publish" \/ x \in Cleared("undo", n)
  <2>1. x \in Rows /\ diffs[x] = "created" /\ x \notin PropertyRows
    BY NeededIsElement
  <2>2. d \notin on /\ m[d] = "publish"
    BY <1>2, <1>5
  <2>3. d \in Shown
    <3>1. diffs[d] # "none"
      BY <1>3, <1>5
    <3>2. QED
      BY <3>1 DEF Shown
  <2>4. d \in Below(x)
    BY <1>5, <2>1, <2>3, NeededIsAbove
  <2>5. x \notin on
    BY <2>1, <2>2, <2>4
  <2>6. m[x] = "publish" \/ x \in Cleared("undo", m)
    BY <1>5, <2>2 DEF WholeIn
  <2>7. m[x] = "publish" => marks[x] = "publish"
    BY <2>1 DEF WholeIn
  <2>8. n[x] = "none" \/ n[x] = m[x]
    BY <1>2, <2>1, <2>5
  <2>9. QED
    BY <2>1, <2>6, <2>7, <2>8 DEF Cleared, MarkedIn
<1>6. ASSUME NEW d \in Rows, n[d] = "undo", diffs[d] = "created", d \notin PropertyRows, NEW x \in Below(d)
      PROVE  n[x] = "undo" \/ x \in Released("undo", n)
  <2>1. x \in Rows
    BY AreBelow DEF Shown
  <2>2. CASE x \in on
    BY <1>2, <2>1, <2>2
  <2>3. CASE x \notin on
    <3>1. d \notin on
      BY <1>6, <2>3
    <3>2. d \notin off /\ m[d] = "undo"
      BY <1>2, <1>6, <3>1
    <3>3. x \notin off
      BY <1>6, <2>3, <3>2
    <3>4. n[x] = m[x]
      BY <1>2, <2>1, <2>3, <3>3
    <3>5. m[x] = "undo" \/ x \in Released("undo", m)
      BY <1>6, <3>2 DEF WholeIn
    <3>6. QED
      BY <3>4, <3>5 DEF Released, MarkedIn
  <2>4. QED
    BY <2>2, <2>3
<1>7. QED
  BY <1>2, <1>3, <1>4, <1>5, <1>6 DEF WholeIn, n

LEMMA PublishClicked ==
  ASSUME diffs \in Reports, NEW m, WholeIn("publish", m), NEW d \in Shown, NEW state \in BOOLEAN
  PROVE  WholeIn("publish", Publish(m, d, state))
<1> d \in Rows
  BY DEF Shown
<1>1. CASE ~state
  <2> DEFINE off == {d} \cup Below(d)
  <2>1. Publish(m, d, state) = Remark(m, {}, "publish", off)
    BY <1>1 DEF Publish
  <2>2. ASSUME NEW y \in Rows, m[y] = "publish", NEW x \in Needs(y), x \in off
        PROVE  y \in off
    <3>1. y \in Shown
      BY <2>2 DEF WholeIn, Shown
    <3>2. x \in Rows /\ y \in Below(x)
      BY <2>2, <3>1, NeededIsElement, NeededIsAbove
    <3>3. QED
      BY <2>2, <3>2, BelowBelow
  <2> HIDE DEF off
  <2>3. QED
    BY <2>1, <2>2, PublishedWhole
<1>2. CASE state /\ ~DeletedVertex(d)
  <2> DEFINE on == {d} \cup Needs(d)
  <2>1. Publish(m, d, state) = Remark(m, on, "publish", {})
    BY <1>2 DEF Publish
  <2>2. \A y \in on : y \in Shown /\ Needs(y) \subseteq on
    BY NeededIsElement, NeedsNeeds
  <2> HIDE DEF on
  <2>3. QED
    BY <2>1, <2>2, PublishedWhole
<1>3. CASE state /\ DeletedVertex(d)
  <2> DEFINE on == {d} \cup DeletedEdges(d)
             others == Dependents(d) \ DeletedEdges(d)
             off == others \cup UNION {Dependents(x) : x \in others}
  <2>1. Publish(m, d, state) = Remark(m, on, "publish", off)
    BY <1>3 DEF Publish
  <2>2. \A y \in on : y \in Shown /\ diffs[y] = "deleted"
    BY <1>3 DEF DeletedVertex, DeletedEdges, Dependents
  <2>3. \A y \in on : Needs(y) = {}
    <3>1. SUFFICES ASSUME NEW y \in on, NEW x \in Needs(y) PROVE FALSE
      OBVIOUS
    <3>2. QED
      BY <2>2, AreNeeded
  <2>4. \A x \in others : x \in PropertyRows
    <3> SUFFICES ASSUME NEW x \in others PROVE x \in PropertyRows
      OBVIOUS
    <3>1. x \in Rows /\ diffs[x] # "none" /\ d \in Elements(x)
      BY DEF Dependents, Shown
    <3>2. x \notin VertexRows
      BY <3>1, RowsDepend
    <3>3. x \in EdgeRows => diffs[x] = "deleted"
      BY <1>3, <3>1, ReportsAgree DEF DeletedVertex
    <3>4. x \notin EdgeRows
      BY <3>3 DEF DeletedEdges
    <3>5. QED
      BY <3>1, <3>2, <3>4, RowsDepend
  <2>5. \A x \in others : Dependents(x) = {}
    <3>1. \A y \in Rows, x \in PropertyRows : x \notin Elements(y)
      BY RowsDepend
    <3>2. QED
      BY <2>4, <3>1 DEF Dependents, Shown
  <2>6. \A x \in off : x \in PropertyRows
    BY <2>4, <2>5
  <2> HIDE DEF on, off
  <2>7. \A y \in Rows : Needs(y) \cap off = {}
    BY <2>6, NeededIsElement
  <2>8. QED
    BY <2>1, <2>2, <2>3, <2>7, PublishedWhole
<1>4. QED
  BY <1>1, <1>2, <1>3

LEMMA UndoClicked ==
  ASSUME diffs \in Reports, NEW m, WholeIn("undo", m), NEW d \in Shown, NEW state \in BOOLEAN
  PROVE  WholeIn("undo", Undo(m, d, state))
<1> d \in Rows
  BY DEF Shown
<1>1. CASE ~state
  <2> DEFINE off == {d} \cup Above(d)
  <2>1. Undo(m, d, state) = Remark(m, {}, "undo", off)
    BY <1>1 DEF Undo
  <2>2. ASSUME NEW z \in Rows, diffs[z] = "created", NEW y \in Below(z), y \in off
        PROVE  z \in off
    <3>1. z \in Shown
      BY <2>2 DEF Shown
    <3>2. QED
      BY <2>2, <3>1, AboveAbove
  <2> HIDE DEF off
  <2>3. QED
    BY <2>1, <2>2, UndoneWhole
<1>2. CASE state /\ d \in PropertyRows
  <2>1. Undo(m, d, state) = Remark(m, {d}, "undo", {})
    BY <1>2 DEF Undo
  <2>2. QED
    BY <1>2, <2>1, UndoneWhole
<1>3. CASE state /\ d \notin PropertyRows /\ diffs[d] = "created"
  <2> DEFINE on == {d} \cup Below(d)
  <2>1. Undo(m, d, state) = Remark(m, on, "undo", {})
    BY <1>3 DEF Undo
  <2>2. \A y \in on : y \in Shown
    BY AreBelow
  <2>3. \A y \in on : Below(y) \subseteq on
    BY BelowBelow
  <2> HIDE DEF on
  <2>4. QED
    BY <2>1, <2>2, <2>3, UndoneWhole
<1>4. CASE state /\ d \notin PropertyRows /\ diffs[d] # "created"
  <2> DEFINE on == {d} \cup {v \in Elements(d) : diffs[v] = "deleted"}
  <2>1. Undo(m, d, state) = Remark(m, on, "undo", {})
    BY <1>4 DEF Undo
  <2>2. \A y \in on : y \in Shown /\ diffs[y] # "created"
    BY <1>4, RowsDepend DEF Shown
  <2> HIDE DEF on
  <2>3. QED
    BY <2>1, <2>2, UndoneWhole
<1>5. QED
  BY <1>1, <1>2, <1>3, <1>4

LEMMA OneClick ==
  ASSUME diffs \in Reports, NEW action \in {"publish", "undo"}, NEW m, WholeIn(action, m),
         NEW d \in Shown, NEW state \in BOOLEAN
  PROVE  WholeIn(action, Mark(action, m, d, state))
<1>1. CASE action = "publish"
  BY <1>1, PublishClicked DEF Mark
<1>2. CASE action = "undo"
  BY <1>2, UndoClicked DEF Mark
<1>3. QED
  BY <1>1, <1>2

\* The marks are whole when no button was clicked yet
LEMMA WholeBefore ==
  ASSUME DiffInv, NEW action \in {"publish", "undo"}
  PROVE  WholeIn(action, marks)
<1>1. \A d \in Rows : marks[d] = "publish" =>
        \A x \in Needs(d) : marks[x] = "publish" \/ x \in Cleared(action, marks)
  BY DEF DiffInv, MarksAreWhole, PublishedWithElements, Cleared, MarkedIn
<1>2. \A d \in Rows : marks[d] = "undo" /\ diffs[d] = "created" /\ d \notin PropertyRows =>
        \A x \in Below(d) : marks[x] = "undo" \/ x \in Released(action, marks)
  BY DEF DiffInv, MarksAreWhole, UndoneWithDependents, Released, MarkedIn
<1>3. QED
  BY <1>1, <1>2 DEF WholeIn, DiffInv, MarksAreWhole, DiffTypeOK, Marks

\* and when they all were
LEMMA WholeAfter ==
  ASSUME DiffInv, NEW action \in {"publish", "undo"}, NEW m, WholeIn(action, m), Marked(action, m),
         selectAll' \in {"none", "publish", "undo"}
  PROVE  DiffInv'
<1>1. /\ marks' = m /\ UNCHANGED diffs
      /\ cleared' = Cleared(action, m) /\ released' = Released(action, m)
  BY DEF Marked, Cleared, Released
<1>2. cleared' \subseteq Shown /\ released' \subseteq Shown
  BY <1>1 DEF DiffInv, MarksAreWhole, DiffTypeOK, Cleared, Released, Shown
<1>3. DiffTypeOK'
  BY <1>1, <1>2 DEF DiffInv, MarksAreWhole, DiffTypeOK, WholeIn, Marks, Shown
<1>4. PublishedWithElements'
  <2>1. \A d : Needs(d)' = Needs(d)
    BY <1>1 DEF Needs
  <2>2. QED
    BY <1>1, <2>1 DEF PublishedWithElements, WholeIn, MarkedIn
<1>5. UndoneWithDependents'
  <2>1. \A d : Below(d)' = Below(d)
    BY <1>1 DEF Below, Dependents, Shown
  <2>2. QED
    BY <1>1, <2>1 DEF UndoneWithDependents, WholeIn, MarkedIn
<1>6. QED
  BY <1>3, <1>4, <1>5 DEF DiffInv, MarksAreWhole

-----------------------------------------------------------------------------
(* The clicks of one button after the other.                               *)

\* f has the marks after each of the first n rows
IsRun(action, on, n, f) ==
  f = [i \in 0 .. n |-> IF i = 0 THEN marks ELSE Click(action, on, f[i - 1], RowOrder[i])]

LEMMA RunExists ==
  ASSUME NEW action, NEW on, NEW n \in Nat
  PROVE  \E f : IsRun(action, on, n, f)
<1> DEFINE S == {k \in Nat : ~\E f : IsRun(action, on, k, f)}
<1> SUFFICES ASSUME S # {} PROVE FALSE
  OBVIOUS
<1>1. PICK k \in S : \A j \in S : k <= j
  BY LeastOfNat
<1>2. k \in Nat /\ ~\E f : IsRun(action, on, k, f)
  OBVIOUS
<1> HIDE DEF S
<1>3. CASE k = 0
  <2> DEFINE f == [i \in 0 .. 0 |-> marks]
  <2>1. f = [i \in 0 .. 0 |-> IF i = 0 THEN marks ELSE Click(action, on, f[i - 1], RowOrder[i])]
    OBVIOUS
  <2>2. QED
    BY <1>2, <1>3, <2>1 DEF IsRun
<1>4. CASE k # 0
  <2>1. k - 1 \in Nat /\ ~(k <= k - 1)
    BY <1>2, <1>4
  <2>2. k - 1 \notin S
    BY <1>1, <2>1
  <2>3. PICK g : IsRun(action, on, k - 1, g)
    BY <2>1, <2>2 DEF S
  <2>4. g = [i \in 0 .. k - 1 |-> IF i = 0 THEN marks ELSE Click(action, on, g[i - 1], RowOrder[i])]
    BY <2>3 DEF IsRun
  <2> DEFINE f == [i \in 0 .. k |-> IF i = k THEN Click(action, on, g[k - 1], RowOrder[k]) ELSE g[i]]
  <2>5. ASSUME NEW i \in 0 .. k
        PROVE  f[i] = IF i = 0 THEN marks ELSE Click(action, on, f[i - 1], RowOrder[i])
    <3>1. CASE i = 0
      <4>1. f[i] = g[0] /\ 0 \in 0 .. k - 1
        BY <1>2, <1>4, <3>1
      <4>2. QED
        BY <2>4, <3>1, <4>1
    <3>2. CASE i # 0
      <4>1. i - 1 \in 0 .. k - 1 /\ i - 1 \in 0 .. k /\ i - 1 # k
        BY <1>2, <3>2
      <4>2. f[i - 1] = g[i - 1]
        BY <4>1
      <4>3. CASE i = k
        BY <3>2, <4>2, <4>3
      <4>4. CASE i # k
        <5>1. i \in 0 .. k - 1
          BY <1>2, <4>4
        <5>2. f[i] = g[i]
          BY <4>4
        <5>3. g[i] = Click(action, on, g[i - 1], RowOrder[i])
          BY <2>4, <3>2, <5>1
        <5>4. QED
          BY <3>2, <4>2, <5>2, <5>3
      <4>5. QED
        BY <4>3, <4>4
    <3>3. QED
      BY <3>1, <3>2
  <2>6. f = [i \in 0 .. k |-> f[i]]
    OBVIOUS
  <2> HIDE DEF f
  <2>7. [i \in 0 .. k |-> f[i]] =
          [i \in 0 .. k |-> IF i = 0 THEN marks ELSE Click(action, on, f[i - 1], RowOrder[i])]
    BY <2>5
  <2>8. IsRun(action, on, k, f)
    BY <2>6, <2>7 DEF IsRun
  <2>9. QED
    BY <1>2, <2>8
<1>5. QED
  BY <1>3, <1>4

LEMMA ClickedRuns ==
  ASSUME NEW action, NEW on
  PROVE  IsRun(action, on, Len(RowOrder), Clicked(action, on))
<1>1. Len(RowOrder) \in Nat
  BY LenProperties, DiffPanelAssumption
<1>2. Clicked(action, on) = CHOOSE f : IsRun(action, on, Len(RowOrder), f)
  BY DEF Clicked, IsRun
<1>3. \E f : IsRun(action, on, Len(RowOrder), f)
  BY <1>1, RunExists
<1>4. QED
  BY <1>2, <1>3

\* Every click of a run leaves the marks whole
LEMMA RunStaysWhole ==
  ASSUME DiffInv, NEW action \in {"publish", "undo"}, NEW on \in BOOLEAN,
         NEW f, IsRun(action, on, Len(RowOrder), f), NEW i \in 0 .. Len(RowOrder)
  PROVE  WholeIn(action, f[i])
<1> DEFINE n == Len(RowOrder)
           S == {k \in 0 .. n : ~WholeIn(action, f[k])}
<1>1. n \in Nat /\ \A k \in 1 .. n : RowOrder[k] \in Rows
  BY LenProperties, ElementOfSeq, DiffPanelAssumption
<1>2. f = [k \in 0 .. n |-> IF k = 0 THEN marks ELSE Click(action, on, f[k - 1], RowOrder[k])]
  BY DEF IsRun
<1>3. diffs \in Reports
  BY DEF DiffInv, MarksAreWhole, DiffTypeOK
<1> HIDE DEF n
<1>4. S = {}
  <2> SUFFICES ASSUME S # {} PROVE FALSE
    OBVIOUS
  <2>1. S \subseteq Nat
    BY <1>1
  <2>2. PICK k \in S : \A j \in S : k <= j
    BY <2>1, LeastOfNat
  <2>3. k \in 0 .. n /\ ~WholeIn(action, f[k])
    OBVIOUS
  <2>4. CASE k = 0
    <3>1. f[0] = marks
      BY <1>1, <1>2
    <3>2. QED
      BY <2>3, <2>4, <3>1, WholeBefore
  <2>5. CASE k # 0
    <3>1. k \in 1 .. n /\ k - 1 \in 0 .. n /\ ~(k <= k - 1)
      BY <1>1, <2>3, <2>5
    <3>2. WholeIn(action, f[k - 1])
      BY <2>2, <3>1
    <3>3. f[k] = Click(action, on, f[k - 1], RowOrder[k])
      BY <1>2, <2>3, <2>5
    <3> DEFINE m == f[k - 1]
               d == RowOrder[k]
    <3>4. WholeIn(action, m) /\ d \in Rows /\ f[k] = Click(action, on, m, d)
      BY <1>1, <3>1, <3>2, <3>3
    <3> HIDE DEF m, d
    <3>5. WholeIn(action, Click(action, on, m, d))
      <4>1. CASE d \in Shown /\ (m[d] # action) = on
        BY <1>3, <3>4, <4>1, OneClick DEF Click
      <4>2. CASE ~(d \in Shown /\ (m[d] # action) = on)
        BY <3>4, <4>2 DEF Click
      <4>3. QED
        BY <4>1, <4>2
    <3>6. QED
      BY <2>3, <3>4, <3>5
  <2>6. QED
    BY <2>4, <2>5
<1>5. QED
  BY <1>4 DEF n

-----------------------------------------------------------------------------
(* The steps of the panel.                                                 *)

LEMMA DiffInitial == DiffInit => DiffInv
<1> SUFFICES ASSUME DiffInit PROVE DiffInv
  OBVIOUS
<1>1. DiffTypeOK
  BY DEF DiffInit, DiffTypeOK
<1>2. MarkedIn(marks, "publish") = {} /\ MarkedIn(marks, "undo") = {}
  BY DEF DiffInit, MarkedIn
<1>3. QED
  BY <1>1, <1>2 DEF DiffInv, MarksAreWhole, PublishedWithElements, UndoneWithDependents

LEMMA RowClicked ==
  ASSUME DiffInv, NEW action \in {"publish", "undo"}, NEW d \in Rows, ClickRow(action, d)
  PROVE  DiffInv'
<1>1. diffs \in Reports /\ d \in Shown
  BY DEF DiffInv, MarksAreWhole, DiffTypeOK, ClickRow
<1>2. PICK state \in BOOLEAN : state = (marks[d] # action)
  OBVIOUS
<1>3. Marked(action, Mark(action, marks, d, state)) /\ selectAll' = "none"
  BY <1>2 DEF ClickRow
<1>4. WholeIn(action, marks)
  BY WholeBefore
<1>5. WholeIn(action, Mark(action, marks, d, state))
  BY <1>1, <1>4, OneClick
<1>6. QED
  BY <1>3, <1>5, WholeAfter

LEMMA AllClicked ==
  ASSUME DiffInv, NEW action \in {"publish", "undo"}, SelectAll(action)
  PROVE  DiffInv'
<1>1. PICK on \in BOOLEAN : on = (selectAll # action)
  OBVIOUS
<1>2. /\ Marked(action, Clicked(action, on)[Len(RowOrder)])
      /\ selectAll' = IF on THEN action ELSE "none"
  BY <1>1 DEF SelectAll
<1>3. Len(RowOrder) \in 0 .. Len(RowOrder)
  BY LenProperties, DiffPanelAssumption
<1>4. IsRun(action, on, Len(RowOrder), Clicked(action, on))
  BY ClickedRuns
<1>5. WholeIn(action, Clicked(action, on)[Len(RowOrder)])
  BY <1>3, <1>4, RunStaysWhole
<1>6. selectAll' \in {"none", "publish", "undo"}
  BY <1>2
<1>7. QED
  BY <1>2, <1>5, <1>6, WholeAfter

\* A row that was there does not become new, and does not depend on one that does
LEMMA FollowsOn ==
  ASSUME diffs \in Reports, NEW r \in Reports, Follows(r), NEW d \in Rows, diffs[d] # "none"
  PROVE  /\ r[d] = "created" => diffs[d] = "created"
         /\ r[d] # "none" => \A x \in Elements(d) : r[x] = "created" => diffs[x] = "created"
BY RowsDepend DEF Follows

LEMMA Rendered ==
  ASSUME DiffInv, NEW r \in Reports, DiffsChanged(r)
  PROVE  DiffInv'
<1>1. /\ Follows(r) /\ diffs' = r
      /\ marks' = [d \in Rows |-> IF r[d] = "none" THEN "none" ELSE marks[d]]
      /\ selectAll' = "none"
      /\ cleared' = {d \in cleared : r[d] # "none"}
      /\ released' = {d \in Rows : r[d] # "none" /\ (d \in released \/ diffs[d] = "none")}
  BY DEF DiffsChanged
<1>2. /\ diffs \in Reports /\ marks \in [Rows -> {"none", "publish", "undo"}]
      /\ \A d \in Rows : diffs[d] = "none" => marks[d] = "none"
      /\ cleared \subseteq Shown
  BY DEF DiffInv, MarksAreWhole, DiffTypeOK
<1>3. /\ r \in [Rows -> {"none", "created", "deleted"}]
      /\ \A d \in EdgeRows : \A x \in Elements(d) : r[x] = "created" => r[d] \in {"none", "created"}
      /\ \A d \in PropertyRows : r[d] # "deleted"
  BY DEF Reports
<1>4. DiffTypeOK'
  BY <1>1, <1>2, <1>3 DEF DiffTypeOK, Shown
<1>5. ASSUME NEW d \in Rows, marks'[d] # "none"
      PROVE  r[d] # "none" /\ diffs[d] # "none" /\ marks[d] = marks'[d]
  BY <1>1, <1>2, <1>5
<1>6. PublishedWithElements'
  <2> SUFFICES ASSUME NEW d \in Rows, marks'[d] = "publish", NEW x \in Needs(d)'
               PROVE  marks'[x] = "publish" \/ x \in cleared'
    BY DEF PublishedWithElements, MarkedIn
  <2>1. r[d] # "none" /\ diffs[d] # "none" /\ marks[d] = "publish"
    BY <1>5
  <2>2. r[x] = "created" /\ r[d] # "deleted"
    BY <1>1 DEF Needs
  <2>3. \/ x \in Elements(d)
        \/ \E y \in Elements(d) : r[y] = "created" /\ x \in Elements(y)
    BY <1>1 DEF Needs
  <2>4. x \in Needs(d)
    <3>1. CASE x \in Elements(d)
      <4>1. diffs[x] = "created"
        BY <1>1, <1>2, <2>1, <2>2, <3>1, FollowsOn
      <4>2. diffs[d] # "deleted"
        BY <1>2, <2>1, <3>1, <4>1, ReportsAgree
      <4>3. QED
        BY <3>1, <4>1, <4>2, AreNeeded
    <3>2. CASE x \notin Elements(d)
      <4>1. PICK y \in Elements(d) : r[y] = "created" /\ x \in Elements(y)
        BY <2>3, <3>2
      <4>2. y \in Rows
        BY <4>1, RowsDepend
      <4>3. diffs[y] = "created"
        BY <1>1, <1>2, <2>1, <4>1, FollowsOn
      <4>4. diffs[x] = "created"
        BY <1>1, <1>2, <2>2, <4>1, <4>2, <4>3, FollowsOn
      <4>5. diffs[d] # "deleted"
        BY <1>2, <2>1, <4>1, <4>3, ReportsAgree
      <4>6. QED
        BY <4>1, <4>3, <4>4, <4>5, AreNeeded
    <3>3. QED
      BY <3>1, <3>2
  <2>5. marks[x] = "publish" \/ x \in cleared
    BY <2>1, <2>4 DEF DiffInv, MarksAreWhole, PublishedWithElements, MarkedIn
  <2>6. x \in Rows
    BY <1>2, <2>4, NeededIsElement
  <2>7. QED
    BY <1>1, <2>2, <2>5, <2>6
<1>7. UndoneWithDependents'
  <2> SUFFICES ASSUME NEW d \in Rows, marks'[d] = "undo", r[d] = "created", d \notin PropertyRows,
                      NEW x \in Below(d)'
               PROVE  marks'[x] = "undo" \/ x \in released'
    BY <1>1 DEF UndoneWithDependents, MarkedIn
  <2>1. diffs[d] # "none" /\ marks[d] = "undo"
    BY <1>5
  <2>2. diffs[d] = "created"
    BY <1>1, <1>2, <2>1, FollowsOn
  <2>3. x \in Rows /\ r[x] # "none"
    BY <1>1 DEF Below, Dependents, Shown
  <2>4. d \in Elements(x) \/ \E y \in Rows : r[y] # "none" /\ d \in Elements(y) /\ y \in Elements(x)
    BY <1>1 DEF Below, Dependents, Shown
  <2>5. CASE diffs[x] = "none"
    BY <1>1, <2>3, <2>5
  <2>6. CASE diffs[x] # "none"
    <3>1. x \in Shown
      BY <2>3, <2>6 DEF Shown
    <3>2. x \in Below(d)
      <4>1. CASE d \in Elements(x)
        BY <3>1, <4>1, AreBelow
      <4>2. CASE d \notin Elements(x)
        <5>1. PICK y \in Rows : r[y] # "none" /\ d \in Elements(y) /\ y \in Elements(x)
          BY <2>4, <4>2
        <5>2. y \in EdgeRows
          <6>1. y \in VertexRows \cup EdgeRows
            BY <2>3, <5>1, RowsDepend
          <6>2. QED
            BY <5>1, <6>1, RowsDepend
        <5>3. r[y] = "created"
          BY <1>3, <5>1, <5>2
        <5>4. diffs[y] = "created"
          BY <1>1, <1>2, <2>3, <2>6, <5>1, <5>3, FollowsOn
        <5>5. y \in Shown
          BY <5>1, <5>4 DEF Shown
        <5>6. QED
          BY <3>1, <5>1, <5>5, AreBelow
      <4>3. QED
        BY <4>1, <4>2
    <3>3. marks[x] = "undo" \/ x \in released
      BY <2>1, <2>2, <3>2 DEF DiffInv, MarksAreWhole, UndoneWithDependents, MarkedIn
    <3>4. QED
      BY <1>1, <2>3, <3>3
  <2>7. QED
    BY <2>5, <2>6
<1>8. QED
  BY <1>4, <1>6, <1>7 DEF DiffInv, MarksAreWhole

LEMMA DiffInvariance ==
  ASSUME DiffInv, [DiffNext]_diffVars
  PROVE  DiffInv'
<1>1. CASE UNCHANGED diffVars
  <2>1. UNCHANGED <<diffs, marks, selectAll, cleared, released>>
    BY <1>1 DEF diffVars
  <2>2. DiffTypeOK'
    BY <2>1 DEF DiffInv, MarksAreWhole, DiffTypeOK, Shown
  <2>3. PublishedWithElements'
    BY <2>1 DEF DiffInv, MarksAreWhole, PublishedWithElements, MarkedIn, Needs
  <2>4. UndoneWithDependents'
    BY <2>1 DEF DiffInv, MarksAreWhole, UndoneWithDependents, MarkedIn, Below, Dependents, Shown
  <2>5. QED
    BY <2>2, <2>3, <2>4 DEF DiffInv, MarksAreWhole
<1>2. QED
  BY <1>1, RowClicked, AllClicked, Rendered DEF DiffNext

-----------------------------------------------------------------------------
(* The list of activities.                                                 *)

\* No task is in the list twice, and what is in it is in the index; after a task was removed that
\* the list did not have, the index may have more
ListInv ==
  /\ tasks \in Seq(Tasks) /\ tasksById \subseteq Tasks /\ unknownRemoved \in BOOLEAN
  /\ \A i, j \in DOMAIN tasks : tasks[i] = tasks[j] => i = j
  /\ Range(tasks) \subseteq tasksById
  /\ ~unknownRemoved => Range(tasks) = tasksById
  /\ removedTasks \cap tasksById = {}

\* indexOf finds a task that is there, and nothing else
LEMMA Found ==
  ASSUME NEW S, NEW s \in Seq(S), NEW t
  PROVE  /\ IndexOf(s, t) \in 0 .. Len(s)
         /\ IndexOf(s, t) > 0 => s[IndexOf(s, t)] = t
         /\ IndexOf(s, t) = 0 => t \notin Range(s)
<1> DEFINE I == {i \in 1 .. Len(s) : s[i] = t}
<1>1. IndexOf(s, t) = IF I # {} THEN Min(I) ELSE 0
  BY DEF IndexOf, SelectInSeq
<1>2. Len(s) \in Nat /\ DOMAIN s = 1 .. Len(s)
  BY LenProperties
<1>3. CASE I = {}
  <2>1. IndexOf(s, t) = 0
    BY <1>1, <1>3
  <2>2. t \notin Range(s)
    BY <1>2, <1>3 DEF Range
  <2>3. QED
    BY <1>2, <2>1, <2>2
<1>4. CASE I # {}
  <2>1. I \subseteq Nat
    BY <1>2
  <2>2. \E m \in I : \A v \in I : m <= v
    BY <1>4, <2>1, LeastOfNat
  <2>3. Min(I) \in I
    BY <2>2 DEF Min
  <2>4. IndexOf(s, t) \in I
    BY <1>1, <1>4, <2>3
  <2>5. QED
    BY <1>2, <2>4
<1>5. QED
  BY <1>3, <1>4

\* Array.splice of one place that takes it out
LEMMA Taken ==
  ASSUME NEW S, NEW s \in Seq(S), NEW i \in 0 .. Len(s)
  PROVE  LET r == Splice(s, i, <<>>)
             at == IF i > 0 THEN i ELSE Len(s)
         IN  /\ r \in Seq(S)
             /\ DOMAIN r = 1 .. Len(s) - 1
             /\ \A j \in 1 .. Len(s) - 1 : r[j] = IF j < at THEN s[j] ELSE s[j + 1]
<1> DEFINE at == IF i > 0 THEN i ELSE Len(s)
           a == SubSeq(s, 1, at - 1)
           b == SubSeq(s, at + 1, Len(s))
<1>1. Len(s) \in Nat /\ at \in 0 .. Len(s) /\ DOMAIN s = 1 .. Len(s) /\ (Len(s) > 0 => at > 0)
  BY LenProperties
<1> HIDE DEF at
<1>2. Splice(s, i, <<>>) = (a \o <<>>) \o b
  BY DEF Splice, at
<1>3. CASE at = 0
  <2>1. a = <<>> /\ b = <<>> /\ Len(s) = 0
    BY <1>1, <1>3, SubSeqEmpty
  <2>2. Splice(s, i, <<>>) = <<>>
    BY <1>2, <2>1, EmptySeq, ConcatEmptySeq
  <2>3. <<>> \in Seq(S) /\ DOMAIN <<>> = 1 .. Len(s) - 1 /\ 1 .. Len(s) - 1 = {}
    BY <2>1
  <2>4. QED
    BY <2>2, <2>3
<1>4. CASE at > 0
  <2>1. a \in Seq(S) /\ Len(a) = at - 1 /\ \A j \in 1 .. at - 1 : a[j] = s[j]
    BY <1>1, <1>4
  <2>2. b \in Seq(S) /\ Len(b) = Len(s) - at /\ \A j \in 1 .. Len(s) - at : b[j] = s[at + j]
    <3>1. /\ at + 1 \in Int /\ Len(s) \in Int /\ \A k \in at + 1 .. Len(s) : s[k] \in S
          /\ at + 1 <= Len(s) + 1
      BY <1>1, <1>4, ElementOfSeq
    <3>2. /\ b \in Seq(S) /\ Len(b) = IF at + 1 <= Len(s) THEN Len(s) - (at + 1) + 1 ELSE 0
          /\ \A j \in 1 .. Len(s) - (at + 1) + 1 : b[j] = s[at + 1 + j - 1]
      BY <3>1, SubSeqProperties
    <3> HIDE DEF a, b
    <3>3. Len(b) = Len(s) - at
      <4>1. Len(b) = IF at + 1 <= Len(s) THEN Len(s) - (at + 1) + 1 ELSE 0
        BY <3>2
      <4>2. at \in Nat /\ Len(s) \in Nat /\ at <= Len(s)
        BY <1>1
      <4>3. CASE at + 1 <= Len(s)
        BY <4>1, <4>2, <4>3
      <4>4. CASE ~(at + 1 <= Len(s))
        BY <4>1, <4>2, <4>4
      <4>5. QED
        BY <4>3, <4>4
    <3>4. ASSUME NEW j \in 1 .. Len(s) - at
          PROVE  b[j] = s[at + j]
      <4>1. j \in 1 .. Len(s) - (at + 1) + 1 /\ at + 1 + j - 1 = at + j
        BY <1>1
      <4>2. QED
        BY <3>2, <4>1
    <3>5. QED
      BY <3>2, <3>3, <3>4
  <2> HIDE DEF a, b
  <2>3. Splice(s, i, <<>>) = a \o b
    BY <1>2, <2>1, ConcatEmptySeq
  <2>4. /\ a \o b \in Seq(S) /\ Len(a \o b) = Len(a) + Len(b)
        /\ \A j \in 1 .. Len(a) + Len(b) : (a \o b)[j] = IF j <= Len(a) THEN a[j] ELSE b[j - Len(a)]
    BY <2>1, <2>2, ConcatProperties
  <2>5. Len(a) + Len(b) = Len(s) - 1
    BY <1>1, <2>1, <2>2
  <2>6. ASSUME NEW j \in 1 .. Len(s) - 1
        PROVE  (a \o b)[j] = IF j < at THEN s[j] ELSE s[j + 1]
    <3>1. CASE j < at
      BY <1>1, <2>1, <2>4, <2>5, <3>1
    <3>2. CASE ~(j < at)
      <4>1. j - (at - 1) \in 1 .. Len(s) - at /\ at + (j - (at - 1)) = j + 1 /\ ~(j <= at - 1)
        BY <1>1, <3>2
      <4>2. QED
        BY <2>1, <2>2, <2>4, <2>5, <3>2, <4>1
    <3>3. QED
      BY <3>1, <3>2
  <2>7. DOMAIN (a \o b) = 1 .. Len(s) - 1
    BY <2>4, <2>5
  <2>8. QED
    BY <2>3, <2>4, <2>6, <2>7 DEF at
<1>5. QED
  BY <1>1, <1>3, <1>4

\* Array.splice of one place that puts t into it
LEMMA Replaced ==
  ASSUME NEW S, NEW s \in Seq(S), NEW i \in 0 .. Len(s), NEW t \in S
  PROVE  LET r == Splice(s, i, <<t>>)
             at == IF i > 0 THEN i ELSE Len(s)
         IN  /\ r \in Seq(S)
             /\ Len(s) = 0 => r = <<t>>
             /\ Len(s) > 0 => /\ DOMAIN r = DOMAIN s
                              /\ \A j \in DOMAIN s : r[j] = IF j = at THEN t ELSE s[j]
<1> DEFINE at == IF i > 0 THEN i ELSE Len(s)
           a == SubSeq(s, 1, at - 1)
           b == SubSeq(s, at + 1, Len(s))
<1>1. Len(s) \in Nat /\ at \in 0 .. Len(s) /\ DOMAIN s = 1 .. Len(s) /\ (Len(s) > 0 => at > 0)
  BY LenProperties
<1> HIDE DEF at
<1>2. Splice(s, i, <<t>>) = (a \o <<t>>) \o b
  BY DEF Splice, at
<1>3. CASE at = 0
  <2>1. a = <<>> /\ b = <<>> /\ Len(s) = 0
    BY <1>1, <1>3, SubSeqEmpty
  <2>2. Splice(s, i, <<t>>) = <<t>>
    <3>1. <<t>> \in Seq(S)
      OBVIOUS
    <3>2. QED
      BY <1>2, <2>1, <3>1, ConcatEmptySeq
  <2>3. <<t>> \in Seq(S) /\ ~(Len(s) > 0)
    BY <2>1
  <2>4. QED
    BY <2>2, <2>3
<1>4. CASE at > 0
  <2>1. a \in Seq(S) /\ Len(a) = at - 1 /\ \A j \in 1 .. at - 1 : a[j] = s[j]
    BY <1>1, <1>4
  <2>2. b \in Seq(S) /\ Len(b) = Len(s) - at /\ \A j \in 1 .. Len(s) - at : b[j] = s[at + j]
    <3>1. /\ at + 1 \in Int /\ Len(s) \in Int /\ \A k \in at + 1 .. Len(s) : s[k] \in S
          /\ at + 1 <= Len(s) + 1
      BY <1>1, <1>4, ElementOfSeq
    <3>2. /\ b \in Seq(S) /\ Len(b) = IF at + 1 <= Len(s) THEN Len(s) - (at + 1) + 1 ELSE 0
          /\ \A j \in 1 .. Len(s) - (at + 1) + 1 : b[j] = s[at + 1 + j - 1]
      BY <3>1, SubSeqProperties
    <3> HIDE DEF a, b
    <3>3. Len(b) = Len(s) - at
      <4>1. Len(b) = IF at + 1 <= Len(s) THEN Len(s) - (at + 1) + 1 ELSE 0
        BY <3>2
      <4>2. at \in Nat /\ Len(s) \in Nat /\ at <= Len(s)
        BY <1>1
      <4>3. CASE at + 1 <= Len(s)
        BY <4>1, <4>2, <4>3
      <4>4. CASE ~(at + 1 <= Len(s))
        BY <4>1, <4>2, <4>4
      <4>5. QED
        BY <4>3, <4>4
    <3>4. ASSUME NEW j \in 1 .. Len(s) - at
          PROVE  b[j] = s[at + j]
      <4>1. j \in 1 .. Len(s) - (at + 1) + 1 /\ at + 1 + j - 1 = at + j
        BY <1>1
      <4>2. QED
        BY <3>2, <4>1
    <3>5. QED
      BY <3>2, <3>3, <3>4
  <2> DEFINE c == a \o <<t>>
  <2>3. c \in Seq(S) /\ Len(c) = at /\ \A j \in 1 .. at : c[j] = IF j < at THEN s[j] ELSE t
    <3> HIDE DEF a, b
    <3>1. <<t>> \in Seq(S) /\ Len(<<t>>) = 1 /\ <<t>>[1] = t
      OBVIOUS
    <3>2. /\ c \in Seq(S) /\ Len(c) = Len(a) + 1
          /\ \A j \in 1 .. Len(a) + 1 : c[j] = IF j <= Len(a) THEN a[j] ELSE <<t>>[j - Len(a)]
      BY <2>1, <3>1, ConcatProperties
    <3> HIDE DEF c
    <3>3. QED
      BY <1>1, <2>1, <3>1, <3>2
  <2> HIDE DEF b, c
  <2>4. /\ c \o b \in Seq(S) /\ Len(c \o b) = Len(c) + Len(b)
        /\ \A j \in 1 .. Len(c) + Len(b) : (c \o b)[j] = IF j <= Len(c) THEN c[j] ELSE b[j - Len(c)]
    BY <2>2, <2>3, ConcatProperties
  <2>5. Len(c) + Len(b) = Len(s)
    BY <1>1, <2>2, <2>3
  <2>6. ASSUME NEW j \in 1 .. Len(s)
        PROVE  (c \o b)[j] = IF j = at THEN t ELSE s[j]
    <3>1. CASE j <= at
      BY <1>1, <2>3, <2>4, <2>5, <3>1
    <3>2. CASE ~(j <= at)
      <4>1. j - at \in 1 .. Len(s) - at /\ at + (j - at) = j /\ j # at
        BY <1>1, <3>2
      <4>2. QED
        BY <2>2, <2>3, <2>4, <2>5, <3>2, <4>1
    <3>3. QED
      BY <3>1, <3>2
  <2>7. DOMAIN (c \o b) = 1 .. Len(s)
    BY <2>4, <2>5
  <2>8. Splice(s, i, <<t>>) = c \o b
    BY <1>2 DEF c
  <2> DEFINE r == Splice(s, i, <<t>>)
  <2>9. r = c \o b
    BY <2>8
  <2> HIDE DEF r
  <2>10. r \in Seq(S) /\ DOMAIN r = DOMAIN s /\ \A j \in DOMAIN s : r[j] = IF j = at THEN t ELSE s[j]
    BY <1>1, <2>4, <2>6, <2>7, <2>9
  <2>11. Len(s) # 0
    BY <1>1, <1>4
  <2>12. QED
    BY <2>10, <2>11 DEF r, at
<1>5. QED
  BY <1>1, <1>3, <1>4

LEMMA ListInitial == ActivityInit => ListInv
<1> SUFFICES ASSUME ActivityInit PROVE ListInv
  OBVIOUS
<1>1. tasks \in Seq(Tasks)
  <2>1. <<>> \in Seq(Tasks) /\ \A t, u \in Tasks : <<t>> \in Seq(Tasks) /\ <<t, u>> \in Seq(Tasks)
    OBVIOUS
  <2>2. QED
    <3>1. \/ tasks = <<>>
          \/ \E t \in Tasks : tasks = <<t>>
          \/ \E t, u \in Tasks : tasks = <<t, u>>
      BY DEF ActivityInit
    <3>2. QED
      BY <2>1, <3>1
<1>2. Range(tasks) \subseteq Tasks
  BY <1>1, RangeOfSeq
<1>3. /\ tasksById = Range(tasks) /\ removedTasks = {} /\ unknownRemoved = FALSE
      /\ \A i, j \in DOMAIN tasks : tasks[i] = tasks[j] => i = j
  BY DEF ActivityInit
<1>4. QED
  BY <1>1, <1>2, <1>3 DEF ListInv

\* A report about a task that is in the index, or new
LEMMA Listed ==
  ASSUME ListInv, NEW t \in Tasks, t \notin removedTasks,
         tasks' = IF t \in tasksById THEN Splice(tasks, IndexOf(tasks, t), <<t>>) ELSE <<t>> \o tasks,
         tasksById' = tasksById \cup {t}, UNCHANGED <<removedTasks, unknownRemoved>>
  PROVE  ListInv'
<1> tasks \in Seq(Tasks) /\ Len(tasks) \in Nat /\ DOMAIN tasks = 1 .. Len(tasks)
  BY LenProperties DEF ListInv
<1>1. CASE t \in tasksById
  <2> DEFINE i == IndexOf(tasks, t)
             at == IF i > 0 THEN i ELSE Len(tasks)
  <2>1. /\ i \in 0 .. Len(tasks) /\ (i > 0 => tasks[i] = t) /\ (i = 0 => t \notin Range(tasks))
    BY Found
  <2>2. tasks' = Splice(tasks, i, <<t>>)
    BY <1>1
  <2> HIDE DEF i
  <2>3. /\ tasks' \in Seq(Tasks)
        /\ Len(tasks) = 0 => tasks' = <<t>>
        /\ Len(tasks) > 0 => /\ DOMAIN tasks' = DOMAIN tasks
                             /\ \A j \in DOMAIN tasks : tasks'[j] = IF j = at THEN t ELSE tasks[j]
    <3> DEFINE r == Splice(tasks, i, <<t>>)
    <3>1. /\ r \in Seq(Tasks)
          /\ Len(tasks) = 0 => r = <<t>>
          /\ Len(tasks) > 0 => /\ DOMAIN r = DOMAIN tasks
                               /\ \A j \in DOMAIN tasks : r[j] = IF j = at THEN t ELSE tasks[j]
      BY <2>1, Replaced
    <3> HIDE DEF r, at
    <3>2. tasks' = r
      BY <2>2 DEF r
    <3>3. QED
      BY <3>1, <3>2
  <2> HIDE DEF at
  <2>4. \A j, k \in DOMAIN tasks' : tasks'[j] = tasks'[k] => j = k
    BY <2>1, <2>3, SMTT(30) DEF ListInv, Range, at
  <2>5. Range(tasks') \subseteq tasksById'
    BY <1>1, <2>3 DEF ListInv, Range
  <2>6. ASSUME ~unknownRemoved
        PROVE  tasksById' \subseteq Range(tasks')
    <3>1. i > 0
      BY <1>1, <2>1, <2>6 DEF ListInv
    <3>2. Len(tasks) > 0
      BY <2>1, <3>1
    <3>3. tasks' = tasks
      <4>1. \A j \in DOMAIN tasks : tasks'[j] = tasks[j]
        BY <2>1, <2>3, <3>1, <3>2 DEF at
      <4>2. Len(tasks') = Len(tasks)
        <5>1. DOMAIN tasks' = 1 .. Len(tasks') /\ Len(tasks') \in Nat /\ DOMAIN tasks' = 1 .. Len(tasks)
          BY <2>3, <3>2, LenProperties
        <5>2. QED
          <6>1. Len(tasks') \in 1 .. Len(tasks)
            <7>1. 1 \in 1 .. Len(tasks')
              BY <3>2, <5>1
            <7>2. Len(tasks') \in 1 .. Len(tasks')
              BY <5>1, <7>1
            <7>3. QED
              BY <5>1, <7>2
          <6>2. Len(tasks) \in 1 .. Len(tasks')
            <7>1. Len(tasks) \in 1 .. Len(tasks)
              BY <3>2, <5>1
            <7>2. QED
              BY <5>1, <7>1
          <6>3. Len(tasks) <= Len(tasks') /\ Len(tasks') <= Len(tasks)
            BY <6>1, <6>2
          <6>4. Len(tasks) \in Nat /\ Len(tasks') \in Nat
            BY <5>1
          <6>5. \A m, n \in Nat : m <= n /\ n <= m => m = n
            OBVIOUS
          <6>6. QED
            BY <6>3, <6>4, <6>5
      <4>3. QED
        BY <2>3, <4>1, <4>2, SeqEqual
    <3>4. QED
      BY <1>1, <2>6, <3>3 DEF ListInv
  <2>7. QED
    BY <1>1, <2>3, <2>4, <2>5, <2>6 DEF ListInv
<1>2. CASE t \notin tasksById
  <2>1. <<t>> \in Seq(Tasks) /\ Len(<<t>>) = 1 /\ <<t>>[1] = t
    OBVIOUS
  <2>2. /\ tasks' \in Seq(Tasks) /\ Len(tasks') = 1 + Len(tasks)
        /\ \A j \in 1 .. 1 + Len(tasks) : tasks'[j] = IF j <= 1 THEN <<t>>[j] ELSE tasks[j - 1]
    BY <1>2, <2>1, ConcatProperties
  <2>3. DOMAIN tasks' = 1 .. 1 + Len(tasks)
    BY <2>2
  <2>4. \A j \in DOMAIN tasks' : tasks'[j] = IF j = 1 THEN t ELSE tasks[j - 1]
    BY <2>1, <2>2, <2>3, SMTT(30)
  <2>5. t \notin Range(tasks)
    BY <1>2 DEF ListInv
  <2>6. \A j, k \in DOMAIN tasks' : tasks'[j] = tasks'[k] => j = k
    <3> SUFFICES ASSUME NEW j \in DOMAIN tasks', NEW k \in DOMAIN tasks', tasks'[j] = tasks'[k]
                 PROVE  j = k
      OBVIOUS
    <3>1. j # 1 => j - 1 \in DOMAIN tasks
      BY <2>3
    <3>2. k # 1 => k - 1 \in DOMAIN tasks
      BY <2>3
    <3>3. j \in Int /\ k \in Int
      BY <2>3
    <3>4. QED
      BY <2>4, <2>5, <3>1, <3>2, <3>3 DEF ListInv, Range
  <2>7. Range(tasks') = Range(tasks) \cup {t}
    <3>1. 1 \in DOMAIN tasks'
      BY <2>3
    <3>2. ASSUME NEW j \in DOMAIN tasks
          PROVE  j + 1 \in DOMAIN tasks' /\ tasks'[j + 1] = tasks[j]
      BY <2>3, <2>4
    <3>3. ASSUME NEW j \in DOMAIN tasks', j # 1
          PROVE  j - 1 \in DOMAIN tasks /\ tasks'[j] = tasks[j - 1]
      BY <2>3, <2>4, <3>3
    <3>4. QED
      <4>1. \A x \in Range(tasks) : x \in Range(tasks')
        BY <3>2 DEF Range
      <4>2. t \in Range(tasks')
        BY <2>4, <3>1 DEF Range
      <4>3. \A j \in DOMAIN tasks' : tasks'[j] \in Range(tasks) \cup {t}
        BY <2>4, <3>3 DEF Range
      <4>4. QED
        BY <4>1, <4>2, <4>3 DEF Range
  <2>8. QED
    BY <2>2, <2>6, <2>7 DEF ListInv
<1>3. QED
  BY <1>1, <1>2

LEMMA TaskGoes ==
  ASSUME ListInv, NEW t \in Tasks, RemoveTask(t)
  PROVE  ListInv'
<1> tasks \in Seq(Tasks) /\ Len(tasks) \in Nat /\ DOMAIN tasks = 1 .. Len(tasks)
  BY LenProperties DEF ListInv
<1> DEFINE i == IndexOf(tasks, t)
           at == IF i > 0 THEN i ELSE Len(tasks)
<1>1. /\ i \in 0 .. Len(tasks) /\ (i > 0 => tasks[i] = t) /\ (i = 0 => t \notin Range(tasks))
  BY Found
<1>2. tasks' = Splice(tasks, i, <<>>)
  BY DEF RemoveTask
<1> HIDE DEF i
<1>3. /\ tasks' \in Seq(Tasks)
      /\ DOMAIN tasks' = 1 .. Len(tasks) - 1
      /\ \A j \in 1 .. Len(tasks) - 1 : tasks'[j] = IF j < at THEN tasks[j] ELSE tasks[j + 1]
  BY <1>1, <1>2, Taken
<1>4. at \in 0 .. Len(tasks)
  BY <1>1
<1>5. \A j \in DOMAIN tasks' :
        \E k \in DOMAIN tasks : k # at /\ (k < at => j = k) /\ (k > at => j = k - 1) /\ tasks'[j] = tasks[k]
  <2> HIDE DEF at
  <2> SUFFICES ASSUME NEW j \in DOMAIN tasks'
               PROVE  \E k \in DOMAIN tasks : k # at /\ (k < at => j = k) /\ (k > at => j = k - 1) /\ tasks'[j] = tasks[k]
    OBVIOUS
  <2>1. CASE j < at
    <3>1. j \in DOMAIN tasks /\ j # at /\ ~(j > at) /\ tasks'[j] = tasks[j]
      BY <1>3, <1>4, <2>1
    <3>2. QED
      BY <3>1
  <2>2. CASE ~(j < at)
    <3> DEFINE k == j + 1
    <3>1. k \in DOMAIN tasks /\ k # at /\ ~(k < at) /\ j = k - 1 /\ tasks'[j] = tasks[k]
      BY <1>3, <1>4, <2>2
    <3> HIDE DEF k
    <3>2. QED
      BY <3>1
  <2>3. QED
    BY <2>1, <2>2
<1>6. \A j, k \in DOMAIN tasks' : tasks'[j] = tasks'[k] => j = k
  <2> SUFFICES ASSUME NEW j \in DOMAIN tasks', NEW k \in DOMAIN tasks', tasks'[j] = tasks'[k]
               PROVE  j = k
    OBVIOUS
  <2> HIDE DEF at
  <2>1. PICK x \in DOMAIN tasks : x # at /\ (x < at => j = x) /\ (x > at => j = x - 1) /\ tasks'[j] = tasks[x]
    BY <1>5
  <2>2. PICK y \in DOMAIN tasks : y # at /\ (y < at => k = y) /\ (y > at => k = y - 1) /\ tasks'[k] = tasks[y]
    BY <1>5
  <2>3. x = y
    BY <2>1, <2>2 DEF ListInv
  <2>4. QED
    BY <1>4, <2>1, <2>2, <2>3
<1>7. Range(tasks') \subseteq Range(tasks)
  BY <1>5 DEF Range
<1>8. t \notin Range(tasks')
  <2>1. CASE i = 0
    BY <1>1, <1>7, <2>1
  <2>2. CASE i > 0
    <3>1. at = i /\ i \in DOMAIN tasks
      BY <1>1, <2>2
    <3>2. QED
      BY <1>1, <1>5, <2>2, <3>1 DEF ListInv, Range
  <2>3. QED
    BY <1>1, <2>1, <2>2
<1>9. ASSUME ~unknownRemoved'
      PROVE  tasksById' \subseteq Range(tasks')
  <2>1. ~unknownRemoved /\ t \in tasksById
    BY <1>9 DEF RemoveTask
  <2>2. i > 0 /\ at = i /\ i \in DOMAIN tasks
    <3>1. i # 0
      BY <1>1, <2>1 DEF ListInv
    <3>2. i > 0
      <4>1. i \in 0 .. Len(tasks) /\ Len(tasks) \in Nat
        BY <1>1
      <4>2. QED
        BY <3>1, <4>1
    <3>3. at = i
      BY <3>2
    <3>4. i \in DOMAIN tasks
      BY <1>1, <3>2
    <3>5. QED
      BY <3>2, <3>3, <3>4
  <2>3. ASSUME NEW k \in DOMAIN tasks, k # i
        PROVE  tasks[k] \in Range(tasks')
    <3>1. CASE k < i
      <4>1. k \in DOMAIN tasks' /\ tasks'[k] = tasks[k]
        BY <1>3, <2>2, <3>1
      <4>2. QED
        BY <4>1 DEF Range
    <3>2. CASE k > i
      <4>1. k - 1 \in DOMAIN tasks' /\ tasks'[k - 1] = tasks[(k - 1) + 1]
        BY <1>3, <2>2, <3>2
      <4>2. (k - 1) + 1 = k
        OBVIOUS
      <4>3. QED
        BY <4>1, <4>2 DEF Range
    <3>3. QED
      BY <2>2, <2>3, <3>1, <3>2
  <2>4. QED
    BY <1>1, <2>1, <2>2, <2>3 DEF ListInv, RemoveTask, Range
<1>10. QED
  BY <1>3, <1>6, <1>7, <1>8, <1>9 DEF ListInv, RemoveTask

LEMMA ListInvariance ==
  ASSUME ListInv, [ActivityNext]_activityVars
  PROVE  ListInv'
<1>1. ASSUME NEW t \in Tasks, AddOrUpdateTask(t)
      PROVE  ListInv'
  <2>1. CASE t \in removedTasks
    <3>1. UNCHANGED <<tasks, tasksById, removedTasks, unknownRemoved>>
      BY <1>1, <2>1 DEF AddOrUpdateTask
    <3>2. QED
      BY <3>1 DEF ListInv
  <2>2. CASE t \notin removedTasks
    BY <1>1, <2>2, Listed DEF AddOrUpdateTask
  <2>3. QED
    BY <2>1, <2>2
<1>2. ASSUME NEW t \in Tasks, RemoveTask(t)
      PROVE  ListInv'
  BY <1>2, TaskGoes
<1>3. CASE UNCHANGED activityVars
  BY <1>3 DEF activityVars, ListInv
<1>4. QED
  BY <1>1, <1>2, <1>3 DEF ActivityNext

LEMMA ListHolds == ListInv => TasksAreListed
<1> SUFFICES ASSUME ListInv PROVE TasksAreListed
  OBVIOUS
<1>1. ASSUME ~unknownRemoved
      PROVE  Len(tasks) = Cardinality(tasksById)
  <2>1. Len(tasks) \in Nat /\ tasks \in [1 .. Len(tasks) -> Tasks]
    BY LenProperties DEF ListInv
  <2>2. tasks \in Bijection(1 .. Len(tasks), tasksById)
    BY <1>1, <2>1 DEF ListInv, Range, Bijection, Injection, Surjection, IsInjective
  <2>3. QED
    BY <2>1, <2>2, FS_CountingElements DEF ExistsBijection
<1>2. QED
  BY <1>1 DEF ListInv, TasksAreListed, ListMatchesIndex, RemovedStaysAway

-----------------------------------------------------------------------------
(* The selection.                                                          *)

SelectEvents ==
  [status : {"asked", "lookedUp", "read", "answered", "failed"},
   objects : SUBSET Objects, found : SUBSET Objects, hasItems : BOOLEAN]
WorkerMessages == [answer : Nat, deleted : SUBSET Objects]

SelectionTypeOK ==
  /\ existing \subseteq Objects /\ selectedObjects \subseteq Objects
  /\ selects \in Seq(SelectEvents) /\ fromWorker \in Seq(WorkerMessages)
  /\ appending \in Nat /\ unpublished \in BOOLEAN

\* What was published last is what the page knows as that, unless it lost something since
PreviousInv == previous # <<>> => previous = <<published>> \/ unpublished

\* A message is an answer, or tells of one object that was deleted
WorkerInv ==
  \A k \in DOMAIN fromWorker :
    \/ /\ fromWorker[k].answer \in DOMAIN selects
       /\ selects[fromWorker[k].answer].status = "answered" /\ fromWorker[k].deleted = {}
    \/ fromWorker[k].answer = 0 /\ \E x \in Objects : fromWorker[k].deleted = {x}

\* The page will be told after the k-th message that x was deleted
ToldAfter(k, x) == \E j \in DOMAIN fromWorker : j > k /\ x \in fromWorker[j].deleted

\* The worker has not told that x was deleted, or x was read too early, or the page will be told
\* after the k-th message
Known(k, x) == x \in kept \/ x \in outdated \/ ToldAfter(k, x)

\* Of what is selected, and of what an answer selects, the page will be told if it was deleted
DeletedInv ==
  /\ \A x \in selectedObjects : Known(0, x)
  /\ \A k \in DOMAIN fromWorker : fromWorker[k].answer # 0 =>
       \A x \in selects[fromWorker[k].answer].objects : Known(k, x)

SelectionInv == SelectionTypeOK /\ PublishedIsSelected /\ PreviousInv /\ WorkerInv /\ DeletedInv

LEMMA SelectionInitial == SelectionInit => SelectionInv
<1> SUFFICES ASSUME SelectionInit PROVE SelectionInv
  OBVIOUS
<1>1. SelectionTypeOK
  BY EmptySeq DEF SelectionInit, SelectionTypeOK
<1>2. PublishedIsSelected /\ PreviousInv /\ WorkerInv /\ DeletedInv
  BY DEF SelectionInit, PublishedIsSelected, PreviousInv, WorkerInv, DeletedInv
<1>3. QED
  BY <1>1, <1>2 DEF SelectionInv

LEMMA SelectionTypes ==
  ASSUME SelectionInv
  PROVE  /\ DOMAIN selects = 1 .. Len(selects) /\ Len(selects) \in Nat
         /\ \A i \in DOMAIN selects : selects[i] \in SelectEvents
         /\ DOMAIN fromWorker = 1 .. Len(fromWorker) /\ Len(fromWorker) \in Nat
         /\ \A k \in DOMAIN fromWorker : fromWorker[k] \in WorkerMessages
BY LenProperties, ElementOfSeq DEF SelectionInv, SelectionTypeOK

\* A selection that the page makes, or gives up
LEMMA Resolves ==
  ASSUME SelectionInv, NEW objects \in SUBSET Objects, NEW hasItems \in BOOLEAN, Resolved(objects, hasItems)
  PROVE  /\ selectedObjects' \in {selectedObjects, objects}
         /\ objects # {} \/ ~hasItems => selectedObjects' = objects
         /\ appending' \in Nat /\ unpublished' \in BOOLEAN
         /\ PublishedIsSelected' /\ PreviousInv'
<1> appending \in Nat /\ unpublished \in BOOLEAN
  BY DEF SelectionInv, SelectionTypeOK
<1>1. CASE objects = {} /\ hasItems
  <2>1. UNCHANGED <<selectedObjects, previous, shared, published, appending, unpublished>>
    BY <1>1 DEF Resolved
  <2>2. QED
    BY <1>1, <2>1 DEF SelectionInv, PublishedIsSelected, PreviousInv
<1>2. CASE ~(objects = {} /\ hasItems) /\ objects = {} /\ previous # <<objects>>
  <2>1. selectedObjects' = objects /\ PublishSelection({}) /\ UNCHANGED appending
    BY <1>2 DEF Resolved
  <2>2. QED
    BY <1>2, <2>1 DEF PublishSelection, PublishedIsSelected, PreviousInv
<1>3. CASE ~(objects = {} /\ hasItems) /\ ~(objects = {} /\ previous # <<objects>>)
  <2>1. /\ selectedObjects' = objects
        /\ appending' = IF previous = <<objects>> THEN appending ELSE appending + 1
        /\ UNCHANGED <<previous, published, unpublished>>
    BY <1>3 DEF Resolved
  <2>2. PreviousInv'
    BY <2>1 DEF SelectionInv, PreviousInv
  <2>3. PublishedIsSelected'
    <3>1. CASE previous = <<objects>>
      <4>1. published = objects \/ unpublished
        BY <3>1 DEF SelectionInv, PreviousInv
      <4>2. QED
        BY <2>1, <4>1 DEF PublishedIsSelected
    <3>2. CASE previous # <<objects>>
      BY <2>1, <3>2 DEF PublishedIsSelected
    <3>3. QED
      BY <3>1, <3>2
  <2>4. QED
    BY <2>1, <2>2, <2>3
<1>4. QED
  BY <1>1, <1>2, <1>3

\* What the page has selected and publishes is left alone
LEMMA SelectionStays ==
  ASSUME SelectionInv, UNCHANGED <<selectedObjects, previous, shared, published, appending, unpublished>>
  PROVE  PublishedIsSelected' /\ PreviousInv'
BY DEF SelectionInv, PublishedIsSelected, PreviousInv

\* Objects are named by their ids, an event goes on that was not answered, an object is deleted, or
\* comes into the cache again
LEMMA EventGoesOn ==
  ASSUME SelectionInv, selects' \in Seq(SelectEvents),
         existing' \subseteq existing, outdated \subseteq outdated',
         \A i \in DOMAIN selects : i \in DOMAIN selects' /\
                                   (selects[i].status = "answered" => selects'[i] = selects[i]),
         UNCHANGED <<kept, selectedObjects, previous, shared, published, appending, fromWorker,
                     unpublished>>
  PROVE  SelectionInv'
<1>1. PublishedIsSelected' /\ PreviousInv'
  BY SelectionStays
<1>2. \A k \in DOMAIN fromWorker : fromWorker[k].answer # 0 =>
        /\ fromWorker[k].answer \in DOMAIN selects
        /\ selects[fromWorker[k].answer].status = "answered"
  BY DEF SelectionInv, WorkerInv
<1>3. WorkerInv'
  <2>1. \A k \in DOMAIN fromWorker :
          \/ /\ fromWorker[k].answer \in DOMAIN selects
             /\ selects[fromWorker[k].answer].status = "answered" /\ fromWorker[k].deleted = {}
          \/ fromWorker[k].answer = 0 /\ \E x \in Objects : fromWorker[k].deleted = {x}
    BY DEF SelectionInv, WorkerInv
  <2>2. QED
    BY <2>1 DEF WorkerInv
<1>4. DeletedInv'
  <2>1. \A k, x : Known(k, x) => Known(k, x)'
    BY DEF Known, ToldAfter
  <2>2. QED
    BY <1>2, <2>1 DEF SelectionInv, DeletedInv
<1>5. SelectionTypeOK'
  BY DEF SelectionInv, SelectionTypeOK
<1>6. QED
  BY <1>1, <1>3, <1>4, <1>5 DEF SelectionInv

LEMMA Selecting ==
  ASSUME SelectionInv, NEW objects \in Selections, SelectByIds(objects)
  PROVE  SelectionInv'
<1> DEFINE e == [status |-> "asked", objects |-> objects, found |-> {}, hasItems |-> objects # {}]
<1>1. e \in SelectEvents
  <2>1. objects \in SUBSET Objects
    BY DEF Selections, Objects
  <2>2. PICK some \in BOOLEAN : some = (objects # {})
    OBVIOUS
  <2>3. [status |-> "asked", objects |-> objects, found |-> {}, hasItems |-> some] \in SelectEvents
    BY <2>1 DEF SelectEvents
  <2>4. QED
    BY <2>2, <2>3
<1>2. selects' = Append(selects, e)
  BY DEF SelectByIds
<1> HIDE DEF e
<1>3. /\ selects' \in Seq(SelectEvents)
      /\ \A i \in DOMAIN selects : i \in DOMAIN selects' /\ selects'[i] = selects[i]
  BY <1>1, <1>2, AppendProperties DEF SelectionInv, SelectionTypeOK
<1>4. QED
  BY <1>3, EventGoesOn DEF SelectByIds

LEMMA EventChanges ==
  ASSUME SelectionInv, NEW i \in DOMAIN selects, LookUp(i) \/ Read(i) \/ RequestFails(i)
  PROVE  SelectionInv'
<1> selects \in Seq(SelectEvents) /\ DOMAIN selects = 1 .. Len(selects) /\ selects[i] \in SelectEvents
  BY SelectionTypes DEF SelectionInv, SelectionTypeOK
<1>1. PICK e \in SelectEvents : selects' = [selects EXCEPT ![i] = e]
  <2>1. CASE Read(i)
    <3> DEFINE e == [selects[i] EXCEPT !.status = "read", !.objects = selects[i].found \cup (@ \cap existing),
                                       !.found = {}]
    <3>1. e \in SelectEvents
      BY DEF SelectEvents
    <3>2. selects' = [selects EXCEPT ![i] = e]
      BY <2>1 DEF Read
    <3>3. QED
      BY <3>1, <3>2
  <2>2. CASE RequestFails(i)
    <3> DEFINE e == [selects[i] EXCEPT !.status = "failed"]
    <3>1. e \in SelectEvents
      BY DEF SelectEvents
    <3>2. selects' = [selects EXCEPT ![i] = e]
      BY <2>2 DEF RequestFails
    <3>3. QED
      BY <3>1, <3>2
  <2>3. CASE LookUp(i)
    <3>1. PICK found \in SUBSET (selects[i].objects \cap (kept \cup outdated)) :
            selects' = [selects EXCEPT ![i].status = "lookedUp", ![i].found = found]
      BY <2>3 DEF LookUp
    <3> DEFINE e == [selects[i] EXCEPT !.status = "lookedUp", !.found = found]
    <3>2. e \in SelectEvents
      BY DEF SelectEvents
    <3>3. selects' = [selects EXCEPT ![i] = e]
      BY <3>1
    <3>4. QED
      BY <3>2, <3>3
  <2>4. QED
    BY <2>1, <2>2, <2>3
<1>2. selects[i].status # "answered"
  BY DEF LookUp, Read, RequestFails
<1>3. selects' \in Seq(SelectEvents) /\ DOMAIN selects' = DOMAIN selects
  BY <1>1, ExceptSeq
<1>4. \A j \in DOMAIN selects : selects[j].status = "answered" => selects'[j] = selects[j]
  BY <1>1, <1>2
<1>5. UNCHANGED <<existing, kept, selectedObjects, previous, shared, published, appending, fromWorker,
                  unpublished, outdated>>
  BY DEF LookUp, Read, RequestFails
<1>6. QED
  BY <1>3, <1>4, <1>5, EventGoesOn

\* A message is sent: what the page will be told, it will be told then as well
LEMMA Sent ==
  ASSUME SelectionInv, NEW m \in WorkerMessages, fromWorker' = Append(fromWorker, m)
  PROVE  /\ fromWorker' \in Seq(WorkerMessages)
         /\ DOMAIN fromWorker' = 1 .. Len(fromWorker) + 1
         /\ fromWorker'[Len(fromWorker) + 1] = m
         /\ \A k \in DOMAIN fromWorker : fromWorker'[k] = fromWorker[k]
         /\ \A k, x : ToldAfter(k, x) => ToldAfter(k, x)'
<1>1. /\ fromWorker' \in Seq(WorkerMessages) /\ Len(fromWorker') = Len(fromWorker) + 1
      /\ \A k \in 1 .. Len(fromWorker) : fromWorker'[k] = fromWorker[k]
      /\ fromWorker'[Len(fromWorker) + 1] = m
  BY AppendProperties DEF SelectionInv, SelectionTypeOK
<1>2. DOMAIN fromWorker' = 1 .. Len(fromWorker) + 1
  BY <1>1, LenProperties
<1>3. DOMAIN fromWorker = 1 .. Len(fromWorker) /\ Len(fromWorker) \in Nat
  BY SelectionTypes
<1>4. \A k \in DOMAIN fromWorker : k \in DOMAIN fromWorker' /\ fromWorker'[k] = fromWorker[k]
  BY <1>1, <1>2, <1>3
<1>5. \A k, x : ToldAfter(k, x) => ToldAfter(k, x)'
  BY <1>4 DEF ToldAfter
<1>6. QED
  BY <1>1, <1>2, <1>4, <1>5

LEMMA Answered ==
  ASSUME SelectionInv, NEW i \in DOMAIN selects, SelectionAnswered(i)
  PROVE  SelectionInv'
<1> DEFINE m == [answer |-> i, deleted |-> {}]
           e == [selects[i] EXCEPT !.status = "answered"]
<1>1. /\ selects[i].status = "read" /\ selects' = [selects EXCEPT ![i] = e]
      /\ fromWorker' = Append(fromWorker, m)
      /\ outdated' = outdated \cup (selects[i].objects \ kept)
      /\ UNCHANGED <<existing, kept, selectedObjects, previous, shared, published, appending, unpublished>>
  BY DEF SelectionAnswered
<1>2. /\ selects \in Seq(SelectEvents) /\ DOMAIN selects = 1 .. Len(selects) /\ selects[i] \in SelectEvents
      /\ i \in Nat \ {0} /\ fromWorker \in Seq(WorkerMessages)
      /\ DOMAIN fromWorker = 1 .. Len(fromWorker) /\ Len(fromWorker) \in Nat
  BY SelectionTypes DEF SelectionInv, SelectionTypeOK
<1>3. m \in WorkerMessages /\ m.answer = i /\ m.deleted = {}
  BY <1>2 DEF WorkerMessages
<1>4. e \in SelectEvents /\ e.status = "answered" /\ e.objects = selects[i].objects
  BY <1>2 DEF SelectEvents
<1> HIDE DEF m, e
<1>5. /\ fromWorker' \in Seq(WorkerMessages)
      /\ DOMAIN fromWorker' = 1 .. Len(fromWorker) + 1
      /\ fromWorker'[Len(fromWorker) + 1] = m
      /\ \A k \in DOMAIN fromWorker : fromWorker'[k] = fromWorker[k]
      /\ \A k, x : ToldAfter(k, x) => ToldAfter(k, x)'
  BY <1>1, <1>3, Sent
<1>6. /\ selects' \in Seq(SelectEvents) /\ DOMAIN selects' = DOMAIN selects /\ selects'[i] = e
      /\ \A j \in DOMAIN selects : j # i => selects'[j] = selects[j]
  BY <1>1, <1>2, <1>4, ExceptSeq
<1>7. PublishedIsSelected' /\ PreviousInv'
  BY <1>1, SelectionStays
<1>8. SelectionTypeOK'
  BY <1>1, <1>5, <1>6 DEF SelectionInv, SelectionTypeOK
<1>9. WorkerInv'
  <2> SUFFICES ASSUME NEW k \in DOMAIN fromWorker'
               PROVE  \/ /\ fromWorker'[k].answer \in DOMAIN selects'
                         /\ selects'[fromWorker'[k].answer].status = "answered"
                         /\ fromWorker'[k].deleted = {}
                      \/ fromWorker'[k].answer = 0 /\ \E x \in Objects : fromWorker'[k].deleted = {x}
    BY DEF WorkerInv
  <2>1. CASE k = Len(fromWorker) + 1
    BY <1>3, <1>4, <1>5, <1>6, <2>1
  <2>2. CASE k # Len(fromWorker) + 1
    <3>1. k \in DOMAIN fromWorker
      BY <1>2, <1>5, <2>2
    <3>2. \/ /\ fromWorker[k].answer \in DOMAIN selects
             /\ selects[fromWorker[k].answer].status = "answered" /\ fromWorker[k].deleted = {}
          \/ fromWorker[k].answer = 0 /\ \E x \in Objects : fromWorker[k].deleted = {x}
      BY <3>1 DEF SelectionInv, WorkerInv
    <3>3. fromWorker'[k] = fromWorker[k]
      BY <1>5, <3>1
    <3>4. QED
      BY <1>1, <1>6, <3>2, <3>3
  <2>3. QED
    BY <2>1, <2>2
<1>10. \A k, x : Known(k, x) => Known(k, x)'
  BY <1>1, <1>5 DEF Known
<1>11. DeletedInv'
  <2>1. \A x \in selectedObjects' : Known(0, x)'
    BY <1>1, <1>10 DEF SelectionInv, DeletedInv
  <2>2. ASSUME NEW k \in DOMAIN fromWorker', fromWorker'[k].answer # 0,
               NEW x \in selects'[fromWorker'[k].answer].objects
        PROVE  Known(k, x)'
    <3>1. CASE k = Len(fromWorker) + 1
      <4>1. x \in selects[i].objects
        BY <1>3, <1>4, <1>5, <1>6, <2>2, <3>1
      <4>2. x \in kept' \/ x \in outdated'
        BY <1>1, <4>1
      <4>3. QED
        BY <4>2 DEF Known
    <3>2. CASE k # Len(fromWorker) + 1
      <4>1. k \in DOMAIN fromWorker /\ fromWorker'[k] = fromWorker[k]
        BY <1>2, <1>5, <3>2
      <4>2. fromWorker[k].answer \in DOMAIN selects /\ selects[fromWorker[k].answer].status = "answered"
        BY <2>2, <4>1 DEF SelectionInv, WorkerInv
      <4>3. x \in selects[fromWorker[k].answer].objects
        BY <1>1, <1>6, <2>2, <4>1, <4>2
      <4>4. Known(k, x)
        BY <2>2, <4>1, <4>3 DEF SelectionInv, DeletedInv
      <4>5. QED
        BY <1>10, <4>4
    <3>3. QED
      BY <3>1, <3>2
  <2>3. QED
    BY <2>1, <2>2 DEF DeletedInv
<1>12. QED
  BY <1>7, <1>8, <1>9, <1>11 DEF SelectionInv

\* Somebody deletes an object, or it comes into the cache again
LEMMA ObjectChanges ==
  ASSUME SelectionInv, NEW x \in Objects, Delete(x) \/ CachedAgain(x)
  PROVE  SelectionInv'
<1>1. /\ existing' \subseteq existing /\ outdated \subseteq outdated' /\ selects' = selects
      /\ UNCHANGED <<kept, selectedObjects, previous, shared, published, appending, fromWorker, unpublished>>
  BY DEF Delete, CachedAgain
<1>2. selects' \in Seq(SelectEvents)
  BY <1>1 DEF SelectionInv, SelectionTypeOK
<1>3. QED
  BY <1>1, <1>2, EventGoesOn

LEMMA Told ==
  ASSUME SelectionInv, NEW x \in Objects, TellDeleted(x)
  PROVE  SelectionInv'
<1> DEFINE m == [answer |-> 0, deleted |-> {x}]
<1>1. /\ kept' = kept \ {x} /\ fromWorker' = Append(fromWorker, m)
      /\ UNCHANGED <<existing, selectedObjects, previous, shared, published, selects, appending,
                     unpublished, outdated>>
  BY DEF TellDeleted
<1>2. fromWorker \in Seq(WorkerMessages) /\ DOMAIN fromWorker = 1 .. Len(fromWorker) /\ Len(fromWorker) \in Nat
  BY SelectionTypes DEF SelectionInv, SelectionTypeOK
<1>3. m \in WorkerMessages /\ m.answer = 0 /\ m.deleted = {x}
  BY DEF WorkerMessages
<1> HIDE DEF m
<1>4. /\ fromWorker' \in Seq(WorkerMessages)
      /\ DOMAIN fromWorker' = 1 .. Len(fromWorker) + 1
      /\ fromWorker'[Len(fromWorker) + 1] = m
      /\ \A k \in DOMAIN fromWorker : fromWorker'[k] = fromWorker[k]
      /\ \A k, y : ToldAfter(k, y) => ToldAfter(k, y)'
  BY <1>1, <1>3, Sent
<1>5. PublishedIsSelected' /\ PreviousInv'
  BY <1>1, SelectionStays
<1>6. SelectionTypeOK'
  BY <1>1, <1>4 DEF SelectionInv, SelectionTypeOK
<1>7. WorkerInv'
  <2> SUFFICES ASSUME NEW k \in DOMAIN fromWorker'
               PROVE  \/ /\ fromWorker'[k].answer \in DOMAIN selects
                         /\ selects[fromWorker'[k].answer].status = "answered"
                         /\ fromWorker'[k].deleted = {}
                      \/ fromWorker'[k].answer = 0 /\ \E y \in Objects : fromWorker'[k].deleted = {y}
    BY <1>1 DEF WorkerInv
  <2>1. CASE k = Len(fromWorker) + 1
    BY <1>3, <1>4, <2>1
  <2>2. CASE k # Len(fromWorker) + 1
    <3>1. k \in DOMAIN fromWorker /\ fromWorker'[k] = fromWorker[k]
      BY <1>2, <1>4, <2>2
    <3>2. QED
      BY <3>1 DEF SelectionInv, WorkerInv
  <2>3. QED
    BY <2>1, <2>2
<1>8. ASSUME NEW k, k \in 0 .. Len(fromWorker), NEW y, Known(k, y)
      PROVE  Known(k, y)'
  <2>1. CASE y = x
    <3>1. /\ Len(fromWorker) + 1 \in DOMAIN fromWorker' /\ Len(fromWorker) + 1 > k
          /\ y \in fromWorker'[Len(fromWorker) + 1].deleted
      BY <1>2, <1>3, <1>4, <1>8, <2>1
    <3>2. QED
      BY <3>1 DEF Known, ToldAfter
  <2>2. CASE y # x
    BY <1>1, <1>4, <1>8, <2>2 DEF Known
  <2>3. QED
    BY <2>1, <2>2
<1>9. DeletedInv'
  <2>1. \A y \in selectedObjects' : Known(0, y)'
    BY <1>1, <1>2, <1>8 DEF SelectionInv, DeletedInv
  <2>2. ASSUME NEW k \in DOMAIN fromWorker', fromWorker'[k].answer # 0,
               NEW y \in selects[fromWorker'[k].answer].objects
        PROVE  Known(k, y)'
    <3>1. k # Len(fromWorker) + 1
      BY <1>3, <1>4, <2>2
    <3>2. k \in DOMAIN fromWorker /\ fromWorker'[k] = fromWorker[k] /\ k \in 0 .. Len(fromWorker)
      BY <1>2, <1>4, <3>1
    <3>3. Known(k, y)
      BY <2>2, <3>2 DEF SelectionInv, DeletedInv
    <3>4. QED
      BY <1>8, <3>2, <3>3
  <2>3. QED
    BY <1>1, <2>1, <2>2 DEF DeletedInv
<1>10. QED
  BY <1>5, <1>6, <1>7, <1>9 DEF SelectionInv

LEMMA AppendComesBack ==
  ASSUME SelectionInv, Appended \/ AppendFails
  PROVE  SelectionInv'
<1>1. /\ appending > 0 /\ appending' = appending - 1
      /\ UNCHANGED <<existing, kept, selectedObjects, selects, fromWorker, outdated>>
  BY DEF Appended, AppendFails
<1>2. unpublished' \in BOOLEAN /\ PublishedIsSelected' /\ PreviousInv'
  BY DEF Appended, AppendFails, PublishSelection, PublishedIsSelected, PreviousInv
<1>3. SelectionTypeOK'
  BY <1>1, <1>2 DEF SelectionInv, SelectionTypeOK
<1>4. WorkerInv'
  BY <1>1 DEF SelectionInv, WorkerInv
<1>5. \A k, x : Known(k, x) => Known(k, x)'
  BY <1>1 DEF Known, ToldAfter
<1>6. DeletedInv'
  BY <1>1, <1>5 DEF SelectionInv, DeletedInv
<1>7. QED
  BY <1>2, <1>3, <1>4, <1>6 DEF SelectionInv

\* What the first message does to the selection
LEMMA MessageSelects ==
  ASSUME SelectionInv, SelectionMessage
  PROVE  /\ selectedObjects' \subseteq Objects /\ appending' \in Nat /\ unpublished' \in BOOLEAN
         /\ PublishedIsSelected' /\ PreviousInv'
         /\ \A x \in selectedObjects' :
              \/ x \in selectedObjects /\ x \notin fromWorker[1].deleted
              \/ fromWorker[1].answer # 0 /\ x \in selects[fromWorker[1].answer].objects
<1> DEFINE m == fromWorker[1]
<1>1. /\ fromWorker # <<>> /\ fromWorker \in Seq(WorkerMessages) /\ Head(fromWorker) = fromWorker[1]
      /\ 1 \in DOMAIN fromWorker
  <2>1. fromWorker # <<>> /\ fromWorker \in Seq(WorkerMessages)
    BY DEF SelectionMessage, SelectionInv, SelectionTypeOK
  <2>2. Len(fromWorker) \in Nat \ {0} /\ DOMAIN fromWorker = 1 .. Len(fromWorker)
    BY <2>1, EmptySeq, LenProperties
  <2>3. QED
    BY <2>1, <2>2
<1>2. \/ /\ m.answer \in DOMAIN selects /\ m.deleted = {}
      \/ m.answer = 0 /\ \E x \in Objects : m.deleted = {x}
  BY <1>1 DEF SelectionInv, WorkerInv
<1>3. \/ m.answer > 0 /\ Resolved(selects[m.answer].objects, selects[m.answer].hasItems)
      \/ \E e \in m.deleted \cap SelectableEdges : EdgeDeleted(e)
      \/ \E v \in m.deleted \cap SelectableVertices : VertexDeleted(v)
  BY <1>1 DEF SelectionMessage
<1> HIDE DEF m
<1>4. selectedObjects \subseteq Objects /\ appending \in Nat /\ unpublished \in BOOLEAN
  BY DEF SelectionInv, SelectionTypeOK
<1>5. CASE m.answer > 0 /\ Resolved(selects[m.answer].objects, selects[m.answer].hasItems)
  <2>1. m.answer \in DOMAIN selects /\ m.deleted = {} /\ m.answer # 0
    BY <1>2, <1>5
  <2>2. selects[m.answer] \in SelectEvents
    BY <2>1, SelectionTypes
  <2>3. PICK objects \in SUBSET Objects : objects = selects[m.answer].objects
    BY <2>2 DEF SelectEvents
  <2>4. PICK hasItems \in BOOLEAN : hasItems = selects[m.answer].hasItems
    BY <2>2 DEF SelectEvents
  <2>5. /\ selectedObjects' \in {selectedObjects, objects}
        /\ appending' \in Nat /\ unpublished' \in BOOLEAN
        /\ PublishedIsSelected' /\ PreviousInv'
    BY <1>5, <2>3, <2>4, Resolves
  <2>6. QED
    BY <1>4, <2>1, <2>3, <2>5 DEF m
<1>6. ASSUME NEW x \in Objects, m.deleted = {x}, selectedObjects' \subseteq selectedObjects \ {x},
             appending' \in Nat, unpublished' \in BOOLEAN, PublishedIsSelected', PreviousInv'
      PROVE  /\ selectedObjects' \subseteq Objects /\ appending' \in Nat /\ unpublished' \in BOOLEAN
             /\ PublishedIsSelected' /\ PreviousInv'
             /\ \A y \in selectedObjects' : y \in selectedObjects /\ y \notin m.deleted
  BY <1>4, <1>6
<1>7. ASSUME NEW e \in m.deleted \cap SelectableEdges, EdgeDeleted(e)
      PROVE  /\ e \in Objects /\ m.deleted = {e} /\ selectedObjects' \subseteq selectedObjects \ {e}
             /\ appending' \in Nat /\ unpublished' \in BOOLEAN /\ PublishedIsSelected' /\ PreviousInv'
  <2>1. e \in Objects /\ m.deleted = {e}
    BY <1>2, <1>7
  <2>2. CASE e \notin selectedObjects
    <3>1. UNCHANGED <<selectedObjects, previous, shared, published, appending, unpublished>>
      BY <1>7, <2>2 DEF EdgeDeleted
    <3>2. QED
      BY <1>4, <2>1, <2>2, <3>1, SelectionStays
  <2>3. CASE selectedObjects = {e}
    <3>1. Resolved({}, FALSE)
      BY <1>7, <2>3 DEF EdgeDeleted
    <3>2. /\ selectedObjects' = {} /\ appending' \in Nat /\ unpublished' \in BOOLEAN
          /\ PublishedIsSelected' /\ PreviousInv'
      BY <3>1, Resolves
    <3>3. QED
      BY <2>1, <3>2
  <2>4. CASE e \in selectedObjects /\ selectedObjects # {e}
    <3>1. /\ selectedObjects' = selectedObjects \ {e} /\ unpublished' = TRUE
          /\ appending' = appending
      BY <1>7, <2>4 DEF EdgeDeleted
    <3>2. QED
      BY <1>4, <2>1, <3>1 DEF PublishedIsSelected, PreviousInv
  <2>5. QED
    BY <2>2, <2>3, <2>4
<1>8. ASSUME NEW v \in m.deleted \cap SelectableVertices, VertexDeleted(v)
      PROVE  /\ v \in Objects /\ m.deleted = {v} /\ selectedObjects' \subseteq selectedObjects \ {v}
             /\ appending' \in Nat /\ unpublished' \in BOOLEAN /\ PublishedIsSelected' /\ PreviousInv'
  <2>1. v \in Objects /\ m.deleted = {v}
    BY <1>2, <1>8
  <2>2. CASE selectedObjects \cap SelectableVertices = {}
    <3>1. UNCHANGED <<selectedObjects, previous, shared, published, appending, unpublished>>
      BY <1>8, <2>2 DEF VertexDeleted
    <3>2. v \notin selectedObjects
      BY <2>2
    <3>3. QED
      BY <1>4, <2>1, <3>1, <3>2, SelectionStays
  <2>3. CASE selectedObjects \cap SelectableVertices # {}
    <3> DEFINE left == selectedObjects \ {v}
    <3>1. Resolved(left, left # {})
      BY <1>8, <2>3 DEF VertexDeleted
    <3>2. left \in SUBSET Objects /\ (left # {}) \in BOOLEAN
      BY <1>4
    <3>3. PICK hasItems \in BOOLEAN : hasItems = (left # {})
      BY <3>2
    <3> HIDE DEF left
    <3>4. Resolved(left, hasItems)
      BY <3>1, <3>3
    <3>5. /\ selectedObjects' = left /\ appending' \in Nat /\ unpublished' \in BOOLEAN
          /\ PublishedIsSelected' /\ PreviousInv'
      <4>1. left # {} \/ ~hasItems
        BY <3>3
      <4>2. QED
        BY <3>2, <3>4, <4>1, Resolves
    <3>6. QED
      BY <2>1, <3>5 DEF left
  <2>4. QED
    BY <2>2, <2>3
<1>9. QED
  BY <1>3, <1>5, <1>6, <1>7, <1>8 DEF m

LEMMA MessageTaken ==
  ASSUME SelectionInv, SelectionMessage
  PROVE  SelectionInv'
<1>1. /\ fromWorker # <<>> /\ fromWorker' = Tail(fromWorker)
      /\ UNCHANGED <<existing, kept, selects, outdated>>
  BY DEF SelectionMessage
<1>2. /\ fromWorker' \in Seq(WorkerMessages) /\ Len(fromWorker) \in Nat \ {0}
      /\ DOMAIN fromWorker' = 1 .. Len(fromWorker) - 1
      /\ DOMAIN fromWorker = 1 .. Len(fromWorker)
      /\ \A k \in DOMAIN fromWorker' : fromWorker'[k] = fromWorker[k + 1]
  <2>1. fromWorker \in Seq(WorkerMessages)
    BY DEF SelectionInv, SelectionTypeOK
  <2>2. /\ Tail(fromWorker) \in Seq(WorkerMessages) /\ Len(Tail(fromWorker)) = Len(fromWorker) - 1
        /\ \A k \in 1 .. Len(Tail(fromWorker)) : Tail(fromWorker)[k] = fromWorker[k + 1]
    BY <1>1, <2>1, HeadTailProperties
  <2>3. Len(fromWorker) \in Nat \ {0} /\ DOMAIN fromWorker = 1 .. Len(fromWorker)
    BY <1>1, <2>1, EmptySeq, LenProperties
  <2>4. DOMAIN fromWorker' = 1 .. Len(fromWorker) - 1
    BY <1>1, <2>2, LenProperties
  <2>5. QED
    BY <1>1, <2>2, <2>3, <2>4
<1>3. /\ selectedObjects' \subseteq Objects /\ appending' \in Nat /\ unpublished' \in BOOLEAN
      /\ PublishedIsSelected' /\ PreviousInv'
      /\ \A x \in selectedObjects' :
           \/ x \in selectedObjects /\ x \notin fromWorker[1].deleted
           \/ fromWorker[1].answer # 0 /\ x \in selects[fromWorker[1].answer].objects
  BY MessageSelects
<1>4. SelectionTypeOK'
  BY <1>1, <1>2, <1>3 DEF SelectionInv, SelectionTypeOK
<1>5. \A k \in DOMAIN fromWorker' : k + 1 \in DOMAIN fromWorker /\ k \in Int
  BY <1>2
<1>6. WorkerInv'
  BY <1>1, <1>2, <1>5 DEF SelectionInv, WorkerInv
<1>7. ASSUME NEW k \in Nat, NEW x, Known(k + 1, x)
      PROVE  Known(k, x)'
  <2>1. CASE ToldAfter(k + 1, x)
    <3>1. PICK j \in DOMAIN fromWorker : j > k + 1 /\ x \in fromWorker[j].deleted
      BY <2>1 DEF ToldAfter
    <3>2. j - 1 \in DOMAIN fromWorker' /\ j - 1 > k /\ (j - 1) + 1 = j
      BY <1>2, <3>1
    <3>3. QED
      BY <1>2, <3>1, <3>2 DEF Known, ToldAfter
  <2>2. CASE ~ToldAfter(k + 1, x)
    BY <1>1, <1>7, <2>2 DEF Known
  <2>3. QED
    BY <2>1, <2>2
<1>8. DeletedInv'
  <2>1. ASSUME NEW x \in selectedObjects'
        PROVE  Known(0, x)'
    <3>1. CASE x \in selectedObjects /\ x \notin fromWorker[1].deleted
      <4>1. Known(0, x)
        BY <3>1 DEF SelectionInv, DeletedInv
      <4>2. ToldAfter(0, x) => ToldAfter(1, x)
        <5>1. ASSUME NEW j \in DOMAIN fromWorker, x \in fromWorker[j].deleted
              PROVE  j > 1
          BY <1>2, <3>1, <5>1
        <5>2. QED
          BY <5>1 DEF ToldAfter
      <4>3. Known(0 + 1, x)
        BY <4>1, <4>2 DEF Known
      <4>4. QED
        BY <1>7, <4>3
    <3>2. CASE fromWorker[1].answer # 0 /\ x \in selects[fromWorker[1].answer].objects
      <4>1. 1 \in DOMAIN fromWorker
        BY <1>2
      <4>2. Known(0 + 1, x)
        BY <3>2, <4>1 DEF SelectionInv, DeletedInv
      <4>3. QED
        BY <1>7, <4>2
    <3>3. QED
      BY <1>3, <3>1, <3>2
  <2>2. ASSUME NEW k \in DOMAIN fromWorker', fromWorker'[k].answer # 0,
               NEW x \in selects[fromWorker'[k].answer].objects
        PROVE  Known(k, x)'
    <3>1. k \in Nat /\ k + 1 \in DOMAIN fromWorker /\ fromWorker'[k] = fromWorker[k + 1]
      BY <1>2
    <3>2. Known(k + 1, x)
      BY <2>2, <3>1 DEF SelectionInv, DeletedInv
    <3>3. QED
      BY <1>7, <3>1, <3>2
  <2>3. QED
    BY <1>1, <2>1, <2>2 DEF DeletedInv
<1>9. QED
  BY <1>3, <1>4, <1>6, <1>8 DEF SelectionInv

LEMMA SelectionInvariance ==
  ASSUME SelectionInv, [SelectionNext]_selectionVars
  PROVE  SelectionInv'
<1>1. CASE UNCHANGED selectionVars
  <2>1. UNCHANGED <<existing, kept, selectedObjects, previous, shared, published, appending, fromWorker,
                    unpublished, outdated>> /\ selects' = selects
    BY <1>1 DEF selectionVars
  <2>2. QED
    BY <2>1, EventGoesOn DEF SelectionInv, SelectionTypeOK
<1>2. QED
  BY <1>1, Selecting, EventChanges, Answered, AppendComesBack, ObjectChanges, Told, MessageTaken DEF SelectionNext

LEMMA SelectionHolds == SelectionInv => SelectionIsTrue
BY DEF SelectionInv, SelectionIsTrue, DeletedNotSelected, DeletedInv, Known, ToldAfter

-----------------------------------------------------------------------------
(* Searching.                                                              *)

Texts == Queries \cup {Empty}
Submissions == [query : Texts, number : Nat]
Pages == [query : Texts, page : Nat]
FirstPages == {<<p>> : p \in [query : Texts, page : {0}]}
SearchRequests ==
  [kind : {"none", "search", "more"}, query : Texts, page : Nat, registered : BOOLEAN]
ResultLists == [toRender : FirstPages \cup {<<>>}, bound : BOOLEAN, offset : Nat, scrolling : BOOLEAN]

SearchTypeOK ==
  /\ queryVal \in Texts
  /\ current \in Submissions /\ waiting \in Seq(Submissions)
  /\ currentRequest \in SearchRequests /\ loose \in Seq(SearchRequests)
  /\ lists \in Seq(ResultLists) /\ live \in {0, Len(lists)} /\ pages \in Seq(Pages)

\* A request that was cancelled and goes on was not registered
LooseInv == \A i \in DOMAIN loose : ~loose[i].registered

\* What waits for the ontology was submitted before the last submission, or is that one
WaitingInv ==
  \A i \in DOMAIN waiting : waiting[i].number < current.number \/ waiting[i] = current

\* The search that runs is the last one submitted
RunningInv ==
  currentRequest.kind = "search" /\ waiting = <<>> =>
    currentRequest.query = current.query \/ overtaken \/ failed

\* Lists render in their order, and ask for the second page first; one that is attached and has
\* rendered shows at least its first page
ListShape ==
  /\ \A l \in DOMAIN lists : lists[l].toRender # <<>> =>
       lists[l].offset = 1 /\ \A k \in DOMAIN lists : k > l => lists[k].toRender # <<>>
  /\ live # 0 /\ lists[live].toRender = <<>> => pages # <<>>
  /\ infiniteLoading => pages # <<>>

\* What the attached list asks for next, and what was asked for, is the page after those that are
\* shown; before it renders nothing is asked for
MoreFollows ==
  ~astray /\ live # 0 =>
    IF lists[live].toRender # <<>> THEN currentRequest.kind # "more"
    ELSE infiniteLoading =>
           /\ lists[live].offset = Len(pages)
           /\ currentRequest.kind = "more" =>
                currentRequest.page = Len(pages) /\ currentRequest.query = pages[1].query

\* The last list has not rendered
LastUnrendered == lists # <<>> /\ lists[Len(lists)].toRender # <<>>

Excepted == failed \/ overtaken \/ interrupted \/ outlived \/ broken

\* What is shown in the end, when the last list has rendered, is of the last submission
UpcomingInv ==
  /\ LastUnrendered /\ live = 0 => broken
  /\ ~Searching /\ waiting = <<>> =>
       /\ LastUnrendered => lists[Len(lists)].toRender[1].query = current.query \/ Excepted
       /\ ~LastUnrendered /\ pages # <<>> => pages[1].query = current.query \/ Excepted

\* The invariant: of requests and submissions, of the lists, and of both
SubmissionsInv == LooseInv /\ WaitingInv /\ RunningInv
ListsInv == ListShape /\ PagesInOrder /\ MoreFollows
SearchInv == SearchTypeOK /\ SubmissionsInv /\ ListsInv /\ LoadingEnds /\ UpcomingInv

LEMMA SearchInitial == SearchInit => SearchInv
<1> SUFFICES ASSUME SearchInit PROVE SearchInv
  OBVIOUS
<1>1. /\ waiting = <<>> /\ loose = <<>> /\ lists = <<>> /\ pages = <<>> /\ live = 0 /\ queryVal \in Texts
      /\ infiniteLoading = FALSE /\ loading = FALSE
  BY DEF SearchInit, Texts
<1>2. current \in Submissions /\ currentRequest \in SearchRequests /\ currentRequest.kind = "none"
  BY DEF SearchInit, Texts, Submissions, NoRequest, Request, SearchRequests
<1>3. Len(lists) = 0 /\ live \in {0, Len(lists)}
  BY <1>1
<1>4. SearchTypeOK
  BY <1>1, <1>2, <1>3, EmptySeq DEF SearchTypeOK
<1>5. SubmissionsInv
  BY <1>1, <1>2 DEF SubmissionsInv, LooseInv, WaitingInv, RunningInv
<1>6. ListsInv
  BY <1>1 DEF ListsInv, ListShape, PagesInOrder, MoreFollows
<1>7. LoadingEnds /\ UpcomingInv
  BY <1>1 DEF LoadingEnds, UpcomingInv, LastUnrendered
<1>8. QED
  BY <1>4, <1>5, <1>6, <1>7 DEF SearchInv

LEMMA SearchTypes ==
  ASSUME SearchInv
  PROVE  /\ DOMAIN loose = 1 .. Len(loose) /\ Len(loose) \in Nat
         /\ \A i \in DOMAIN loose : loose[i] \in SearchRequests
         /\ DOMAIN lists = 1 .. Len(lists) /\ Len(lists) \in Nat /\ (lists = <<>> <=> Len(lists) = 0)
         /\ \A l \in DOMAIN lists : lists[l] \in ResultLists
         /\ DOMAIN pages = 1 .. Len(pages) /\ Len(pages) \in Nat /\ (pages = <<>> <=> Len(pages) = 0)
<1>1. /\ loose \in Seq(SearchRequests) /\ lists \in Seq(ResultLists) /\ pages \in Seq(Pages)
  BY DEF SearchInv, SearchTypeOK
<1>2. QED
  BY <1>1, LenProperties, ElementOfSeq, EmptySeq

-----------------------------------------------------------------------------
(* Searching: requests.                                                    *)

LEMMA SearchingIs ==
  Searching <=> \/ currentRequest.kind = "search"
                \/ \E i \in DOMAIN loose : loose[i].kind = "search"
BY DEF Searching, UnderWay

\* What is cancelled before it is registered goes on
LEMMA Cancelled ==
  ASSUME SearchInv, Cancel
  PROVE  /\ loose' \in Seq(SearchRequests) /\ LooseInv'
         /\ Searching => Searching' \/ (currentRequest.kind = "search" /\ currentRequest.registered)
<1>1. loose \in Seq(SearchRequests) /\ currentRequest \in SearchRequests /\ LooseInv
  BY DEF SearchInv, SearchTypeOK, SubmissionsInv
<1>2. CASE currentRequest.kind # "none" /\ ~currentRequest.registered
  <2>1. loose' = Append(loose, currentRequest)
    BY <1>2 DEF Cancel
  <2>2. /\ loose' \in Seq(SearchRequests) /\ Len(loose') = Len(loose) + 1
        /\ \A i \in 1 .. Len(loose) : loose'[i] = loose[i]
        /\ loose'[Len(loose) + 1] = currentRequest
    BY <1>1, <2>1, AppendProperties
  <2>3. Len(loose) \in Nat /\ DOMAIN loose = 1 .. Len(loose) /\ DOMAIN loose' = 1 .. Len(loose) + 1
    BY <1>1, <2>2, LenProperties
  <2>4. LooseInv'
    BY <1>1, <1>2, <2>2, <2>3 DEF LooseInv
  <2>5. Searching => \E i \in DOMAIN loose' : loose'[i].kind = "search"
    BY <2>2, <2>3, SearchingIs
  <2>6. Searching => Searching'
    BY <2>5 DEF Searching, UnderWay
  <2>7. QED
    BY <2>2, <2>4, <2>6
<1>3. CASE ~(currentRequest.kind # "none" /\ ~currentRequest.registered)
  <2>1. loose' = loose
    BY <1>3 DEF Cancel
  <2>2. (\E i \in DOMAIN loose : loose[i].kind = "search") => Searching'
    BY <2>1 DEF Searching, UnderWay
  <2>3. QED
    BY <1>1, <1>3, <2>1, <2>2, SearchingIs DEF LooseInv
<1>4. QED
  BY <1>2, <1>3

LEMMA LeftOut ==
  ASSUME NEW S, NEW s \in Seq(S), NEW i \in DOMAIN s
  PROVE  /\ Without(s, i) \in Seq(S)
         /\ DOMAIN Without(s, i) = 1 .. Len(s) - 1
         /\ \A j \in 1 .. Len(s) - 1 : Without(s, i)[j] = IF j < i THEN s[j] ELSE s[j + 1]
<1> DEFINE a == SubSeq(s, 1, i - 1)
           b == SubSeq(s, i + 1, Len(s))
<1>1. i \in 1 .. Len(s) /\ Len(s) \in Nat
  OBVIOUS
<1>2. a \in Seq(S) /\ Len(a) = i - 1 /\ \A j \in 1 .. i - 1 : a[j] = s[j]
  BY <1>1
<1>3. b \in Seq(S) /\ Len(b) = Len(s) - i /\ \A j \in 1 .. Len(s) - i : b[j] = s[i + j]
  BY <1>1
<1>4. Without(s, i) = a \o b
  BY DEF Without
<1> HIDE DEF a, b
<1>5. /\ a \o b \in Seq(S) /\ Len(a \o b) = Len(s) - 1
      /\ \A j \in 1 .. Len(s) - 1 : (a \o b)[j] = IF j <= i - 1 THEN a[j] ELSE b[j - (i - 1)]
  <2>1. /\ a \o b \in Seq(S) /\ Len(a \o b) = Len(a) + Len(b)
        /\ \A j \in 1 .. Len(a) + Len(b) : (a \o b)[j] = IF j <= Len(a) THEN a[j] ELSE b[j - Len(a)]
    BY <1>2, <1>3, ConcatProperties
  <2>2. Len(a) + Len(b) = Len(s) - 1
    BY <1>1, <1>2, <1>3
  <2>3. QED
    BY <1>2, <2>1, <2>2
<1>6. ASSUME NEW j \in 1 .. Len(s) - 1
      PROVE  (a \o b)[j] = IF j < i THEN s[j] ELSE s[j + 1]
  <2>1. CASE j < i
    BY <1>1, <1>2, <1>5, <2>1
  <2>2. CASE ~(j < i)
    <3>1. j - (i - 1) \in 1 .. Len(s) - i /\ i + (j - (i - 1)) = j + 1 /\ ~(j <= i - 1)
      BY <1>1, <2>2
    <3>2. QED
      BY <1>3, <1>5, <2>2, <3>1
  <2>3. QED
    BY <2>1, <2>2
<1>7. DOMAIN (a \o b) = 1 .. Len(s) - 1
  BY <1>5
<1>8. QED
  BY <1>4, <1>5, <1>6, <1>7

\* A request that is answered is the one that runs, or one of the others, which leaves them
LEMMA RequestAnswered ==
  ASSUME SearchInv, NEW request \in UnderWay, AnswerTo(request)
  PROVE  /\ request \in SearchRequests
         /\ currentRequest' \in SearchRequests /\ loose' \in Seq(SearchRequests) /\ LooseInv'
         /\ \/ request.registered /\ request = currentRequest /\ currentRequest' = NoRequest
            \/ ~request.registered /\ currentRequest' = currentRequest
         /\ request.kind = "more" /\ Searching => Searching'
<1>1. /\ loose \in Seq(SearchRequests) /\ currentRequest \in SearchRequests /\ LooseInv
      /\ DOMAIN loose = 1 .. Len(loose) /\ Len(loose) \in Nat
      /\ \A i \in DOMAIN loose : loose[i] \in SearchRequests
  BY SearchTypes DEF SearchInv, SearchTypeOK, SubmissionsInv
<1>2. request \in SearchRequests
  BY <1>1 DEF UnderWay
<1>3. CASE request.registered /\ request = currentRequest /\ currentRequest' = NoRequest /\ UNCHANGED loose
  <2>1. NoRequest \in SearchRequests
    BY DEF NoRequest, Request, SearchRequests, Texts
  <2>2. request.kind = "more" /\ Searching => \E i \in DOMAIN loose' : loose'[i].kind = "search"
    BY <1>3, SearchingIs
  <2>3. request.kind = "more" /\ Searching => Searching'
    BY <2>2 DEF Searching, UnderWay
  <2>4. QED
    BY <1>1, <1>2, <1>3, <2>1, <2>3 DEF LooseInv
<1>4. ASSUME NEW i \in DOMAIN loose, request = loose[i], loose' = Without(loose, i), UNCHANGED currentRequest
      PROVE  /\ loose' \in Seq(SearchRequests) /\ LooseInv' /\ ~request.registered
             /\ request.kind = "more" /\ Searching => Searching'
  <2>1. /\ loose' \in Seq(SearchRequests) /\ DOMAIN loose' = 1 .. Len(loose) - 1
        /\ \A j \in 1 .. Len(loose) - 1 : loose'[j] = IF j < i THEN loose[j] ELSE loose[j + 1]
    BY <1>1, <1>4, LeftOut
  <2>2. ASSUME NEW j \in DOMAIN loose'
        PROVE  \E k \in DOMAIN loose : loose'[j] = loose[k]
    <3>1. j \in DOMAIN loose /\ j + 1 \in DOMAIN loose
      BY <1>1, <2>1
    <3>2. loose'[j] = loose[j] \/ loose'[j] = loose[j + 1]
      BY <2>1
    <3>3. QED
      BY <3>1, <3>2
  <2>3. LooseInv'
    BY <1>1, <2>2 DEF LooseInv
  <2>4. ASSUME NEW k \in DOMAIN loose, k # i
        PROVE  \E j \in DOMAIN loose' : loose'[j] = loose[k]
    <3>1. CASE k < i
      <4>1. k \in 1 .. Len(loose) - 1
        BY <1>1, <3>1
      <4>2. QED
        BY <2>1, <3>1, <4>1
    <3>2. CASE ~(k < i)
      <4>1. k - 1 \in 1 .. Len(loose) - 1 /\ ~(k - 1 < i) /\ (k - 1) + 1 = k
        BY <1>1, <2>4, <3>2
      <4>2. QED
        BY <2>1, <4>1
    <3>3. QED
      BY <3>1, <3>2
  <2>5. ASSUME request.kind = "more", Searching
        PROVE  Searching'
    <3>1. CASE currentRequest.kind = "search"
      BY <1>4, <3>1 DEF Searching, UnderWay
    <3>2. CASE \E k \in DOMAIN loose : loose[k].kind = "search"
      <4>1. PICK k \in DOMAIN loose : loose[k].kind = "search"
        BY <3>2
      <4>2. k # i
        BY <1>4, <2>5, <4>1
      <4>3. \E j \in DOMAIN loose' : loose'[j].kind = "search"
        BY <2>4, <4>1, <4>2
      <4>4. QED
        BY <4>3 DEF Searching, UnderWay
    <3>3. QED
      BY <2>5, <3>1, <3>2, SearchingIs
  <2>6. ~request.registered
    BY <1>1, <1>4 DEF LooseInv
  <2>7. QED
    BY <2>1, <2>3, <2>5, <2>6
<1>5. QED
  BY <1>1, <1>2, <1>3, <1>4 DEF AnswerTo

-----------------------------------------------------------------------------
(* Searching: submissions.                                                 *)

\* The lists and what they show are left alone, and nothing more is asked for
LEMMA ListsStay ==
  ASSUME SearchInv, UNCHANGED listVars,
         currentRequest'.kind = "more" =>
           /\ currentRequest.kind = "more"
           /\ currentRequest'.page = currentRequest.page /\ currentRequest'.query = currentRequest.query
  PROVE  /\ ListsInv'
         /\ lists' \in Seq(ResultLists) /\ live' \in {0, Len(lists')} /\ pages' \in Seq(Pages)
         /\ LastUnrendered' /\ live' = 0 => broken'
<1>1. UNCHANGED <<lists, live, pages, infiniteLoading, outlived, broken, astray>>
  BY DEF listVars
<1>2. ListShape' /\ PagesInOrder'
  BY <1>1 DEF SearchInv, ListsInv, ListShape, PagesInOrder
<1>3. MoreFollows'
  BY <1>1 DEF SearchInv, ListsInv, MoreFollows
<1>4. LastUnrendered' /\ live' = 0 => broken'
  BY <1>1 DEF SearchInv, UpcomingInv, LastUnrendered
<1>5. QED
  BY <1>1, <1>2, <1>3, <1>4 DEF SearchInv, SearchTypeOK, ListsInv

\* The search that begins is the last one submitted, if that is said of it
LEMMA Begins ==
  ASSUME SearchInv, NEW submission \in Submissions, NEW last, Begin(submission, last),
         submission.number = last => submission.query = current'.query
  PROVE  /\ currentRequest' \in SearchRequests /\ currentRequest'.kind = "search"
         /\ loose' \in Seq(SearchRequests) /\ LooseInv' /\ RunningInv' /\ Searching'
<1>1. /\ currentRequest' = [kind |-> "search", query |-> submission.query, page |-> 0, registered |-> FALSE]
      /\ Cancel /\ overtaken' = (submission.number # last)
  BY DEF Begin, Request
<1>2. submission.query \in Texts
  BY DEF Submissions
<1>3. /\ currentRequest'.kind = "search" /\ currentRequest'.query = submission.query
      /\ currentRequest' \in SearchRequests
  BY <1>1, <1>2 DEF SearchRequests
<1>4. RunningInv'
  BY <1>1, <1>3 DEF RunningInv
<1>5. Searching'
  BY <1>3 DEF Searching, UnderWay
<1>6. QED
  BY <1>1, <1>3, <1>4, <1>5, Cancelled

\* A search begins, or a submission waits, or neither does but the last search failed
LEMMA SubmissionStep ==
  ASSUME SearchInv, UNCHANGED listVars, queryVal' \in Texts,
         current' \in Submissions, waiting' \in Seq(Submissions),
         currentRequest' \in SearchRequests, loose' \in Seq(SearchRequests), SubmissionsInv',
         currentRequest'.kind = "search" \/ currentRequest' = currentRequest,
         Searching' \/ UNCHANGED <<currentRequest, loose, loading, interrupted>>,
         Searching' \/ waiting' # <<>> \/ failed'
  PROVE  SearchInv'
<1>1. currentRequest'.kind = "more" => currentRequest' = currentRequest
  OBVIOUS
<1>2. /\ ListsInv' /\ lists' \in Seq(ResultLists) /\ live' \in {0, Len(lists')} /\ pages' \in Seq(Pages)
      /\ LastUnrendered' /\ live' = 0 => broken'
  BY <1>1, ListsStay
<1>3. LoadingEnds'
  <2>1. CASE Searching'
    BY <2>1 DEF LoadingEnds
  <2>2. CASE UNCHANGED <<currentRequest, loose, loading, interrupted>>
    BY <2>2 DEF SearchInv, LoadingEnds, Searching, UnderWay, listVars
  <2>3. QED
    BY <2>1, <2>2
<1>4. UpcomingInv'
  BY <1>2 DEF UpcomingInv, Excepted
<1>5. QED
  BY <1>2, <1>3, <1>4 DEF SearchInv, SearchTypeOK

\* Submissions keep the order of their numbers
LEMMA Submits ==
  ASSUME SearchInv, NEW query \in Texts, NEW with, Submit(query, with),
         UNCHANGED listVars, queryVal' \in Texts
  PROVE  SearchInv'
<1> DEFINE submission == [query |-> query, number |-> current.number + 1]
<1>1. submission \in Submissions
  BY DEF SearchInv, SearchTypeOK, Submissions
<1>2. current' = submission
  BY DEF Submit
<1>3. \A i \in DOMAIN waiting : waiting[i] \in Submissions /\ waiting[i].number < submission.number
  <2> SUFFICES ASSUME NEW i \in DOMAIN waiting
               PROVE  waiting[i] \in Submissions /\ waiting[i].number < submission.number
    OBVIOUS
  <2>1. waiting[i] \in Submissions /\ current \in Submissions
    BY ElementOfSeq, LenProperties DEF SearchInv, SearchTypeOK
  <2>2. waiting[i].number < current.number \/ waiting[i] = current
    BY DEF SearchInv, SubmissionsInv, WaitingInv
  <2>3. waiting[i].number \in Nat /\ current.number \in Nat
    BY <2>1 DEF Submissions
  <2>4. QED
    BY <2>1, <2>2, <2>3
<1>4. CASE with = "property"
  <2>1. /\ waiting' = Append(waiting, submission)
        /\ UNCHANGED <<currentRequest, loose, loading, interrupted, overtaken, failed>>
    BY <1>4 DEF Submit, requestVars
  <2> HIDE DEF submission
  <2>2. /\ waiting' \in Seq(Submissions) /\ waiting' # <<>>
        /\ DOMAIN waiting' = 1 .. Len(waiting) + 1
        /\ waiting'[Len(waiting) + 1] = submission
        /\ \A i \in 1 .. Len(waiting) : waiting'[i] = waiting[i]
    BY <1>1, <2>1, AppendProperties, LenProperties DEF SearchInv, SearchTypeOK
  <2>3. WaitingInv'
    <3> SUFFICES ASSUME NEW i \in DOMAIN waiting'
                 PROVE  waiting'[i].number < current'.number \/ waiting'[i] = current'
      BY DEF WaitingInv
    <3>1. Len(waiting) \in Nat /\ DOMAIN waiting = 1 .. Len(waiting)
      BY LenProperties DEF SearchInv, SearchTypeOK
    <3>2. CASE i = Len(waiting) + 1
      BY <1>2, <2>2, <3>2
    <3>3. CASE i # Len(waiting) + 1
      <4>1. i \in DOMAIN waiting
        BY <2>2, <3>1, <3>3
      <4>2. QED
        BY <1>2, <1>3, <2>2, <3>1, <4>1
    <3>4. QED
      BY <3>2, <3>3
  <2>4. SubmissionsInv'
    BY <2>1, <2>2, <2>3 DEF SearchInv, SubmissionsInv, LooseInv, RunningInv
  <2>5. QED
    BY <1>1, <1>2, <2>1, <2>2, <2>4, SubmissionStep DEF SearchInv, SearchTypeOK
<1>5. CASE with # "property"
  <2>1. Begin(submission, submission.number) /\ UNCHANGED waiting
    BY <1>5 DEF Submit
  <2> HIDE DEF submission
  <2>2. WaitingInv'
    BY <1>2, <1>3, <2>1 DEF WaitingInv
  <2>3. /\ currentRequest' \in SearchRequests /\ currentRequest'.kind = "search"
        /\ loose' \in Seq(SearchRequests) /\ LooseInv' /\ RunningInv' /\ Searching'
    BY <1>1, <1>2, <2>1, Begins
  <2>4. waiting' \in Seq(Submissions)
    BY <2>1 DEF SearchInv, SearchTypeOK
  <2>5. QED
    BY <1>1, <1>2, <2>2, <2>3, <2>4, SubmissionStep DEF SubmissionsInv
<1>6. QED
  BY <1>4, <1>5

LEMMA QueryEntered ==
  ASSUME SearchInv, EnterQuery
  PROVE  SearchInv'
<1>1. queryVal \in Texts /\ queryVal' = queryVal /\ Submit(queryVal, filters) /\ UNCHANGED listVars
  BY DEF EnterQuery, fieldVars, SearchInv, SearchTypeOK
<1>2. QED
  BY <1>1, Submits

\* All but the text of the field, its filters and what waits for the configuration stay
LEMMA FieldChanges ==
  ASSUME SearchInv, queryVal' \in Texts, UNCHANGED <<submitVars, requestVars, listVars>>
  PROVE  SearchInv'
<1>1. UNCHANGED <<current, waiting, currentRequest, loose, loading, interrupted, overtaken, failed, lists,
                  live, pages, infiniteLoading, outlived, broken, astray>>
  BY DEF submitVars, requestVars, listVars
<1>2. ListsInv'
  BY <1>1, ListsStay
<1>3. Searching' <=> Searching
  BY <1>1 DEF Searching, UnderWay
<1>4. LoadingEnds' /\ UpcomingInv'
  BY <1>1, <1>3 DEF SearchInv, LoadingEnds, UpcomingInv, LastUnrendered, Excepted
<1>5. SubmissionsInv'
  BY <1>1 DEF SearchInv, SubmissionsInv, LooseInv, WaitingInv, RunningInv
<1>6. QED
  BY <1>1, <1>2, <1>4, <1>5 DEF SearchInv, SearchTypeOK

LEMMA ConfigComes ==
  ASSUME SearchInv, ConfigAnswered
  PROVE  SearchInv'
<1>1. /\ \/ UNCHANGED <<queryVal, submitVars, requestVars>>
         \/ queryVal' = Star /\ Submit(Star, filters)
         \/ UNCHANGED queryVal /\ Submit(queryVal, filters)
      /\ UNCHANGED listVars
  BY DEF ConfigAnswered
<1>2. queryVal \in Texts /\ Star \in Texts
  BY SearchAssumption DEF SearchInv, SearchTypeOK, Texts
<1>3. CASE UNCHANGED <<queryVal, submitVars, requestVars>>
  BY <1>1, <1>2, <1>3, FieldChanges
<1>4. CASE queryVal' = Star /\ Submit(Star, filters)
  BY <1>1, <1>2, <1>4, Submits
<1>5. CASE UNCHANGED queryVal /\ Submit(queryVal, filters)
  BY <1>1, <1>2, <1>5, Submits
<1>6. QED
  BY <1>1, <1>3, <1>4, <1>5

LEMMA OntologyComes ==
  ASSUME SearchInv, OntologyAnswered
  PROVE  SearchInv'
<1>1. /\ waiting # <<>> /\ waiting' = Tail(waiting)
      /\ UNCHANGED <<queryVal, current, listVars>>
  BY DEF OntologyAnswered, fieldVars
<1>2. /\ Head(waiting) \in Submissions /\ waiting' \in Seq(Submissions)
      /\ Head(waiting) = waiting[1] /\ 1 \in DOMAIN waiting
      /\ \A i \in DOMAIN waiting' : i + 1 \in DOMAIN waiting /\ waiting'[i] = waiting[i + 1]
  <2>1. waiting \in Seq(Submissions) /\ Len(waiting) \in Nat \ {0} /\ DOMAIN waiting = 1 .. Len(waiting)
    BY <1>1, EmptySeq, LenProperties DEF SearchInv, SearchTypeOK
  <2>2. /\ Head(waiting) \in Submissions /\ Tail(waiting) \in Seq(Submissions)
        /\ Len(Tail(waiting)) = Len(waiting) - 1
        /\ \A i \in 1 .. Len(Tail(waiting)) : Tail(waiting)[i] = waiting[i + 1]
    BY <1>1, <2>1, HeadTailProperties
  <2>3. DOMAIN waiting' = 1 .. Len(waiting) - 1
    BY <1>1, <2>2, LenProperties
  <2>4. Head(waiting) = waiting[1]
    BY <2>1
  <2>5. QED
    BY <1>1, <2>1, <2>2, <2>3, <2>4
<1>3. WaitingInv'
  BY <1>1, <1>2 DEF SearchInv, SubmissionsInv, WaitingInv
<1>4. queryVal' \in Texts /\ current' \in Submissions
  BY <1>1 DEF SearchInv, SearchTypeOK
<1>5. CASE Begin(Head(waiting), current.number)
  <2> DEFINE first == Head(waiting)
  <2>1. first \in Submissions /\ (first.number = current.number => first.query = current'.query)
    <3>1. first.number < current.number \/ first = current
      BY <1>2 DEF SearchInv, SubmissionsInv, WaitingInv
    <3>2. first.number \in Nat /\ current.number \in Nat /\ first \in Submissions
      BY <1>2 DEF SearchInv, SearchTypeOK, Submissions
    <3>3. QED
      BY <1>1, <3>1, <3>2
  <2>2. Begin(first, current.number)
    BY <1>5
  <2> HIDE DEF first
  <2>3. /\ currentRequest' \in SearchRequests /\ currentRequest'.kind = "search"
        /\ loose' \in Seq(SearchRequests) /\ LooseInv' /\ RunningInv' /\ Searching'
    BY <2>1, <2>2, Begins
  <2>4. QED
    BY <1>1, <1>2, <1>3, <1>4, <2>3, SubmissionStep DEF SubmissionsInv
<1>6. CASE failed' = TRUE /\ UNCHANGED <<currentRequest, loose, loading, interrupted, overtaken>>
  <2>1. SubmissionsInv'
    BY <1>3, <1>6 DEF SearchInv, SubmissionsInv, LooseInv, RunningInv
  <2>2. currentRequest' \in SearchRequests /\ loose' \in Seq(SearchRequests)
    BY <1>6 DEF SearchInv, SearchTypeOK
  <2>3. QED
    BY <1>1, <1>2, <1>4, <1>6, <2>1, <2>2, SubmissionStep
<1>7. QED
  BY <1>5, <1>6 DEF OntologyAnswered

LEMMA Registered ==
  ASSUME SearchInv, Register
  PROVE  SearchInv'
<1> DEFINE r == [currentRequest EXCEPT !.registered = TRUE]
<1>1. /\ currentRequest' = r
      /\ UNCHANGED <<queryVal, current, waiting, loose, loading, listVars, interrupted, overtaken, failed>>
  BY DEF Register, fieldVars, submitVars
<1>2. /\ r \in SearchRequests /\ r.kind = currentRequest.kind
      /\ r.query = currentRequest.query /\ r.page = currentRequest.page
  BY DEF SearchInv, SearchTypeOK, SearchRequests
<1> HIDE DEF r
<1>3. /\ ListsInv' /\ lists' \in Seq(ResultLists) /\ live' \in {0, Len(lists')} /\ pages' \in Seq(Pages)
  BY <1>1, <1>2, ListsStay
<1>4. Searching => Searching'
  <2>1. CASE currentRequest.kind = "search"
    BY <1>1, <1>2, <2>1 DEF Searching, UnderWay
  <2>2. CASE \E i \in DOMAIN loose : loose[i].kind = "search"
    BY <1>1, <2>2 DEF Searching, UnderWay
  <2>3. QED
    BY <2>1, <2>2, SearchingIs
<1>5. LoadingEnds' /\ UpcomingInv'
  BY <1>1, <1>4 DEF SearchInv, LoadingEnds, UpcomingInv, LastUnrendered, Excepted, listVars
<1>6. SubmissionsInv'
  BY <1>1, <1>2 DEF SearchInv, SubmissionsInv, LooseInv, WaitingInv, RunningInv
<1>7. QED
  BY <1>1, <1>2, <1>3, <1>5, <1>6 DEF SearchInv, SearchTypeOK

-----------------------------------------------------------------------------
(* Searching: lists.                                                       *)

\* Lists that are like the ones before in all that matters to what is shown
LEMMA UnboundLists ==
  ASSUME SearchInv
  PROVE  /\ Unbound \in Seq(ResultLists) /\ Len(Unbound) = Len(lists)
         /\ \A l \in DOMAIN lists :
              Unbound[l].toRender = lists[l].toRender /\ Unbound[l].offset = lists[l].offset
<1>1. /\ lists \in Seq(ResultLists) /\ DOMAIN lists = 1 .. Len(lists) /\ Len(lists) \in Nat
      /\ \A l \in DOMAIN lists : lists[l] \in ResultLists
  BY SearchTypes DEF SearchInv, SearchTypeOK
<1>2. CASE live = 0
  BY <1>1, <1>2 DEF Unbound
<1>3. CASE live # 0
  <2> DEFINE u == [l \in DOMAIN lists |-> [lists[l] EXCEPT !.bound = FALSE]]
  <2>1. Unbound = u
    BY <1>3 DEF Unbound
  <2>2. \A l \in DOMAIN lists : [lists[l] EXCEPT !.bound = FALSE] \in ResultLists
    BY <1>1 DEF ResultLists
  <2>3. u \in [1 .. Len(lists) -> ResultLists]
    BY <1>1, <2>2
  <2>4. u \in Seq(ResultLists) /\ Len(u) = Len(lists)
    <3>1. u \in Seq(ResultLists)
      BY <1>1, <2>3, SeqDef
    <3>2. DOMAIN u = 1 .. Len(lists) /\ DOMAIN u = 1 .. Len(u) /\ Len(u) \in Nat
      BY <1>1, <3>1, LenProperties
    <3>3. QED
      BY <1>1, <3>1, <3>2
  <2>5. \A l \in DOMAIN lists : u[l].toRender = lists[l].toRender /\ u[l].offset = lists[l].offset
    BY <1>1 DEF ResultLists
  <2>6. QED
    BY <2>1, <2>4, <2>5
<1>4. QED
  BY <1>2, <1>3

\* The list that is attached has rendered, if it can be torn down; so has the last one then
LEMMA AllRendered ==
  ASSUME SearchInv, ~Unrendered, LastUnrendered
  PROVE  live = 0 /\ broken
BY DEF SearchInv, SearchTypeOK, UpcomingInv, LastUnrendered, Unrendered

\* Nothing is shown any more
LEMMA TornDown ==
  ASSUME SearchInv, Teardown
  PROVE  /\ ListsInv' /\ lists' \in Seq(ResultLists) /\ live' \in {0, Len(lists')} /\ pages' \in Seq(Pages)
         /\ pages' = <<>> /\ broken' = broken
         /\ LastUnrendered' => broken'
<1>1. /\ lists' = Unbound /\ live' = 0 /\ pages' = <<>> /\ infiniteLoading' = FALSE
      /\ astray' = FALSE /\ broken' = broken /\ ~Unrendered
  BY DEF Teardown
<1>2. /\ lists' \in Seq(ResultLists) /\ Len(lists') = Len(lists)
      /\ \A l \in DOMAIN lists :
           lists'[l].toRender = lists[l].toRender /\ lists'[l].offset = lists[l].offset
  BY <1>1, UnboundLists
<1>3. /\ DOMAIN lists = 1 .. Len(lists) /\ Len(lists) \in Nat /\ (lists = <<>> <=> Len(lists) = 0)
      /\ DOMAIN lists' = 1 .. Len(lists) /\ (lists' = <<>> <=> Len(lists) = 0)
  BY <1>2, SearchTypes, LenProperties, EmptySeq
<1>4. ListShape'
  BY <1>1, <1>2, <1>3 DEF SearchInv, ListsInv, ListShape
<1>5. PagesInOrder' /\ MoreFollows'
  BY <1>1 DEF PagesInOrder, MoreFollows
<1>6. LastUnrendered' => LastUnrendered
  BY <1>2, <1>3 DEF LastUnrendered
<1>7. QED
  BY <1>1, <1>2, <1>4, <1>5, <1>6, AllRendered, EmptySeq DEF ListsInv

\* The list that was attached is let go
LEMMA TeardownBreaks ==
  ASSUME SearchInv, TeardownThrows
  PROVE  /\ ListsInv' /\ lists' \in Seq(ResultLists) /\ live' \in {0, Len(lists')} /\ pages' \in Seq(Pages)
         /\ broken' = TRUE
<1>1. /\ live' = 0 /\ broken' = TRUE /\ UNCHANGED <<lists, pages, infiniteLoading, astray>>
  BY DEF TeardownThrows
<1>2. ListsInv'
  BY <1>1 DEF SearchInv, ListsInv, ListShape, PagesInOrder, MoreFollows
<1>3. QED
  BY <1>1, <1>2 DEF SearchInv, SearchTypeOK

\* Another list is attached, which will show the first page of its query
LEMMA Attached ==
  ASSUME SearchInv, NEW query \in Texts, Attach(query)
  PROVE  /\ ListsInv' /\ lists' \in Seq(ResultLists) /\ live' \in {0, Len(lists')} /\ pages' \in Seq(Pages)
         /\ live' # 0 /\ LastUnrendered' /\ lists'[Len(lists')].toRender[1].query = query
<1> DEFINE page == [query |-> query, page |-> 0]
           list == [toRender |-> <<page>>, bound |-> FALSE, offset |-> 1, scrolling |-> TRUE]
<1>1. /\ lists' = Append(Unbound, list) /\ live' = Len(lists') /\ pages' = <<>> /\ infiniteLoading' = FALSE
      /\ astray' = (currentRequest'.kind = "more")
  BY DEF Attach
<1>2. page.query = query /\ <<page>> \in FirstPages
  BY DEF FirstPages
<1> HIDE DEF page
<1>3. list \in ResultLists /\ list.toRender = <<page>> /\ list.offset = 1
  BY <1>2 DEF ResultLists
<1> HIDE DEF list
<1>4. /\ Unbound \in Seq(ResultLists) /\ Len(Unbound) = Len(lists)
      /\ \A l \in DOMAIN lists :
           Unbound[l].toRender = lists[l].toRender /\ Unbound[l].offset = lists[l].offset
  BY UnboundLists
<1>5. DOMAIN lists = 1 .. Len(lists) /\ Len(lists) \in Nat
  BY SearchTypes
<1>6. /\ lists' \in Seq(ResultLists) /\ Len(lists') = Len(lists) + 1
      /\ \A l \in DOMAIN lists : lists'[l] = Unbound[l]
      /\ lists'[Len(lists) + 1] = list
  BY <1>1, <1>3, <1>4, <1>5, AppendProperties
<1>7. DOMAIN lists' = 1 .. Len(lists) + 1 /\ lists' # <<>>
  BY <1>5, <1>6, LenProperties, EmptySeq
<1>8. live' = Len(lists) + 1 /\ live' # 0
  BY <1>1, <1>5, <1>6
<1>9. lists'[Len(lists')].toRender = <<page>> /\ <<page>> # <<>> /\ <<page>>[1] = page
  BY <1>3, <1>6
<1>10. ListShape'
  <2>1. ASSUME NEW l \in DOMAIN lists', lists'[l].toRender # <<>>
        PROVE  lists'[l].offset = 1 /\ \A k \in DOMAIN lists' : k > l => lists'[k].toRender # <<>>
    <3>1. CASE l = Len(lists) + 1
      BY <1>3, <1>5, <1>6, <1>7, <3>1
    <3>2. CASE l # Len(lists) + 1
      <4>1. l \in DOMAIN lists /\ lists[l].toRender # <<>>
        BY <1>4, <1>5, <1>6, <1>7, <2>1, <3>2
      <4>2. lists[l].offset = 1 /\ \A k \in DOMAIN lists : k > l => lists[k].toRender # <<>>
        BY <4>1 DEF SearchInv, ListsInv, ListShape
      <4>3. \A k \in DOMAIN lists' : k = Len(lists) + 1 \/ k \in DOMAIN lists
        BY <1>5, <1>7
      <4>4. QED
        BY <1>4, <1>6, <1>9, <4>1, <4>2, <4>3
    <3>3. QED
      BY <3>1, <3>2
  <2>2. QED
    BY <1>1, <1>6, <1>8, <1>9, <2>1 DEF ListShape
<1>11. PagesInOrder'
  BY <1>1 DEF PagesInOrder
<1>12. MoreFollows'
  BY <1>1, <1>6, <1>8, <1>9 DEF MoreFollows
<1>13. QED
  BY <1>1, <1>2, <1>6, <1>7, <1>8, <1>9, <1>10, <1>11, <1>12, EmptySeq DEF ListsInv, LastUnrendered

LEMMA Renders ==
  ASSUME SearchInv, NEW l \in DOMAIN lists, Render(l)
  PROVE  SearchInv'
<1> DEFINE list == [lists[l] EXCEPT !.toRender = <<>>, !.bound = TRUE]
<1>1. /\ lists[l].toRender # <<>> /\ \A k \in 1 .. l - 1 : lists[k].toRender = <<>>
      /\ lists' = [lists EXCEPT ![l] = list] /\ pages' = lists[l].toRender
      /\ infiniteLoading' = (PageCount > 1)
      /\ UNCHANGED <<queryVal, current, waiting, currentRequest, loose, loading, interrupted, overtaken,
                     failed, live, outlived, broken, astray>>
  BY DEF Render, fieldVars, submitVars, requestVars
<1>2. /\ lists \in Seq(ResultLists) /\ DOMAIN lists = 1 .. Len(lists) /\ Len(lists) \in Nat
      /\ (lists = <<>> <=> Len(lists) = 0) /\ lists[l] \in ResultLists
  BY SearchTypes DEF SearchInv, SearchTypeOK
<1>3. list \in ResultLists /\ list.toRender = <<>> /\ list.offset = lists[l].offset
  BY <1>2 DEF ResultLists
<1> HIDE DEF list
<1>4. /\ lists' \in Seq(ResultLists) /\ Len(lists') = Len(lists) /\ DOMAIN lists' = DOMAIN lists
      /\ lists'[l] = list /\ \A k \in DOMAIN lists : k # l => lists'[k] = lists[k]
  BY <1>1, <1>2, <1>3, ExceptSeq
<1>5. PICK page \in [query : Texts, page : {0}] : pages' = <<page>>
  BY <1>1, <1>2 DEF ResultLists, FirstPages
<1>6. /\ pages' \in Seq(Pages) /\ pages' # <<>> /\ Len(pages') = 1 /\ DOMAIN pages' = {1}
      /\ pages'[1] = page /\ page = [query |-> page.query, page |-> 0]
  BY <1>5 DEF Pages
<1>7. /\ lists[l].offset = 1
      /\ \A k \in DOMAIN lists : k > l => lists[k].toRender # <<>>
  BY <1>1 DEF SearchInv, ListsInv, ListShape
<1>8. live = 0 \/ live = Len(lists)
  BY DEF SearchInv, SearchTypeOK
<1>9. ListShape'
  <2>1. ASSUME NEW k \in DOMAIN lists', lists'[k].toRender # <<>>
        PROVE  lists'[k].offset = 1 /\ \A j \in DOMAIN lists' : j > k => lists'[j].toRender # <<>>
    <3>1. k # l /\ k \in DOMAIN lists /\ lists[k].toRender # <<>>
      BY <1>3, <1>4, <2>1
    <3>2. k > l
      BY <1>1, <1>2, <3>1
    <3>3. lists[k].offset = 1 /\ \A j \in DOMAIN lists : j > k => lists[j].toRender # <<>>
      BY <3>1 DEF SearchInv, ListsInv, ListShape
    <3>4. \A j \in DOMAIN lists : j > k => j # l
      BY <1>2, <3>1, <3>2
    <3>5. QED
      BY <1>4, <3>1, <3>3, <3>4
  <2>2. QED
    BY <1>6, <2>1 DEF ListShape
<1>10. PagesInOrder'
  BY <1>6 DEF PagesInOrder
<1>11. MoreFollows'
  <2> SUFFICES ASSUME ~astray, live # 0
               PROVE  IF lists'[live].toRender # <<>> THEN currentRequest.kind # "more"
                      ELSE /\ lists'[live].offset = 1 /\ currentRequest.kind # "more"
    BY <1>1, <1>6 DEF MoreFollows
  <2>1. live = Len(lists) /\ live \in DOMAIN lists /\ live >= l
    BY <1>2, <1>8
  <2>2. lists[live].toRender # <<>>
    BY <1>1, <1>2, <1>7, <2>1
  <2>3. currentRequest.kind # "more"
    BY <2>2 DEF SearchInv, ListsInv, MoreFollows
  <2>4. lists'[live].toRender = <<>> => live = l
    BY <1>4, <2>1, <2>2
  <2>5. QED
    BY <1>3, <1>4, <1>7, <2>3, <2>4
<1>12. Searching' <=> Searching
  BY <1>1 DEF Searching, UnderWay
<1>13. UpcomingInv'
  <2>1. Len(lists) \in DOMAIN lists /\ lists # <<>> /\ lists' # <<>>
    BY <1>2, <1>4, LenProperties
  <2>2. LastUnrendered
    BY <1>1, <1>2, <1>7, <2>1 DEF LastUnrendered
  <2>3. CASE l = Len(lists)
    <3>1. ~LastUnrendered'
      BY <1>3, <1>4, <2>3 DEF LastUnrendered
    <3>2. pages'[1].query = lists[Len(lists)].toRender[1].query
      BY <1>1, <2>3
    <3>3. QED
      BY <1>1, <1>12, <2>2, <3>1, <3>2 DEF SearchInv, UpcomingInv, Excepted
  <2>4. CASE l # Len(lists)
    <3>1. lists'[Len(lists')] = lists[Len(lists)] /\ LastUnrendered'
      BY <1>4, <2>1, <2>2, <2>4 DEF LastUnrendered
    <3>2. QED
      BY <1>1, <1>12, <2>2, <3>1 DEF SearchInv, UpcomingInv, Excepted
  <2>5. QED
    BY <2>3, <2>4
<1>14. LoadingEnds' /\ SubmissionsInv'
  BY <1>1, <1>12 DEF SearchInv, LoadingEnds, SubmissionsInv, LooseInv, WaitingInv, RunningInv
<1>15. SearchTypeOK'
  BY <1>1, <1>4, <1>6 DEF SearchInv, SearchTypeOK
<1>16. QED
  BY <1>9, <1>10, <1>11, <1>13, <1>14, <1>15 DEF SearchInv, ListsInv

LEMMA SearchEnds ==
  ASSUME SearchInv, SearchAnswered
  PROVE  SearchInv'
<1>1. PICK request \in UnderWay :
        /\ request.kind = "search" /\ AnswerTo(request)
        /\ \/ TeardownThrows /\ UNCHANGED <<loading, failed, outlived>>
           \/ /\ Attach(request.query) \/ Teardown
              /\ loading' = FALSE /\ outlived' = ~request.registered /\ UNCHANGED failed
           \/ failed' = TRUE /\ loading' = FALSE /\ UNCHANGED listVars
  BY DEF SearchAnswered
<1>2. UNCHANGED <<queryVal, current, waiting, interrupted, overtaken>>
  BY DEF SearchAnswered, fieldVars, submitVars
<1>3. /\ request \in SearchRequests
      /\ currentRequest' \in SearchRequests /\ loose' \in Seq(SearchRequests) /\ LooseInv'
      /\ \/ request.registered /\ request = currentRequest /\ currentRequest' = NoRequest
         \/ ~request.registered /\ currentRequest' = currentRequest
  BY <1>1, RequestAnswered
<1>4. currentRequest'.kind = "none" \/ currentRequest' = currentRequest
  BY <1>3 DEF NoRequest, Request
<1>5. SubmissionsInv'
  <2>1. failed' = TRUE \/ failed' = failed
    BY <1>1
  <2>2. RunningInv'
    BY <1>2, <1>4, <2>1 DEF SearchInv, SubmissionsInv, RunningInv
  <2>3. QED
    BY <1>2, <1>3, <2>2 DEF SearchInv, SubmissionsInv, WaitingInv
<1>6. ASSUME ListsInv', LoadingEnds', UpcomingInv',
             lists' \in Seq(ResultLists), live' \in {0, Len(lists')}, pages' \in Seq(Pages)
      PROVE  SearchInv'
  BY <1>2, <1>3, <1>5, <1>6 DEF SearchInv, SearchTypeOK
<1>7. CASE TeardownThrows
  <2>1. /\ ListsInv' /\ lists' \in Seq(ResultLists) /\ live' \in {0, Len(lists')} /\ pages' \in Seq(Pages)
        /\ broken' = TRUE
    BY <1>7, TeardownBreaks
  <2>2. LoadingEnds' /\ UpcomingInv'
    BY <2>1 DEF LoadingEnds, UpcomingInv, Excepted
  <2>3. QED
    BY <1>6, <2>1, <2>2
<1>8. CASE Attach(request.query) /\ loading' = FALSE /\ outlived' = ~request.registered /\ UNCHANGED failed
  <2>1. request.query \in Texts
    BY <1>3 DEF SearchRequests
  <2>2. /\ ListsInv' /\ lists' \in Seq(ResultLists) /\ live' \in {0, Len(lists')} /\ pages' \in Seq(Pages)
        /\ live' # 0 /\ LastUnrendered' /\ lists'[Len(lists')].toRender[1].query = request.query
    <3>1. PICK query \in Texts : query = request.query
      BY <2>1
    <3>2. Attach(query)
      BY <1>8, <3>1
    <3>3. QED
      BY <3>1, <3>2, Attached
  <2>3. waiting' = <<>> => request.query = current'.query \/ Excepted'
    <3>1. CASE request.registered
      <4>1. request = currentRequest /\ currentRequest.kind = "search"
        BY <1>1, <1>3, <3>1
      <4>2. waiting = <<>> => request.query = current.query \/ overtaken \/ failed
        BY <4>1 DEF SearchInv, SubmissionsInv, RunningInv
      <4>3. QED
        BY <1>2, <1>8, <4>2 DEF Excepted
    <3>2. CASE ~request.registered
      BY <1>8, <3>2 DEF Excepted
    <3>3. QED
      BY <3>1, <3>2
  <2>4. UpcomingInv'
    BY <2>2, <2>3 DEF UpcomingInv
  <2>5. LoadingEnds'
    BY <1>8 DEF LoadingEnds
  <2>6. QED
    BY <1>6, <2>2, <2>4, <2>5
<1>9. CASE Teardown /\ loading' = FALSE
  <2>1. /\ ListsInv' /\ lists' \in Seq(ResultLists) /\ live' \in {0, Len(lists')} /\ pages' \in Seq(Pages)
        /\ pages' = <<>> /\ (LastUnrendered' => broken')
    BY <1>9, TornDown
  <2>2. LoadingEnds' /\ UpcomingInv'
    BY <1>9, <2>1 DEF LoadingEnds, UpcomingInv, Excepted
  <2>3. QED
    BY <1>6, <2>1, <2>2
<1>10. CASE failed' = TRUE /\ loading' = FALSE /\ UNCHANGED listVars
  <2>1. currentRequest'.kind = "more" => currentRequest' = currentRequest
    BY <1>4
  <2>2. /\ ListsInv' /\ lists' \in Seq(ResultLists) /\ live' \in {0, Len(lists')} /\ pages' \in Seq(Pages)
        /\ LastUnrendered' /\ live' = 0 => broken'
    BY <1>10, <2>1, ListsStay
  <2>3. LoadingEnds' /\ UpcomingInv'
    BY <1>10, <2>2 DEF LoadingEnds, UpcomingInv, Excepted
  <2>4. QED
    BY <1>6, <2>2, <2>3
<1>11. QED
  BY <1>1, <1>7, <1>8, <1>9, <1>10

\* A list that has rendered changes, but for what it shows
LEMMA ListChanges ==
  ASSUME SearchInv, NEW l \in DOMAIN lists, lists[l].toRender = <<>>,
         NEW list \in ResultLists, list.toRender = <<>>, lists' = [lists EXCEPT ![l] = list],
         live' = live
  PROVE  /\ lists' \in Seq(ResultLists) /\ live' \in {0, Len(lists')}
         /\ DOMAIN lists' = DOMAIN lists /\ lists'[l] = list
         /\ \A k \in DOMAIN lists : k # l => lists'[k] = lists[k]
         /\ LastUnrendered' <=> LastUnrendered
         /\ LastUnrendered => lists'[Len(lists')] = lists[Len(lists)]
         /\ (pages # <<>> => pages' # <<>>) /\ (infiniteLoading' => pages' # <<>>) => ListShape'
<1>1. /\ lists \in Seq(ResultLists) /\ DOMAIN lists = 1 .. Len(lists) /\ Len(lists) \in Nat
      /\ (lists = <<>> <=> Len(lists) = 0) /\ live \in {0, Len(lists)}
  BY SearchTypes DEF SearchInv, SearchTypeOK
<1>2. /\ lists' \in Seq(ResultLists) /\ Len(lists') = Len(lists) /\ DOMAIN lists' = DOMAIN lists
      /\ lists'[l] = list /\ \A k \in DOMAIN lists : k # l => lists'[k] = lists[k]
  BY <1>1, ExceptSeq
<1>3. Len(lists) \in DOMAIN lists /\ lists # <<>> /\ lists' # <<>>
  BY <1>1, <1>2, LenProperties
<1>4. LastUnrendered' <=> LastUnrendered
  BY <1>2, <1>3 DEF LastUnrendered
<1>5. LastUnrendered => lists'[Len(lists')] = lists[Len(lists)]
  BY <1>2, <1>3 DEF LastUnrendered
<1>6. ASSUME pages # <<>> => pages' # <<>>, infiniteLoading' => pages' # <<>>
      PROVE  ListShape'
  <2>1. \A k \in DOMAIN lists : lists'[k].toRender # <<>> => k # l /\ lists[k].toRender # <<>>
    BY <1>2
  <2>2. \A k \in DOMAIN lists : lists[k].toRender # <<>> => k # l /\ lists'[k].toRender # <<>>
    BY <1>2
  <2>3. \A k \in DOMAIN lists' : lists'[k].toRender # <<>> =>
          lists'[k].offset = 1 /\ \A j \in DOMAIN lists' : j > k => lists'[j].toRender # <<>>
    BY <1>2, <2>1, <2>2 DEF SearchInv, ListsInv, ListShape
  <2>4. live # 0 => live \in DOMAIN lists
    BY <1>1, <1>3
  <2>5. live' # 0 /\ lists'[live'].toRender = <<>> => pages # <<>>
    BY <2>2, <2>4 DEF SearchInv, ListsInv, ListShape
  <2>6. QED
    BY <1>6, <2>3, <2>5 DEF ListShape
<1>7. QED
  BY <1>1, <1>2, <1>4, <1>5, <1>6

LEMMA TimerPasses ==
  ASSUME SearchInv, NEW l \in DOMAIN lists, ScrollTimer(l)
  PROVE  SearchInv'
<1> DEFINE list == [lists[l] EXCEPT !.scrolling = lists[l].bound]
<1>1. /\ lists[l].toRender = <<>> /\ infiniteLoading
      /\ lists' = [lists EXCEPT ![l] = list] /\ Cancel
      /\ currentRequest' = Request("more", current.query, lists[l].offset)
      /\ interrupted' = (interrupted \/ (currentRequest.kind = "search" /\ currentRequest.registered))
      /\ astray' = (astray \/ l # live \/ current.query # pages[1].query)
      /\ UNCHANGED <<queryVal, current, waiting, loading, live, pages, infiniteLoading, overtaken,
                     failed, outlived, broken>>
  BY DEF ScrollTimer, fieldVars, submitVars
<1>2. lists[l] \in ResultLists /\ DOMAIN lists = 1 .. Len(lists)
  BY SearchTypes
<1>3. list \in ResultLists /\ list.toRender = <<>> /\ list.offset = lists[l].offset
  BY <1>1, <1>2 DEF ResultLists
<1> HIDE DEF list
<1>4. /\ lists' \in Seq(ResultLists) /\ live' \in {0, Len(lists')}
      /\ DOMAIN lists' = DOMAIN lists /\ lists'[l] = list
      /\ \A k \in DOMAIN lists : k # l => lists'[k] = lists[k]
      /\ LastUnrendered' <=> LastUnrendered
      /\ LastUnrendered => lists'[Len(lists')] = lists[Len(lists)]
      /\ (pages # <<>> => pages' # <<>>) /\ (infiniteLoading' => pages' # <<>>) => ListShape'
  BY <1>1, <1>3, ListChanges
<1>5. /\ currentRequest'.kind = "more" /\ currentRequest'.query = current.query
      /\ currentRequest'.page = lists[l].offset /\ currentRequest' \in SearchRequests
  <2>1. lists[l].offset \in Nat
    BY <1>2 DEF ResultLists
  <2>2. current.query \in Texts
    BY DEF SearchInv, SearchTypeOK, Submissions
  <2>3. QED
    BY <1>1, <2>1, <2>2 DEF Request, SearchRequests
<1>6. /\ loose' \in Seq(SearchRequests) /\ LooseInv'
      /\ Searching => Searching' \/ (currentRequest.kind = "search" /\ currentRequest.registered)
  BY <1>1, Cancelled
<1>7. Searching => Searching' \/ interrupted'
  BY <1>1, <1>6
<1>8. interrupted => interrupted'
  BY <1>1
<1>9. LoadingEnds'
  BY <1>1, <1>7, <1>8 DEF SearchInv, LoadingEnds
<1>10. UpcomingInv'
  <2>1. LastUnrendered' /\ live' = 0 => broken'
    BY <1>1, <1>4 DEF SearchInv, UpcomingInv
  <2>2. Excepted => Excepted'
    BY <1>1, <1>8 DEF Excepted
  <2>3. ~Searching' /\ ~Excepted' => ~Searching
    BY <1>7 DEF Excepted
  <2>4. QED
    BY <1>1, <1>4, <2>1, <2>2, <2>3 DEF SearchInv, UpcomingInv
<1>11. SubmissionsInv'
  BY <1>1, <1>5, <1>6 DEF SearchInv, SubmissionsInv, WaitingInv, RunningInv
<1>12. astray => astray'
  BY <1>1
<1>13. PagesInOrder'
  BY <1>1, <1>12 DEF SearchInv, ListsInv, PagesInOrder
<1>14. ListShape'
  BY <1>1, <1>4 DEF SearchInv, ListsInv, ListShape
<1>15. MoreFollows'
  <2> SUFFICES ASSUME ~astray', live # 0
               PROVE  /\ lists'[live].toRender = <<>> /\ lists'[live].offset = Len(pages)
                      /\ currentRequest'.page = Len(pages) /\ currentRequest'.query = pages[1].query
    BY <1>1 DEF MoreFollows
  <2>1. ~astray /\ l = live /\ current.query = pages[1].query
    BY <1>1
  <2>2. lists[live].offset = Len(pages)
    BY <1>1, <2>1 DEF SearchInv, ListsInv, MoreFollows
  <2>3. QED
    BY <1>3, <1>4, <1>5, <2>1, <2>2
<1>16. SearchTypeOK'
  BY <1>1, <1>4, <1>5, <1>6 DEF SearchInv, SearchTypeOK
<1>17. QED
  BY <1>9, <1>10, <1>11, <1>13, <1>14, <1>15, <1>16 DEF SearchInv, ListsInv

\* The list that is attached gets a page that was asked for, if it still shows its end
LEMMA PageAdded ==
  ASSUME SearchInv, live # 0, ~Unrendered, live' = live,
         NEW request \in SearchRequests, request.kind = "more", AddInfiniteVertices(request),
         \/ request.registered /\ request = currentRequest /\ currentRequest' = NoRequest
         \/ ~request.registered /\ currentRequest' = currentRequest
  PROVE  /\ ListsInv' /\ lists' \in Seq(ResultLists) /\ live' \in {0, Len(lists')} /\ pages' \in Seq(Pages)
         /\ LastUnrendered' <=> LastUnrendered
         /\ LastUnrendered => lists'[Len(lists')] = lists[Len(lists)]
         /\ pages # <<>> => pages'[1] = pages[1]
         /\ pages' # <<>> => pages # <<>>
<1> DEFINE page == [query |-> request.query, page |-> request.page]
           all == Len(pages') = PageCount
           list == [lists[live] EXCEPT !.offset = request.page + 1, !.scrolling = @ /\ ~all]
<1>1. /\ pages' = IF infiniteLoading THEN Append(pages, page) ELSE pages
      /\ infiniteLoading' = (infiniteLoading /\ ~all)
      /\ lists' = [lists EXCEPT ![live] = list]
      /\ astray' = (astray \/ (infiniteLoading /\ ~request.registered))
  BY DEF AddInfiniteVertices
<1>2. /\ page \in Pages /\ page.query = request.query /\ page.page = request.page
      /\ page = [query |-> page.query, page |-> page.page]
  BY DEF Pages, SearchRequests
<1>3. /\ live \in DOMAIN lists /\ lists[live] \in ResultLists /\ lists[live].toRender = <<>>
      /\ pages \in Seq(Pages) /\ DOMAIN pages = 1 .. Len(pages) /\ Len(pages) \in Nat
      /\ (pages = <<>> <=> Len(pages) = 0) /\ (infiniteLoading => pages # <<>>) /\ pages # <<>>
  BY SearchTypes DEF SearchInv, SearchTypeOK, ListsInv, ListShape, Unrendered
<1>4. list \in ResultLists /\ list.toRender = <<>> /\ list.offset = request.page + 1
  <2>1. request.page + 1 \in Nat /\ (lists[live].scrolling /\ ~all) \in BOOLEAN
    BY DEF SearchRequests
  <2>2. PICK next \in Nat, scrolling \in BOOLEAN :
          next = request.page + 1 /\ scrolling = (lists[live].scrolling /\ ~all)
    BY <2>1
  <2>3. list = [lists[live] EXCEPT !.offset = next, !.scrolling = scrolling]
    BY <2>2
  <2> HIDE DEF list
  <2>4. QED
    BY <1>3, <2>2, <2>3 DEF ResultLists
<1> HIDE DEF page, all, list
<1>5. /\ lists' \in Seq(ResultLists) /\ live' \in {0, Len(lists')}
      /\ DOMAIN lists' = DOMAIN lists /\ lists'[live] = list
      /\ LastUnrendered' <=> LastUnrendered
      /\ LastUnrendered => lists'[Len(lists')] = lists[Len(lists)]
      /\ (pages # <<>> => pages' # <<>>) /\ (infiniteLoading' => pages' # <<>>) => ListShape'
  BY <1>1, <1>3, <1>4, ListChanges
<1>6. CASE infiniteLoading
  <2>1. /\ pages' \in Seq(Pages) /\ Len(pages') = Len(pages) + 1
        /\ \A i \in 1 .. Len(pages) : pages'[i] = pages[i]
        /\ pages'[Len(pages) + 1] = page
    BY <1>1, <1>2, <1>3, <1>6, AppendProperties
  <2>2. DOMAIN pages' = 1 .. Len(pages) + 1 /\ pages' # <<>> /\ pages'[1] = pages[1]
    BY <1>3, <2>1, LenProperties
  <2>3. ~astray' => /\ ~astray /\ request = currentRequest /\ currentRequest' = NoRequest
                    /\ request.page = Len(pages) /\ request.query = pages[1].query
    <3>1. ~astray' => ~astray /\ request = currentRequest /\ currentRequest' = NoRequest
      BY <1>1, <1>6
    <3>2. ~astray /\ request = currentRequest =>
            request.page = Len(pages) /\ request.query = pages[1].query
      BY <1>3, <1>6 DEF SearchInv, ListsInv, MoreFollows
    <3>3. QED
      BY <3>1, <3>2
  <2>4. PagesInOrder'
    <3> SUFFICES ASSUME ~astray', NEW i \in 1 .. Len(pages) + 1
                 PROVE  pages'[i] = [query |-> pages[1].query, page |-> i - 1]
      BY <2>2 DEF PagesInOrder
    <3>1. CASE i \in 1 .. Len(pages)
      BY <1>3, <2>1, <2>3, <3>1 DEF SearchInv, ListsInv, PagesInOrder
    <3>2. CASE i = Len(pages) + 1
      <4>1. i - 1 = Len(pages)
        BY <1>3, <3>2
      <4>2. pages'[i] = page
        BY <2>1, <3>2
      <4>3. QED
        BY <1>2, <2>3, <4>1, <4>2
    <3>3. QED
      BY <1>3, <3>1, <3>2
  <2>5. MoreFollows'
    <3>1. ~astray' => lists'[live].offset = Len(pages') /\ currentRequest'.kind = "none"
      BY <1>3, <1>4, <1>5, <2>1, <2>3 DEF NoRequest, Request
    <3>2. QED
      BY <1>4, <1>5, <3>1 DEF MoreFollows
  <2>6. QED
    BY <1>3, <1>5, <2>1, <2>2, <2>4, <2>5 DEF ListsInv
<1>7. CASE ~infiniteLoading
  <2>1. pages' = pages /\ ~infiniteLoading' /\ (astray => astray')
    BY <1>1, <1>7
  <2>2. PagesInOrder'
    BY <2>1 DEF SearchInv, ListsInv, PagesInOrder
  <2>3. MoreFollows'
    BY <1>4, <1>5, <2>1 DEF MoreFollows
  <2>4. QED
    BY <1>3, <1>5, <2>1, <2>2, <2>3 DEF ListsInv
<1>8. QED
  BY <1>6, <1>7

\* The list that is attached gets no more
LEMMA NoPageAdded ==
  ASSUME SearchInv, live # 0, ~Unrendered, live' = live,
         NEW request, EndInfiniteVertices(request),
         currentRequest'.kind = "none" \/ currentRequest' = currentRequest
  PROVE  /\ ListsInv' /\ lists' \in Seq(ResultLists) /\ live' \in {0, Len(lists')} /\ pages' = pages
         /\ LastUnrendered' <=> LastUnrendered
         /\ LastUnrendered => lists'[Len(lists')] = lists[Len(lists)]
<1> DEFINE list == [lists[live] EXCEPT !.scrolling = FALSE]
<1>1. /\ infiniteLoading' = FALSE \/ infiniteLoading' = infiniteLoading
      /\ lists' = [lists EXCEPT ![live] = list] /\ pages' = pages /\ astray' = astray
  BY DEF EndInfiniteVertices
<1>2. /\ live \in DOMAIN lists /\ lists[live] \in ResultLists /\ lists[live].toRender = <<>>
      /\ (infiniteLoading => pages # <<>>)
  BY SearchTypes DEF SearchInv, SearchTypeOK, ListsInv, ListShape, Unrendered
<1>3. list \in ResultLists /\ list.toRender = <<>> /\ list.offset = lists[live].offset
  BY <1>2 DEF ResultLists
<1> HIDE DEF list
<1>4. /\ lists' \in Seq(ResultLists) /\ live' \in {0, Len(lists')} /\ lists'[live] = list
      /\ LastUnrendered' <=> LastUnrendered
      /\ LastUnrendered => lists'[Len(lists')] = lists[Len(lists)]
      /\ (pages # <<>> => pages' # <<>>) /\ (infiniteLoading' => pages' # <<>>) => ListShape'
  BY <1>1, <1>2, <1>3, ListChanges
<1>5. infiniteLoading' => infiniteLoading
  BY <1>1
<1>6. ListShape' /\ PagesInOrder'
  BY <1>1, <1>2, <1>4, <1>5 DEF SearchInv, ListsInv, PagesInOrder
<1>7. MoreFollows'
  BY <1>1, <1>2, <1>3, <1>4, <1>5 DEF SearchInv, ListsInv, MoreFollows
<1>8. QED
  BY <1>1, <1>4, <1>6, <1>7 DEF ListsInv

LEMMA MoreComes ==
  ASSUME SearchInv, MoreAnswered
  PROVE  SearchInv'
<1>1. PICK request \in UnderWay :
        /\ request.kind = "more" /\ AnswerTo(request)
        /\ IF live = 0 \/ Unrendered THEN UNCHANGED <<lists, pages, infiniteLoading, astray>>
           ELSE \/ request.page < PageCount /\ AddInfiniteVertices(request)
                \/ EndInfiniteVertices(request)
  BY DEF MoreAnswered
<1>2. UNCHANGED <<queryVal, current, waiting, loading, live, interrupted, overtaken, failed, outlived,
                  broken>>
  BY DEF MoreAnswered, fieldVars, submitVars
<1>3. /\ request \in SearchRequests
      /\ currentRequest' \in SearchRequests /\ loose' \in Seq(SearchRequests) /\ LooseInv'
      /\ \/ request.registered /\ request = currentRequest /\ currentRequest' = NoRequest
         \/ ~request.registered /\ currentRequest' = currentRequest
      /\ Searching => Searching'
  BY <1>1, RequestAnswered
<1>4. currentRequest'.kind = "none" \/ currentRequest' = currentRequest
  BY <1>3 DEF NoRequest, Request
<1>5. SubmissionsInv'
  BY <1>2, <1>3, <1>4 DEF SearchInv, SubmissionsInv, WaitingInv, RunningInv
<1>6. /\ ListsInv' /\ lists' \in Seq(ResultLists) /\ live' \in {0, Len(lists')} /\ pages' \in Seq(Pages)
      /\ LastUnrendered' <=> LastUnrendered
      /\ LastUnrendered => lists'[Len(lists')] = lists[Len(lists)]
      /\ (pages # <<>> => pages'[1] = pages[1]) /\ (pages' # <<>> => pages # <<>>)
  <2>1. CASE UNCHANGED <<lists, pages, infiniteLoading, astray>>
    <3>1. UNCHANGED listVars
      BY <1>2, <2>1 DEF listVars
    <3>2. QED
      BY <1>4, <2>1, <3>1, ListsStay DEF LastUnrendered
  <2>2. CASE ~(live = 0 \/ Unrendered) /\ AddInfiniteVertices(request)
    BY <1>1, <1>2, <1>3, <2>2, PageAdded
  <2>3. CASE ~(live = 0 \/ Unrendered) /\ EndInfiniteVertices(request)
    <3>1. /\ ListsInv' /\ lists' \in Seq(ResultLists) /\ live' \in {0, Len(lists')} /\ pages' = pages
          /\ LastUnrendered' <=> LastUnrendered
          /\ LastUnrendered => lists'[Len(lists')] = lists[Len(lists)]
      BY <1>2, <1>4, <2>3, NoPageAdded
    <3>2. QED
      BY <3>1 DEF SearchInv, SearchTypeOK
  <2>4. QED
    BY <1>1, <2>1, <2>2, <2>3
<1>7. LoadingEnds' /\ UpcomingInv'
  BY <1>2, <1>3, <1>6 DEF SearchInv, LoadingEnds, UpcomingInv, Excepted
<1>8. QED
  BY <1>2, <1>3, <1>5, <1>6, <1>7 DEF SearchInv, SearchTypeOK

\* What is shown goes, or its list is let go
LEMMA SearchGoes ==
  ASSUME SearchInv, ClearSearch \/ HidePane
  PROVE  SearchInv'
<1>1. /\ TeardownThrows \/ Teardown
      /\ UNCHANGED <<current, waiting, overtaken, failed, outlived>>
      /\ queryVal' \in {Empty, queryVal}
  BY DEF ClearSearch, HidePane, fieldVars, submitVars, requestVars
<1>2. /\ currentRequest' \in SearchRequests /\ loose' \in Seq(SearchRequests) /\ SubmissionsInv'
  <2>1. CASE ClearSearch
    <3>1. Cancel /\ currentRequest' = NoRequest
      BY <2>1 DEF ClearSearch
    <3>2. NoRequest \in SearchRequests /\ NoRequest.kind = "none"
      BY DEF NoRequest, Request, SearchRequests, Texts
    <3>3. QED
      BY <1>1, <3>1, <3>2, Cancelled DEF SearchInv, SubmissionsInv, WaitingInv, RunningInv
  <2>2. CASE HidePane
    BY <1>1, <2>2 DEF HidePane, requestVars, SearchInv, SearchTypeOK, SubmissionsInv, LooseInv, WaitingInv,
                      RunningInv
  <2>3. QED
    BY <2>1, <2>2
<1>3. ASSUME ListsInv', LoadingEnds', UpcomingInv',
             lists' \in Seq(ResultLists), live' \in {0, Len(lists')}, pages' \in Seq(Pages)
      PROVE  SearchInv'
  BY <1>1, <1>2, <1>3 DEF SearchInv, SearchTypeOK, Texts
<1>4. CASE TeardownThrows
  <2>1. /\ ListsInv' /\ lists' \in Seq(ResultLists) /\ live' \in {0, Len(lists')} /\ pages' \in Seq(Pages)
        /\ broken' = TRUE
    BY <1>4, TeardownBreaks
  <2>2. LoadingEnds' /\ UpcomingInv'
    BY <2>1 DEF LoadingEnds, UpcomingInv, Excepted
  <2>3. QED
    BY <1>3, <2>1, <2>2
<1>5. CASE Teardown /\ ~TeardownThrows
  <2>1. /\ ListsInv' /\ lists' \in Seq(ResultLists) /\ live' \in {0, Len(lists')} /\ pages' \in Seq(Pages)
        /\ pages' = <<>> /\ broken' = broken /\ (LastUnrendered' => broken')
    BY <1>5, TornDown
  <2>2. loading' = FALSE \/ UNCHANGED <<currentRequest, loose, loading, interrupted>>
    BY <1>5 DEF ClearSearch, HidePane, requestVars
  <2>3. LoadingEnds'
    BY <2>1, <2>2 DEF SearchInv, LoadingEnds, Searching, UnderWay
  <2>4. UpcomingInv'
    BY <2>1 DEF UpcomingInv, Excepted
  <2>5. QED
    BY <1>3, <2>1, <2>3, <2>4
<1>6. QED
  BY <1>1, <1>4, <1>5

LEMMA SearchInvariance ==
  ASSUME SearchInv, [SearchNext]_searchVars
  PROVE  SearchInv'
<1>1. ASSUME NEW query \in Queries \cup {Empty}, ChangeQuery(query)
      PROVE  SearchInv'
  BY <1>1, FieldChanges DEF ChangeQuery, Texts
<1>2. ASSUME NEW to \in Filters, FiltersChange(to)
      PROVE  SearchInv'
  BY <1>2, FieldChanges DEF FiltersChange, SearchInv, SearchTypeOK
<1>3. ASSUME NEW l \in DOMAIN lists, Render(l) \/ ScrollTimer(l)
      PROVE  SearchInv'
  BY <1>3, Renders, TimerPasses
<1>4. CASE UNCHANGED searchVars
  <2>1. queryVal' \in Texts /\ UNCHANGED <<submitVars, requestVars, listVars>>
    BY <1>4 DEF searchVars, fieldVars, SearchInv, SearchTypeOK
  <2>2. QED
    BY <2>1, FieldChanges
<1>5. QED
  BY <1>1, <1>2, <1>3, <1>4, QueryEntered, ConfigComes, OntologyComes, Registered, SearchEnds, MoreComes,
     SearchGoes
     DEF SearchNext

\* When all lists have rendered, what will be shown in the end is
LEMMA SearchShows == SearchInv => ShowsTheSearch
<1> SUFFICES ASSUME SearchInv PROVE ShowsTheSearch
  OBVIOUS
<1>1. lists # <<>> => Len(lists) \in DOMAIN lists
  BY SearchTypes
<1>2. ResultsAreCurrent
  BY <1>1 DEF SearchInv, UpcomingInv, LastUnrendered, Excepted, ResultsAreCurrent
<1>3. QED
  BY <1>2 DEF SearchInv, ListsInv, ShowsTheSearch

-----------------------------------------------------------------------------
(* The parts together.                                                     *)

LEMMA PartsBegin ==
  Init => DiffInit /\ ActivityInit /\ SelectionInit /\ SearchInit /\ StoreInit
BY DEF Init

\* A step is one of the part at work, or of none
LEMMA PartsStep ==
  [Next]_partsVars =>
    /\ [DiffNext]_diffVars /\ [ActivityNext]_activityVars /\ [SelectionNext]_selectionVars
    /\ [SearchNext]_searchVars /\ [StoreNext]_storeVars
<1>1. CASE UNCHANGED partsVars
  BY <1>1 DEF partsVars, paneVars
<1>2. CASE Next
  BY <1>2 DEF Next, paneVars
<1>3. QED
  BY <1>1, <1>2

(***************************************************************************)
(* The workspaces behave among the parts as they do alone, so that what is *)
(* proved of StoreSpec holds for Spec.                                     *)
(***************************************************************************)
THEOREM StoreIsAPart == Spec => StoreSpec
BY PartsBegin, PartsStep, PTL DEF Spec, StoreSpec

(***************************************************************************)
(* Marks in the panel of unpublished changes are whole, for any elements   *)
(* and properties, after any clicks in any order and any new differences   *)
(* (onMarkPublish, onMarkUndo, onSelectAll, diffsChanged).                 *)
(***************************************************************************)
THEOREM MarksStayWhole == Spec => []MarksAreWhole
<1>1. Init => DiffInv
  BY PartsBegin, DiffInitial
<1>2. DiffInv /\ [Next]_partsVars => DiffInv'
  BY PartsStep, DiffInvariance
<1>3. DiffInv => MarksAreWhole
  BY DEF DiffInv
<1>4. QED
  BY <1>1, <1>2, <1>3, PTL DEF Spec

(***************************************************************************)
(* The list of activities is what the reports say, for any number of tasks *)
(* and reports (addOrUpdateTask, removeTask).                              *)
(***************************************************************************)
THEOREM ActivitiesAreListed == Spec => []TasksAreListed
<1>1. Init => ListInv
  BY PartsBegin, ListInitial
<1>2. ListInv /\ [Next]_partsVars => ListInv'
  BY PartsStep, ListInvariance
<1>3. ListInv => TasksAreListed
  BY ListHolds
<1>4. QED
  BY <1>1, <1>2, <1>3, PTL DEF Spec

(***************************************************************************)
(* What the page publishes as selected is selected, and what was deleted   *)
(* is not, for any objects, selections, failures and overtaking            *)
(* (onSelectObjects, verticesDeleted, edgesDeleted).                       *)
(***************************************************************************)
THEOREM SelectionStaysTrue == Spec => []SelectionIsTrue
<1>1. Init => SelectionInv
  BY PartsBegin, SelectionInitial
<1>2. SelectionInv /\ [Next]_partsVars => SelectionInv'
  BY PartsStep, SelectionInvariance
<1>3. SelectionInv => SelectionIsTrue
  BY SelectionHolds
<1>4. QED
  BY <1>1, <1>2, <1>3, PTL DEF Spec

(***************************************************************************)
(* The search pane shows what became of the last search, for any queries,  *)
(* pages, lists and timers (onQuerySubmit, searchRequestCompleted,         *)
(* triggerInfiniteScrollRequest, onAddInfiniteVertices), any number of     *)
(* requests that were cancelled before they were registered, and lists     *)
(* that are torn down before they have rendered.                           *)
(***************************************************************************)
THEOREM SearchIsShown == Spec => []ShowsTheSearch
<1>1. Init => SearchInv
  BY PartsBegin, SearchInitial
<1>2. SearchInv /\ [Next]_partsVars => SearchInv'
  BY PartsStep, SearchInvariance
<1>3. SearchInv => ShowsTheSearch
  BY SearchShows
<1>4. QED
  BY <1>1, <1>2, <1>3, PTL DEF Spec
=============================================================================
