----------------------------- MODULE WorkspaceStore -----------------------------
(***************************************************************************)
(* One workspace as the servers keep it: VertexiumWorkspaceRepository with *)
(* its caches, over the locks of LockRepository, Lock and                  *)
(* CuratorLockRepository.                                                  *)
(*                                                                         *)
(* The owner shares the workspace with a member and removes entities; the  *)
(* member looks at its entities and updates them.  The owner's own access  *)
(* never changes, so that the checks of her calls, which always pass, are  *)
(* left out.                                                               *)
(*                                                                         *)
(* The graph and ZooKeeper are external.  A flushed change of the graph is *)
(* seen by all servers, also through a vertex that is cached.  An inter-   *)
(* process mutex is a node that goes with its ZooKeeper session.           *)
(***************************************************************************)
EXTENDS Naturals

CONSTANTS
  Servers, Calls, ServerOf, NoCall, NoServer,
  Entities,
  Expiry,          \* ticks until something cached expires: fifteen seconds
  MaxStarted,      \* bound on calls, removals and faults together
  MaxStoreFaults,  \* bound on lost sessions, crashes, failed acquisitions and broken updates together
  MaxTicks         \* bound on the ticks after the access was taken away

ASSUME StoreAssumption ==
  /\ Entities # {}
  /\ ServerOf \in [Calls -> Servers]
  /\ NoCall \notin Calls /\ NoServer \notin Servers
  /\ Expiry \in Nat \ {0}
  /\ MaxStarted \in Nat /\ MaxTicks \in Nat /\ MaxStoreFaults \in Nat

Kinds == {"find", "update", "revoke", "grant"}
Steps == {"idle", "check", "checked", "monitor", "acquire", "inside", "read", "written", "release"}

VARIABLES
  \* the graph
  visible,         \* entities with a visible edge to the workspace
  access,          \* the member's edge says that he may write
  \* the mutex in ZooKeeper: the call whose node is first, or NoCall
  mutex,
  \* each server
  monitor,         \* monitor[s]: the call that is in synchronized, or NoCall
  entities,        \* workspaceEntitiesCached: what is cached for the member, with its age
  users,           \* usersWithAccessCache: whether the member is found in it with his access
  granted,         \* usersWithCommentAccessCache
  \* each call
  call,            \* its step, what it does to which entity, and what it has read, see Thread
  \* history
  writers,         \* writers[e]: servers that updated e since it was removed
  revokedBy,       \* the server that made the last change of access, if it took it away
  revokedFor,      \* ticks since then
  foundBefore,     \* a call of that server had found the access when the caches were cleared
  lostSession,
  started, storeFaults

graphVars == <<visible, access>>
cacheVars == <<entities, users, granted>>
lockVars == <<mutex, monitor>>
accessHistory == <<revokedBy, revokedFor, foundBefore>>
boundVars == <<started, storeFaults>>
storeVars == <<graphVars, cacheVars, lockVars, call, writers, accessHistory, lostSession, boundVars>>

CallsOf(s) == {c \in Calls : ServerOf[c] = s}
\* A call is in the callable, or about to release the lock after it
Inside(c) == call[c].at \in {"inside", "read", "written", "release"}

-----------------------------------------------------------------------------
(***************************************************************************)
(* A cache of one key: empty, or a value with its age (expireAfterWrite).  *)
(***************************************************************************)
Put(v) == {[value |-> v, age |-> 0]}

OlderForEver(cache) == cache                                           \* mutant
Older(cache) == {[x EXCEPT !.age = @ + 1] : x \in {y \in cache : y.age + 1 < Expiry}}

\* What a thread keeps: allowed is what it found about the member's access, and fromGraph that it
\* found that in the graph; listed are the entities it read
Thread(step, k, e) ==
  [at |-> step, kind |-> k, about |-> e, allowed |-> FALSE, fromGraph |-> FALSE, listed |-> {}]
AnyEntity == CHOOSE e \in Entities : TRUE
Idle == Thread("idle", "find", AnyEntity)

Go(c, step) == call' = [call EXCEPT ![c] = Thread(step, call[c].kind, call[c].about)]
Return(c) == call' = [call EXCEPT ![c] = Idle]

StoreFault ==
  /\ started < MaxStarted /\ started' = started + 1
  /\ storeFaults < MaxStoreFaults /\ storeFaults' = storeFaults + 1

StoreInit ==
  /\ visible = {} /\ access = TRUE
  /\ mutex = NoCall /\ monitor = [s \in Servers |-> NoCall]
  /\ entities = [s \in Servers |-> {}]
  /\ users = [s \in Servers |-> {}]
  /\ granted = [s \in Servers |-> {}]
  /\ call = [c \in Calls |-> Idle]
  /\ writers = [e \in Entities |-> {}]
  /\ revokedBy = NoServer /\ revokedFor = 0 /\ foundBefore = FALSE
  /\ lostSession = FALSE
  /\ started = 0 /\ storeFaults = 0

\* A request of the member or of the owner comes to the repository
Call(c, k, e) ==
  /\ call[c].at = "idle" /\ started < MaxStarted
  /\ k # "update" => e = AnyEntity
  /\ started' = started + 1
  /\ call' = [call EXCEPT ![c] = Thread(IF k \in {"find", "update"} THEN "check" ELSE "monitor", k, e)]
  /\ UNCHANGED <<graphVars, cacheVars, lockVars, writers, accessHistory, lostSession, storeFaults>>

-----------------------------------------------------------------------------
(***************************************************************************)
(* hasCommentPermissions, or hasReadPermissions, which has a cache of its  *)
(* own but never puts anything into it; findUsersWithAccess.               *)
(***************************************************************************)
Lookup(c) ==
  LET s == ServerOf[c]
  IN  /\ call[c].at = "check"
      /\ IF call[c].kind = "update" /\ granted[s] # {}
         THEN Go(c, "monitor")
         ELSE \E answer \in IF users[s] = {} THEN {access} ELSE {x.value : x \in users[s]} :
                call' = [call EXCEPT ![c].at = "checked", ![c].allowed = answer, ![c].fromGraph = users[s] = {}]
  /\ UNCHANGED <<graphVars, cacheVars, lockVars, writers, accessHistory, lostSession, boundVars>>

\* What was found is cached, and the call goes on or is denied
Conclude(c) ==
  LET s == ServerOf[c]
  IN  /\ call[c].at = "checked"
      /\ users' = IF call[c].fromGraph THEN [users EXCEPT ![s] = Put(call[c].allowed)] ELSE users
      /\ granted' = IF call[c].allowed /\ call[c].kind = "update"
                    THEN [granted EXCEPT ![s] = Put(TRUE)] ELSE granted
      /\ IF call[c].allowed THEN Go(c, "monitor") ELSE Return(c)
      /\ UNCHANGED <<graphVars, entities, lockVars, writers, accessHistory, lostSession, boundVars>>

-----------------------------------------------------------------------------
(***************************************************************************)
(* LockRepository.lock: synchronized on an object of the server, and in it *)
(* a mutex of all servers, waited for at most thirty seconds.              *)
(***************************************************************************)
EnterMonitorForUpdates(c) ==                          \* mutant: a find needs no mutex
  /\ call[c].at = "monitor" /\ monitor[ServerOf[c]] = NoCall
  /\ monitor' = [monitor EXCEPT ![ServerOf[c]] = c]
  /\ Go(c, IF call[c].kind = "find" THEN "inside" ELSE "acquire")
  /\ UNCHANGED <<graphVars, cacheVars, mutex, writers, accessHistory, lostSession, boundVars>>

EnterMonitor(c) ==
  /\ call[c].at = "monitor" /\ monitor[ServerOf[c]] = NoCall
  /\ monitor' = [monitor EXCEPT ![ServerOf[c]] = c]
  /\ Go(c, "acquire")
  /\ UNCHANGED <<graphVars, cacheVars, mutex, writers, accessHistory, lostSession, boundVars>>

Acquire(c) ==
  /\ call[c].at = "acquire" /\ mutex = NoCall
  /\ mutex' = c
  /\ Go(c, "inside")
  /\ UNCHANGED <<graphVars, cacheVars, monitor, writers, accessHistory, lostSession, boundVars>>

AcquireFailsInMonitor(c) ==                 \* mutant: the monitor is left with the callable only
  /\ call[c].at = "acquire" /\ mutex # NoCall
  /\ Return(c)
  /\ UNCHANGED <<graphVars, cacheVars, lockVars, writers, accessHistory, lostSession, boundVars>>

\* acquire gives up after thirty seconds, or throws; the callable is not called
AcquireFails(c) ==
  /\ call[c].at = "acquire"
  /\ \/ mutex # NoCall /\ UNCHANGED boundVars
     \/ mutex = NoCall /\ StoreFault
  /\ monitor' = [monitor EXCEPT ![ServerOf[c]] = NoCall]
  /\ Return(c)
  /\ UNCHANGED <<graphVars, cacheVars, mutex, writers, accessHistory, lostSession>>

\* release deletes the node of this call, if it is there still
Release(c) ==
  /\ call[c].at = "release"
  /\ mutex' = IF mutex = c THEN NoCall ELSE mutex
  /\ monitor' = [monitor EXCEPT ![ServerOf[c]] = NoCall]
  /\ Return(c)
  /\ UNCHANGED <<graphVars, cacheVars, writers, accessHistory, lostSession, boundVars>>

-----------------------------------------------------------------------------
\* In the callable

\* findEntitiesNoLock: a list that is cached is returned, else the edges are read
FindEntities(c) ==
  /\ call[c].at = "inside" /\ call[c].kind = "find"
  /\ IF entities[ServerOf[c]] # {} THEN Go(c, "release")
     ELSE call' = [call EXCEPT ![c].at = "read", ![c].listed = visible]
  /\ UNCHANGED <<graphVars, cacheVars, lockVars, writers, accessHistory, lostSession, boundVars>>

CacheEntities(c) ==
  /\ call[c].at = "read"
  /\ entities' = [entities EXCEPT ![ServerOf[c]] = Put(call[c].listed)]
  /\ Go(c, "release")
  /\ UNCHANGED <<graphVars, users, granted, lockVars, writers, accessHistory, lostSession, boundVars>>

\* updateEntitiesOnWorkspace: the edge of the entity is written and flushed
UpdateEntity(c) ==
  /\ call[c].at = "inside" /\ call[c].kind = "update"
  /\ visible' = visible \cup {call[c].about}
  /\ writers' = [writers EXCEPT ![call[c].about] = @ \cup {ServerOf[c]}]
  /\ Go(c, "written")
  /\ UNCHANGED <<access, cacheVars, lockVars, accessHistory, lostSession, boundVars>>

\* One of several vertices does not exist: the edges saved before it may get to the graph, untold
UpdateBreaksOff(c) ==
  /\ call[c].at = "inside" /\ call[c].kind = "update"
  /\ StoreFault
  /\ visible' \in {visible, visible \cup {call[c].about}}
  /\ Go(c, "release")
  /\ UNCHANGED <<access, cacheVars, lockVars, writers, accessHistory, lostSession>>

InvalidateNothing(c) ==                                                \* mutant
  /\ call[c].at = "written" /\ call[c].kind = "update"
  /\ Go(c, "release")
  /\ UNCHANGED <<graphVars, cacheVars, lockVars, writers, accessHistory, lostSession, boundVars>>

InvalidateEntities(c) ==
  /\ call[c].at = "written" /\ call[c].kind = "update"
  /\ entities' = [entities EXCEPT ![ServerOf[c]] = {}]
  /\ Go(c, "release")
  /\ UNCHANGED <<graphVars, users, granted, lockVars, writers, accessHistory, lostSession, boundVars>>

\* updateUserOnWorkspace and deleteUserFromWorkspace: the edge of the member is written and flushed
ChangeAccess(c) ==
  /\ call[c].at = "inside" /\ call[c].kind \in {"revoke", "grant"}
  /\ access' = (call[c].kind = "grant")
  /\ revokedBy' = IF access' THEN NoServer ELSE ServerOf[c]
  /\ revokedFor' = IF access \/ access' THEN 0 ELSE revokedFor
  /\ foundBefore' = FALSE
  /\ Go(c, "written")
  /\ UNCHANGED <<visible, cacheVars, lockVars, writers, lostSession, boundVars>>

\* A check of the server has found the access and not yet cached it
HasFound(s) == \E d \in CallsOf(s) : call[d].at = "checked" /\ call[d].allowed

ClearListOnly(c) ==                                                    \* mutant
  LET s == ServerOf[c]
  IN  /\ call[c].at = "written" /\ call[c].kind \in {"revoke", "grant"}
      /\ entities' = [entities EXCEPT ![s] = {}]
      /\ users' = [users EXCEPT ![s] = {}]
      /\ foundBefore' = (foundBefore \/ (revokedBy = s /\ HasFound(s)))
      /\ Go(c, "release")
      /\ UNCHANGED <<graphVars, granted, lockVars, writers, revokedBy, revokedFor, lostSession, boundVars>>

\* clearCache, of this server
ClearCache(c) ==
  LET s == ServerOf[c]
  IN  /\ call[c].at = "written" /\ call[c].kind \in {"revoke", "grant"}
      /\ entities' = [entities EXCEPT ![s] = {}]
      /\ users' = [users EXCEPT ![s] = {}]
      /\ granted' = [granted EXCEPT ![s] = {}]
      /\ foundBefore' = (foundBefore \/ (revokedBy = s /\ HasFound(s)))
      /\ Go(c, "release")
      /\ UNCHANGED <<graphVars, lockVars, writers, revokedBy, revokedFor, lostSession, boundVars>>

\* softDeleteEntitiesFromWorkspace, which takes no lock and leaves the caches alone
SoftDeleteEntity(e) ==
  /\ started < MaxStarted /\ e \in visible
  /\ started' = started + 1
  /\ visible' = visible \ {e}
  /\ writers' = [writers EXCEPT ![e] = {}]
  /\ UNCHANGED <<access, cacheVars, lockVars, call, accessHistory, lostSession, storeFaults>>

-----------------------------------------------------------------------------
\* A tick of the caches' clock; nobody takes that long from reading something to caching it
Tick ==
  /\ access \/ revokedFor < MaxTicks
  /\ \A c \in Calls : call[c].at \notin {"checked", "read"}
  /\ entities' = [s \in Servers |-> Older(entities[s])]
  /\ users' = [s \in Servers |-> Older(users[s])]
  /\ granted' = [s \in Servers |-> Older(granted[s])]
  /\ revokedFor' = IF access THEN revokedFor ELSE revokedFor + 1
  /\ UNCHANGED <<graphVars, lockVars, call, writers, revokedBy, foundBefore, lostSession, boundVars>>

\* The ZooKeeper session of the server that has the mutex ends, and the callable goes on
SessionLost ==
  /\ StoreFault
  /\ mutex # NoCall /\ Inside(mutex)
  /\ mutex' = NoCall
  /\ lostSession' = TRUE
  /\ UNCHANGED <<graphVars, cacheVars, monitor, call, writers, accessHistory>>

\* A server dies; its node in ZooKeeper stays until its session expires
ServerDies(s) ==
  /\ StoreFault
  /\ call' = [c \in Calls |-> IF ServerOf[c] = s THEN Idle ELSE call[c]]
  /\ monitor' = [monitor EXCEPT ![s] = NoCall]
  /\ entities' = [entities EXCEPT ![s] = {}]
  /\ users' = [users EXCEPT ![s] = {}]
  /\ granted' = [granted EXCEPT ![s] = {}]
  /\ UNCHANGED <<graphVars, mutex, writers, accessHistory, lostSession>>

SessionExpires ==
  /\ mutex # NoCall
  /\ ~Inside(mutex)
  /\ mutex' = NoCall
  /\ UNCHANGED <<graphVars, cacheVars, monitor, call, writers, accessHistory, lostSession, boundVars>>

-----------------------------------------------------------------------------
CallStep(c) ==
  \/ Lookup(c) \/ Conclude(c)
  \/ EnterMonitor(c) \/ Acquire(c) \/ AcquireFails(c) \/ Release(c)
  \/ FindEntities(c) \/ CacheEntities(c)
  \/ UpdateEntity(c) \/ UpdateBreaksOff(c) \/ InvalidateEntities(c)
  \/ ChangeAccess(c) \/ ClearCache(c)

StoreNext ==
  \/ \E c \in Calls, k \in Kinds, e \in Entities : Call(c, k, e)
  \/ \E c \in Calls : CallStep(c)
  \/ \E e \in Entities : SoftDeleteEntity(e)
  \/ Tick \/ SessionLost \/ SessionExpires
  \/ \E s \in Servers : ServerDies(s)

StoreSpec == StoreInit /\ [][StoreNext]_storeVars

-----------------------------------------------------------------------------
Caches(values) == {{}} \cup {{x} : x \in [value : values, age : 0 .. Expiry - 1]}

(***************************************************************************)
(* Types of the graph, the caches, the locks and the calls.                *)
(***************************************************************************)
StoreTypeOK ==
  /\ visible \subseteq Entities /\ access \in BOOLEAN
  /\ mutex \in Calls \cup {NoCall}
  /\ monitor \in [Servers -> Calls \cup {NoCall}]
  /\ entities \in [Servers -> Caches(SUBSET Entities)]
  /\ users \in [Servers -> Caches(BOOLEAN)]
  /\ granted \in [Servers -> Caches({TRUE})]
  /\ call \in [Calls -> [at : Steps, kind : Kinds, about : Entities, allowed : BOOLEAN, fromGraph : BOOLEAN,
                         listed : SUBSET Entities]]
  /\ writers \in [Entities -> SUBSET Servers]
  /\ revokedBy \in Servers \cup {NoServer} /\ revokedFor \in 0 .. MaxTicks
  /\ foundBefore \in BOOLEAN /\ lostSession \in BOOLEAN
  /\ started \in 0 .. MaxStarted /\ storeFaults \in 0 .. MaxStoreFaults

(***************************************************************************)
(* Two calls are in callables of the lock at a time only when a ZooKeeper  *)
(* session was lost, and even then not in the same server (LockRepository, *)
(* CuratorLockRepository).                                                 *)
(***************************************************************************)
OneInside ==
  \A c, d \in Calls : Inside(c) /\ Inside(d) /\ c # d => lostSession /\ ServerOf[c] # ServerOf[d]

(***************************************************************************)
(* A server that updated an entity never afterwards has a cached list      *)
(* without it, until it is removed: no list that was read before gets into *)
(* the cache after the update cleared it, because both hold the lock - and *)
(* also when the ZooKeeper session was lost (updateEntitiesOnWorkspace,    *)
(* findEntities).  Removals take no lock and clear nothing, so there is no *)
(* such promise for them.                                                  *)
(***************************************************************************)
OwnUpdatesSeen ==
  \A e \in Entities : \A s \in writers[e] :
    (\A c \in CallsOf(s) : call[c].at = "written" /\ call[c].kind = "update" => call[c].about # e)
    => \A x \in entities[s] : e \in x.value

(***************************************************************************)
(* A member whose access was taken away passes no check after twice the    *)
(* time things are cached for: a list that is about to expire may grant    *)
(* for as long again (usersWithAccessCache, usersWithCommentAccessCache).  *)
(***************************************************************************)
RefusedInTime ==
  [][\A c \in Calls :
       call[c].at \in {"check", "checked"} /\ call'[c].at = "monitor" /\ ~access
       => revokedFor < 2 * Expiry - 1]_storeVars

(***************************************************************************)
(* The server that took the access away grants nothing from its caches     *)
(* once that call is over, unless a check had read the old access before   *)
(* and put it into the caches after they were cleared (clearCache).        *)
(***************************************************************************)
RevokedWhereRevoked ==
  \A s \in Servers :
    /\ revokedBy = s /\ ~foundBefore
    /\ \A c \in CallsOf(s) : call[c].at = "written" => call[c].kind = "update"
    => granted[s] = {} /\ \A x \in users[s] : ~x.value

(***************************************************************************)
(* What is waited for is held by a call that goes on: the monitor of a     *)
(* server by one that waits for the mutex, for thirty seconds, or is in    *)
(* the callable, and the mutex by one in the callable, unless a server     *)
(* died with it and its session has not expired yet.  So no call waits for *)
(* ever (LockRepository, Lock.acquire, release in finally).                *)
(***************************************************************************)
HoldersGoOn ==
  /\ \A s \in Servers : monitor[s] # NoCall =>
       /\ ServerOf[monitor[s]] = s
       /\ call[monitor[s]].at = "acquire" \/ Inside(monitor[s])
  /\ mutex # NoCall /\ storeFaults = 0 => Inside(mutex)
=============================================================================
