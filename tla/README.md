# Visallo in TLA+

Formal models of the concurrent core of Visallo: its work queue, the graph
property pipeline that runs on it, the long running processes that users start,
watch and cancel, the stream tee that feeds one source to many readers, the
bookkeeping of who is online, the workspaces of the servers with their locks and
caches, and the asynchronous parts of the page in the browser. Each
model is written from the Java and JavaScript named beside it in `PROJECT.json`
("map") and checked with TLC on small instances; every safety property that a passing run
checks is also proved with TLAPS, for every instance.

Contents: [the system](#the-system), [plan](#plan), [modules](#modules),
[runs](#runs), [proofs](#proofs), [findings](#findings),
[what is not modelled](#what-is-not-modelled).

## The system

Visallo is a web application over a property graph (Vertexium, usually on
Accumulo) with an ingestion pipeline. Web servers and pipeline processes ("runners")
are separate JVMs. They share the graph, RabbitMQ queues, a RabbitMQ broadcast
exchange that reaches every web server and from there every browser, and ZooKeeper.

| Component | State it keeps | Operations | Interacts through | What is hard | What makes it correct |
|---|---|---|---|---|---|
| Work queue and runner loop (`WorkerBase`, `RabbitMQWorkQueueSpout`, `RabbitMQWorkQueueRepository`) | durable queue, unacknowledged messages, a consumer's local queue, `shouldRun` | push, nextTuple, ack, fail, open, stop | every queue of the system | lost connections that the library recovers behind the loop's back, stale delivery tags, prefetch, stop from another thread | no message lost or in two places; repeated work only after a return; priorities mean something; everything is settled |
| Graph property runner (`GraphPropertyRunner`, `GraphPropertyThreadedWrapper`) | two queues per worker thread, the tees of the current stream | process a message, enqueueWork, dequeueResult, stop | work queue, graph, tee | results carry no reference to their work; a ten-second time-out; readers blocked in a stream; elements deleted meanwhile | results of one turn never answer another; an acknowledged message was really processed; nobody waits for ever |
| Tee input stream (`TeeInputStream`) | cyclic buffer, offsets, one offset per branch | loop, read, close | runner and worker threads | wrap-around, back pressure, wait/notify, arithmetic with every branch closed | each branch gets the source, in order, once |
| Long running processes (`LongRunningProcessRunner`, `VertexiumLongRunningProcessRepository`, routes, activity pane) | JSON in a vertex and its copy in a message, rows in a browser | enqueue, beginWork, reportProgress, ack, nak, cancel, delete | graph, queue, broadcast | read-modify-write without locks, two runners on one process, broadcasts out of order | a process that is over looks over; results and cancels are not lost without reason |
| Queue producers (`WorkQueueRepository`) | none | pushGraphPropertyQueue, pushElement, broadcasts | queue, broadcast | order of flush, push and broadcast; property named in a message may be gone | what is queued is in the graph |
| Locks and leader election (`LockRepository` and its three implementations) | a monitor per name, a ZooKeeper mutex | lock, leaderElection | everything that says `lockRepository.lock` | thirty-second time-out under a monitor, lost ZooKeeper session | exclusion while the session lives; whoever holds a lock goes on |
| User sessions and messaging socket (`CuratorUserSessionCounterRepository`, `Messaging`) | a node per session, the user's status | updateSession, deleteSession, deleteOldSessions | ZooKeeper, broadcast | count-then-delete, deletions in the background, old sessions deleted by a cleaner, logout before disconnect, dead servers | an entry per open socket, none of one that was closed, a status that follows the entries |
| Workspaces (`VertexiumWorkspaceRepository`, `WorkspaceRepository`) | edges to users and entities, six caches of fifteen seconds | share, revoke, update, publish, undo, delete | graph, locks, browser | caches filled with what was read before they were cleared, in many JVMs; publishing item by item | access never outlives its revocation by more than the caches; a server lists what it updated; publishing keeps edges between public vertices |
| Notifications (`SystemNotificationRepository`) | notifications with dates | the leader's scan | leader election, broadcast | a new leader, notifications at the edge of a scan | each active notification is sent |
| Users and authorizations (`AccumuloAuthorizationRepository`) | the authorizations of the graph's own user | add, remove | locks | read-modify-write of the whole list | none lost |
| External resource workers | threads | start | queue | the loop is WorkerBase's | as the loop |
| Ontology, graph and term mention repositories | vertices | sequential graph calls | graph | sandbox rules of term mentions | part of publishing |
| Graph property worker plugins | none of their own | execute | runner, graph, queue | what they compute | abstract in the runner's model |
| Web routes and authentication | HTTP sessions | request handlers | the repositories | little of their own | that of the repositories |
| Data requests (`withDataRequest`, `data-worker`) | requests by id, timers, a throttled queue of messages | dataRequest, cancel, time-out, answer | a web worker, XHR | answers after a time-out or cancel, nodes that leave the document, messages that cannot be posted | one answer per request, in order for saves; each is settled |
| Workspaces of a tab (`withWorkspaces`, `store`, `UndoManager`) | the shown and the current workspace, undo stacks, the worker's store | update, undo, redo, switch, remote change | data requests, the socket | remote changes and switches while a save is under way; answers are for nobody | page, worker and server end alike |
| Panes: unpublished changes, activities, selection, search | marks, rows, selected objects, one running request | clicks, reports, answers | data requests, the socket, events | events that drag others along or come in another order | what is shown and marked is consistent |
| Graph, map, detail and other panes | what libraries keep | rendering | the store, the selection | little of their own | - |
| Tools, YARN launchers, data sets, SQL plugin | - | batch programs, an alternative store | - | no protocol of their own | - |

`PROJECT.json` lists the hazards one by one with the line at which each bites.

## Plan

1. **Done: pipeline core.** `WorkerBase` over an abstract `AtLeastOnceQueue`;
   `TeeInputStream` over `TeeStreams`; `GraphPropertyRunner`, which abstracts
   the tee to "open or closed" and the queue to the status of a message;
   `LongRunningProcess`, which uses `AtLeastOnceQueue` as its queue.
   **Done: user sessions** (`UserSessions`): an entry per socket in ZooKeeper, three
   parties that remove them, and the status that should follow them.
   **Done: locks and workspaces of the servers** (`WorkspaceStore`): the lock of
   `LockRepository` with its two levels, and access to and contents of one
   workspace behind three caches per server.
   **Done: the page** (`DataRequest`; `WorkspaceSync`, which takes from it that an aborted
   or cancelled request is silent; the panes `DiffPanel`, `ActivityList`,
   `ObjectSelection` and `SearchPane`).
2. **Publishing** (`Publish`): sandbox states of vertices, edges and properties with a
   list of items that fail one by one; undoing; deletion of a workspace.
   Composes with the marks of `DiffPanel`.
3. **Leader election and notifications**: the leader's scan, a new leader, and an
   exception that ends the scan while leadership is kept.
4. **Authorizations**, over the lock of `WorkspaceStore`.
5. **Producers** (`GraphPropertyQueue`): what is flushed, pushed and broadcast, and
   in which order, composed with the runner's reading of it.
6. **Done: theorems** about every safety property of the modules above, their action
   properties and the three refinements (`ImplementsQueue`, `ImplementsStreams`, `UsesQueue`).
   The modules of 2 to 5 are to come with theirs.

## Modules

### AtLeastOnceQueue
What those who push messages may rely on: a message is unsent, ready, held by one
consumer, or settled; it may come back from "held" to "ready" (several at once, when a
consumer goes away) and never leaves "acked" or "rejected". One variable, `place`.

### WorkerBase (refines AtLeastOnceQueue)
`WorkerBase.run` with the RabbitMQ spout; `QueueExternalResourceWorker` has the same
loop. `process` is abstract: it returns (`Ack`) or throws (`Fail`; `basicNack` without
requeue, so the message is gone).

| Model | Code |
|---|---|
| `Push`, `Level` | `pushOnQueue`, `toRabbitMQPriority` |
| `Open` | `prepareWorkerSpout`, `RabbitMQWorkQueueSpout.open` |
| `BeginLoop`, `EndLoop`, `Stop` | `shouldRun = true` at the head of `run`, its loop condition, `stop` |
| `NextTuple`, `NextTupleThrows` | `nextDelivery(100)` with something in the local queue; or shut down and empty |
| `Ack`, `Fail`, `SettleThrows` | `workerSpout.ack` and `fail`; on a closed channel both throw and leave `run` |
| `Deliver`, `ReturnUnacked`, `SettleLiveTag`, `SignalShutdown` | external: broker and client library |
| `ConnectionLost`, `ConnectionRecovers`, `Crash`, `Exit` | connection loss, `setAutomaticRecoveryEnabled(true)` in `RabbitMQUtils`, death, end of the main thread |

`inbox` is the `QueueingConsumer`'s local queue, `unacked` the broker's view. After a
recovery the two disagree: the consumer object was told of the shutdown and only drains
what it has, while the broker delivers to the new subscription. `shouldRun` is not
volatile, so `NextTuple` does not require it.

### TeeStreams and TeeInputStream (refines TeeStreams)
`TeeStreams` says what a branch is promised: the bytes of the source in order, an end
only at the end, and at most `Capacity` bytes between the slowest reader and the source.
A byte is its position in the source, which tells repeats, gaps and swaps apart.
`TeeInputStream` has one action per synchronized block: `CheckClosed` (reads `closed`
without the lock), `Loop` (`updateOffsets`, one or two reads of the source, `notifyAll`),
`LoopFails` (the source throws in either of them), `ReadByte`, `ReadBytes`, `ReadAtEnd`, `ReadWaits`, `Close`.
`Delta` computes the `(int)` cast of the code with every tee closed. `ReadByte` keeps
the sign of a byte as the code does: 0xFF reads as the end (`HighBytes`), which the
abstract specification admits openly.

### GraphPropertyRunner
One runner JVM: the runner thread and one thread per worker. The runner's `pc` follows
`process`: look up the element, for each property enqueue work on the interested
wrappers, pump the tee, collect one result per wrapper, acknowledge or reject.
A wrapper takes work, executes (and may block on its stream), adds a result and then
closes the stream. The label that ties a result to a turn is history: no guard of the
runner reads it. `GiveUp` is an exception after work was handed out; `late` remembers the
wrappers left with it. Two details matter and are kept: `dequeueResult(false)` has a
ten-second limit and `dequeueResult(true)` none, and `stopped` is a plain field that
`run` resets. `process` of an element walks its properties; a null property
(the element itself) is one more member of `Properties`. The order in which the properties come is
arbitrary, as in the graph. The deletion of a property that interests no worker is left out, as
it would only spare the runner a step.

### LongRunningProcess (uses AtLeastOnceQueue)
The JSON of a process is the set of its keys. Every read of a vertex and every
write of it are steps of their own, as nothing locks them; so is each broadcast.
`item` is the message's copy, which `ack` and `nak` store over the vertex; `json` is what
`reportProgress` read. `stale` is a runner whose connection was lost and whose message
may be with another. `row` and `removed` are the browser's `tasksById` and
`removedTasks`. Broadcasts reach the browser in the order they are sent and none is
lost: a browser that reconnects loads the list anew.

### UserSessions
Who is online. A messaging socket has a node in ZooKeeper (`entry`), under its user's
(`userNode`); the user has a status in the graph (`status`), which is also broadcast
(`told`). Every call to ZooKeeper, to the graph or to the broadcast is a step.

| Model | Code |
|---|---|
| `opening`: `Get`, `SetActive`, `AnnounceActive`, `Register`, `CreateUser`, `CreateEntry`, `SetSessionData` | `Messaging.onRequest`, `onOpen`, `setStatus`, `updateSession`; the response is suspended (`Opened`) when they return |
| `closing`: `Disconnect`, `CheckExists`, `DeleteEntry`, `CountAfterDelete`, `SetOffline`, `AnnounceOffline` | `onDisconnectOrClose`, `deleteSession` |
| `unbinding`: `Login`, `Logout`, `LogoutDeleteSession`, `Unbind`, `UnboundDeleteSession`, `UnboundOffline`, `AnnounceUnbound` | `Logout`, `CurrentUser`, `SessionUser.valueUnbound` |
| `background`, `RunBackground` | `deleteInBackground`: done later, whatever is there by then |
| `cleaner`: `BeginPass`, `ListSessions`, `CheckAge`, `ReadData`; `Tick` | `deleteOldSessions`, called in a loop by the leader (`WebCuratorUserSessionCounterRepository`) |
| `Crash`, `ChangeLeader` | a server that dies, with its calls and sockets; a new leader |

`Logout` and `SessionUser` call `deleteSession` with the id of the HTTP session, which is
the name of no node: they count, and may delete the user's node, but delete no entry.
Names and data of nodes are abstract: an entry has an age and says whether it may be
deleted by age, and a node whose data was never written ("default") may. `left` (sockets whose disconnect nobody handled) and `mixed` (users for whom
calls of different kinds overlapped) are history: no guard reads them. The deletion
of a node with its children is one step, clocks agree, and a request takes less than the
five minutes between making a node and writing to it.

### DataRequest
How a component of the page asks the data worker for something, and everything that can
come between. `requests` and `timers` are the page's tables, `channel` the worker's
throttled queue with the batches it has posted, `inDom` and `attached` say on which node the
answer is triggered and whether it is still in the document.

| Model | Code |
|---|---|
| `DataRequest`, `Register`, `Heard` | `dataRequestFromNode` up to and after `Promise.require`; the event that bubbles to `handleDataRequest` |
| `Cancel`, `Timeout` | `promise.cancel` with the `cancel` and `abort` it passes on; the four-second timer |
| `StartRequest`, `StartThrows`, `Answer`, `Completed` | the worker's `dataRequest` handler and `ajax` |
| `AbortPrevious`, `SaveUnchanged` | `abort.js` around `save`; a save without anything to save |
| `DispatchMain`, `DrainTimeout`, `SendRatePasses`, `DrainMessageQueue` | the throttle of `data-worker.js` |
| `ProcessBatch`, `SuccessIn`, `AnsweredIn` | `onDataWorkerMessage`, `dataRequestCompleted`, `cleanRequest` |
| `Detach`, `Attach` | external: components come and go |

Reads and saves are told apart because a save aborts the one before it; everything else a
service computes is left out.

### WorkspaceSync
One tab. The page has a current workspace and one that it shows, the worker another idea
of the current one (`publicApi`, the values posted to it) and a store; in between there are
saves, loads and messages. `UpdateWorkspace`, `Perform`, `SwitchWorkspace` and the like are
the page's handlers, `StartSave`, `GetWorkspace`, `WorkspaceGot`, `WorkspaceChange`,
`Updated` the worker's, `Serve` and `RemoteChange` the server, which is external. The
worker's store is changed by an own save when it is answered and by another's when the
socket says so, after new vertices were fetched. `disturbed` and `late` are history: they name
the workspaces with two changes in motion together, and the saves shown as saving after
their answer.

### DiffPanel, ActivityList, ObjectSelection, SearchPane
Four panes, each one file of the page or a few.

- `DiffPanel` (`diff.js`): rows for vertices, edges and properties that are new, changed or
  gone, with a mark each. `Publish` and `Undo` drag along what the code drags along
  (`Needs`, `Below`, `Above`), `SelectAll` clicks row after row (`Click`, `Clicked`), each click with
  what the ones before it dragged along, `DiffsChanged` renders anew.
  `cleared` and `released` are history for the two exceptions below.
- `ActivityList` (`activity.js`): `tasks`, `tasksById` and `removedTasks`, with the `splice` of
  the code, -1 included.
- `ObjectSelection` (`withObjectSelection.js`): `selectedObjects`, what was published, and
  that both may be one object (`shared`), on which `_.isEqual` and in-place changes depend. Ids are
  looked up in the worker's cache (`LookUp`, `storeHelper.js`) and the others read at the server (`Read`);
  `kept` are the objects the worker has not told the page were deleted (`TellDeleted`), which is
  later than the deletion (`Delete`), as it asks the server first. `CachedAgain` is an older answer to another
  request that puts a deleted object into the cache once more.
- `SearchPane` (`search.js`, `typeVisallo.js`, `withSearch.js`, `list.js`): one `currentRequest` for
  searches and for more of their pages, lists that are torn down with a timer running. From
  `DataRequest` it takes that a request cancelled after its registration (`Register`) is silent; one
  cancelled before goes on (`Cancel`, `loose`), and may come back last. A list is attached (`Attach`) before
  it renders (`Render`), and its teardown in between throws (`TeardownThrows`).

### WorkspaceStore
One workspace on several servers. A call is a thread of a server: it checks access
(`Lookup`, `Conclude`: two caches, filled after the graph was read), enters the monitor of the
server and then the mutex of all (`EnterMonitor`, `Acquire`, `AcquireFails`, `Release`), and in
it lists entities (`FindEntities`, `CacheEntities`), updates one (`UpdateEntity`,
`InvalidateEntities`) or changes the member's access (`ChangeAccess`, `ClearCache`). The
removal of entities takes no lock and clears no cache (`SoftDeleteEntity`), as in the code.
`Tick` is the clock of the caches; `SessionLost`, `ServerDies`, `SessionExpires` and
`UpdateBreaksOff` are the faults. Four assumptions: a flushed
change of the graph is seen by every server, also through a cached vertex; between reading
something and caching it no tick passes; the owner's own access does not
change; and the cache of readers is left out because nothing ever fills it
(`usersWithReadAccessCache`). Access is checked before the lock is waited for, so a call may
act on it long after: the properties speak of the check.

### Parts
Puts `DiffPanel`, `ActivityList`, `ObjectSelection`, `SearchPane` and `WorkspaceStore` under
one specification, in which one of the five is at work. They share no state, so interleaving
them would only multiply states. `StoreIsAPart` proves that `WorkspaceStore` behaves in it as it does alone.

## Runs

All bounds are constants of the cfg files or of these tables. Deadlock is checked in the
session runs, whose cleaner never stops; it is not an error in the others because each of
those systems legitimately comes to rest once its bounded input is used up, and the
liveness properties, or those that speak of rest, check that it does not rest too early.

| Run | Checks | Instance | Why it is enough |
|---|---|---|---|
| `queue` | `OnePlace`, `RepeatsOnlyAfterReturn`, `NoConcurrentProcessing`, `ImplementsQueue`, `OvertakenOnlyByPrefetched`, `EveryMessageSettles` | 2 messages, one of high priority, 2 runners, prefetch 1, 2 faults, runners may be stopped | a stale runner, its successor and a second fault that hits either; a low message prefetched when the high one comes; the first five are proved for every instance |
| `runner` | `TurnsAreSeparate`, `HonestAck`, `ReadersReleased`, `MessagesSettle` | 2 workers, one of which closes its stream early, 2 messages, a streamed and a plain property, 1 fault (a failing source or loop, a shutdown, a deletion or a crash) | a late result meets the next turn of the same property or of another |
| `tee` | `WindowHoldsUnreadBytes`, `ImplementsStreams`, `EveryReaderEnds`, `LoopEnds` | 3 tees, buffer 3, source 5, a byte 0xFF, failing source | the buffer wraps, with reads longer than it; readers wait at either end of it |
| `process_safety` | `RowsFollow`, `NothingLooksRunning`, `UsesQueue`, `ResultsKept`, `CancelLostOnlyToRunner` | 1 process, 2 runners, cancel and delete, 1 report, 1 fault | a stale runner and the one that takes over race each other, the cancel and the deletion; processes share nothing but runners |
| `process_liveness` | `EveryProcessFinishes` | 2 processes, one that no worker handles, 2 runners | the unhandled one does not block the other |
| `session_safety` | `ClosedIsUncounted`, `StatusFollowsEntries` | 1 user, 1 browser with a web socket and a polling tab, 2 opens, 1 crash | two sockets race for the last place, and either comes back under its name; users share nothing |
| `session_liveness` | `PollingEntriesGo` | 1 polling tab, 2 opens, 2 crashes | a server dies in the middle of an open and the leader in the middle of a pass, or twice either |
| `session_count` | `CountIsAsDocumented` violated | as `session_safety`, no crash | see findings |
| `session_gone` | `GoneLeavesNothing` violated | no crash, no expiry of the HTTP session | see findings |
| `requests` | `EntriesMatchPromises`, `CancelledStaysSilent`, `SavesFulfilInOrder`, `ThrottledMessagesGo`, `EveryRequestSettles` | 2 requests, 1 broadcast, 1 fault | two saves abort each other, or one request waits behind the other or the broadcast in the throttle |
| `workspace` | `TabFollowsServer`, `UndoPutsBack`, `WaitingEnds` | 2 workspaces, 1 vertex, 1 position, 3 events, 1 fault | two changes in motion while a third event switches, undoes or deletes; vertices share nothing but the messages |
| `parts` | `MarksAreWhole`, `TasksAreListed`, `SelectionIsTrue`, `ShowsTheSearch` | 5 rows and 1 new rendering; 3 tasks, 5 messages; 2 vertices, 2 edges, 2 selections, 2 deletions, failures or late fillings of the cache; 2 queries, 3 pages, 3 events (typing among them), 1 request at a time that outlives its cancelling (`MaxLoose`) | an edge with both vertices and their properties; one task removed that is not there; two answers and a deletion in any order; a scroll, a search and a clearing in any order; two searches in quick succession of which the older comes last, and a list torn down before it rendered |
| | `OneInside`, `OwnUpdatesSeen`, `RevokedWhereRevoked`, `HoldersGoOn`, `RefusedInTime` | 2 servers with 2 and 1 threads, 1 entity, 4 calls, removals or faults (at most 1 fault), caches of 2 ticks, 3 ticks after a revocation | two caches grant one after the other, so that the bound of `RefusedInTime` is reached (with one tick less it fails); the same five are proved for every instance. The two threads of one server are symmetric, which is sound as nothing here is about liveness |

Properties that are conjunctions (`TurnsAreSeparate`, `RowsFollow`, `TabFollowsServer`,
`WaitingEnds`, `MarksAreWhole`, `TasksAreListed`, `SelectionIsTrue`, `ShowsTheSearch`) are made
of named parts that stand before them with comments of their own. No run checks types
alone: they are the first conjunct of every inductive invariant below. All invariants and action
properties of the passing runs are proved for every instance as well; the runs show that the instance
meets the cases, and that a plausible mistake in the code breaks the property.

What the properties say that their names do not: `NoConcurrentProcessing` allows two
runners on one message when one of them has lost its connection, which the code cannot
prevent. `OvertakenOnlyByPrefetched` allows a message to pass one of higher priority only
if a runner had it before the other came. `QuietBetweenTurns` and `HonestAck` except wrappers a turn gave up on, and
`TimeoutOnlyAfterEarlyClose` says when the time-out can strike at all: a worker that
closes its stream and works on. `RowsSettle` excepts a process deleted while its stored
JSON had no id (the deletion is then never broadcast), `NothingLooksRunning` one whose
stale runner died halfway through rewriting the vertex. `StatusFollowsEntries` excepts users
for whom an open overlapped with a removal, a disconnect with the end of the HTTP
session, or something was cleaned or lost: nothing in the code orders those calls, and the
status may then stay wrong. The property says how far the status can be trusted.
`ClosedIsUncounted` has no such exception: only a dead server or a logout leaves an entry.
`EveryReaderEnds` excepts readers `HeldUp` by a source that failed, which nobody tells them,
or by a reader that took 0xFF for the end. `EveryRequestSettles` lists in `StaysOpen` every way
for a promise to stay open. `StoreFollowsServer` excepts workspaces that are `disturbed`,
`UndoPutsBack` workspaces that a load got without the page being told (`Halved`),
`SavingEnds` saves that failed, threw or were aborted while the 250 ms timer ran, and a page
that shows no workspace, whose overlay throws when a save is answered, and
`SwitchEnds` loads that failed: in each case nothing in the code would tell the page.
`ShowsTheSearch` excepts searches that failed, were `overtaken` by an earlier one that waited for the
ontology, were cancelled by a request for more (`interrupted`), or were replaced by one that was cancelled
too early and went on (`outlived`), and lists that were torn down unrendered (`broken`).
`DeletedNotSelected` excepts objects that come from the cache or from a reading older than the word
of their deletion (`outdated`). `NothingLooksRunning` and `ResultsKept` except a process that is run again:
the code means the new run to overwrite the old one. `ListMatchesIndex` excepts the `splice` at -1.
`PublishedWithElements` and `UndoneWithDependents` except elements whose mark was
taken along when another was taken back. `OwnUpdatesSeen` promises to a server what that server
updated, not what others did. `RevokedWhereRevoked` is the clearing of the caches on the one
server that took the access away; `RefusedInTime` bounds all others: a cache of users that is
nearly twice as old as its time can be granted from once, and what was granted lives as long
again. `HoldersGoOn` says without fairness what no deadlock means: a monitor is held by a call of
its server that waits for the mutex, for thirty seconds at most, or is in the callable, and the
mutex, while nothing has failed, by a call in the callable.

Fairness. A thread that can take a step is scheduled (weak fairness of the runner, of
each wrapper's steps, of the pump). Workers return: `Execution` is fair, since a
worker that never returns stops the pipeline by design (`dequeueResult(true)`
waits for ever). The broker delivers. A runner process that ended is started again
(`Exit`, `Open`), which is what the supervising YARN or script does and what the code
relies on, as `run` never closes its spout. Nothing else is fair: no time-out, failure,
stop or user action has to happen. `EveryReaderEnds` assumes that a worker reads on until
it is told of the end; one that neither reads nor closes stops the pump, and the code
has no remedy. Calls of the web server run to their end in `process_liveness`;
one that dies between `enqueue`'s write and its push leaves a process that never runs,
which the property leaves out and the hazard list names. In the session runs calls
return (`OpenStep`, `CloseStep`, `UnbindStep`), background deletions are done in the end, which
Curator's retries aim at, there is always some leader whose loop goes on, and time passes; nobody has to
open, close, log in or out.
In `requests` the callbacks of promises run before the next event, timers fire, the
worker reads its messages and the server answers each XHR that was not aborted; nobody has to
ask, cancel or attach a node. The runs `workspace` and `parts` assume no fairness at all: what they say
about waiting is said of the states in which nothing is in motion any more, or of holders.

## Proofs

`WorkerBase_proofs` proves, for any finite set of runners, any set of messages,
prefetch count and number of faults (`ConstantsAssumption` and nothing else):

- `TypeCorrect`: `Spec => []TypeOK`
- `EveryMessageInOnePlace`: `Spec => []OnePlace`
- `CallsAreBounded`: `Spec => []RepeatsOnlyAfterReturn`
- `ProcessingIsExclusive`: `Spec => []NoConcurrentProcessing`
- `QueueImplemented`: `Spec => ImplementsQueue`, the refinement of `AtLeastOnceQueue`
- `OnlyPrefetchedOvertake`: `Spec => OvertakenOnlyByPrefetched`

None of the last five is inductive. The inductive invariant is
`IInv == TypeOK /\ Places /\ Loaded /\ Credit`.

- `Places` is `OnePlace` strengthened: what is ready or held has been pushed.
- `Loaded` relates the broker's view to a runner's: what a live runner has in its
  local queue or in its hands is held for it, each message once. The broker alone
  knows nothing of local queues, so exclusion cannot be seen from `Places`; with
  `Loaded`, two live runners with one message would both hold it. A runner whose
  consumer was shut down is excepted, which is the exception of
  `NoConcurrentProcessing`.
- `Credit` bounds calls: the calls made on a message, plus the runners that have it in
  their local queue and will call again, are at most its returns, plus one once it has
  been delivered. A call pays with a place in a local queue, a delivery earns one, a
  return lets the message be delivered again.

The steps are proved action by action on the components they touch: `StepType`,
`StepPlaces`, `StepLoaded` and `StepCredit` each split `Next` with `NextSplit`;
`LocalStepKeepsBroker` disposes of the steps of the loop that leave the broker alone.
`OvertakenOnlyByPrefetched` rests on one more invariant, `Early`: what a live runner's local queue
holds of lower priority was with some runner already (`ahead`) when the message came.
`StepRefines` maps each step to a move of messages between places or to a stutter; the returns of a
lost connection are one `Return` of the set of messages held.

`GraphPropertyRunner_proofs` proves, for any number of workers, any messages and properties and any
number of faults (`ConstantsAssumption`, which asks for one property at least, as every element has a
concept type):

- `TurnsStaySeparate`: `Spec => []TurnsAreSeparate`
- `AcknowledgedIsDone`: `Spec => HonestAck`

The results carry no reference to their work, so that results of one turn answer for that turn
only because each wrapper holds one thing at a time.
`IInv == TypeOK /\ PhaseInv /\ LabelInv /\ OneEntryInv /\ StreamInv /\ DoneInv`.

- `PhaseInv` ties the program counter to the wrappers that work is still to be sent to or collected from.
- `OneEntryInv`: a wrapper that no turn gave up on holds one entry, in its work queue, in its hands or
  in its result queue, from `enqueueWork` to `dequeueResult`, and none otherwise. `LabelInv` says that
  no label is of a later turn, so what is put in a queue now is not there yet.
- `StreamInv`: a tee that is left to the wrapper is closed after its result was added. It is why
  the time-out can strike only with a worker that closes its stream itself.
- `DoneInv`: properties the runner is past have been executed by those they interest.

`TeeInputStream_proofs` proves, for any tees, and buffers and sources of any size:

- `UnreadBytesAreHeld`: `Spec => []WindowHoldsUnreadBytes`
- `StreamsAreImplemented`: `Spec => ImplementsStreams`, the refinement of `TeeStreams`

`IInv == WindowHoldsUnreadBytes /\ SourceInv /\ HistoryInv`. The work is in the
arithmetic: two bytes less than a buffer apart have different slots (`SlotIsUnique`), the slot of a sum
is computed from the slot of the first (`SlotOfSum`), the distance that the `(int)` cast yields is the one
to the slowest tee (`DeltaToSlowest`), and one or two reads of the source fill exactly the slots
that every tee is past (`FilledWindow`, `FillTakes`). `PumpRefines` and `ReadRefines` then
map the steps; the bytes read equal their positions by `UnreadByte`.

`LongRunningProcess_proofs` proves, for any processes, runners, reports and faults:

- `VertexIsFinished`, `BrowserFollows`: the two invariants of `process_safety`
- `ResultsStay`, `CancelStays`: its two action properties
- `QueueIsUsed`: `Spec => UsesQueue`, a refinement of `AtLeastOnceQueue`

with `IInv == TypeOK /\ JobInv /\ WriteInv /\ VertexInv /\ RowInv /\ DeletedIsGone /\ ResultInv`. The
properties speak of a queue that has settled a message; the invariant speaks of the way there.
`Settles(p, steps)` is a message that is settled, or will be by a runner that is still connected and past the
write of the end; `WillEnd(r, p)` is a runner, connected or not, that is going to write the end of `p`
and so repairs what an older copy of the JSON overwrote. `VertexInv` and `RowInv` say that of a
settling process either the end is stored, or shown, or some runner will see to it.
`ResultInv` excepts processes that were run again.

`UserSessions_proofs` proves, for any users, browsers and sockets, any number of opens and
crashes and any two durations in order (`ConstantsAssumption`):

- `SessionTypes`: `Spec => []TypeOK`
- `ClosedSocketsAreUncounted`: `Spec => []ClosedIsUncounted`
- `StatusIsTrue`: `Spec => []StatusFollowsEntries`

`ClosedIsUncounted` speaks of sockets with no call in progress, and a disconnect that
is counting may see an entry come back, made by a request of the same socket that
found none before the deletion. `IInv == TypeOK /\ Fresh /\ Uncounted`: `Fresh` says that a
request about to create its entry still has none, so if it fails it leaves none;
`Uncounted` says of a socket that is neither open nor opening that once its
disconnect is past the deletion its entry is gone, or `left` has it.
`StatusIsTrue` needs one more invariant, `AllCalm`: for a user who is not `mixed`, calls
pass through their steps in the order the code hopes for. A request has a session and finds the
user's node when it makes its entry, a disconnect finds its entry, whoever is about to set OFFLINE
sees no entry, and the status is ACTIVE from the first open to the last count. An action of another
user leaves all this alone (`Spared`, `SparedIsCalm`).

`DataRequest_proofs` proves, for any number of requests, broadcasts and faults:

- `TypeCorrect`, `EntriesMatch`, `CancelledSilent`, `SavesInOrder`

The first three follow from `IInv == TypeOK /\ EntryInv`, where `EntryInv` is
`EntriesMatchPromises` with what is known of ids that are not used yet and of requests that
were cancelled. `SavesInOrder` needs `SaveInv == WorkInv /\ OrderInv`: requests are registered
in the order they are made; once a save has reached its service none before it is still
running there, as it was aborted; and messages keep the order of dispatch through the
queue, the batches and the page's loop.

`WorkspaceSync_proofs` proves, for any workspaces, vertices and positions and any number of events and faults:

- `PageAgreesWithServer`: `Spec => []TabFollowsServer`
- `UndoIsTrue`: `Spec => []UndoPutsBack`
- `NothingIsWaitedFor`: `Spec => []WaitingEnds`

All three speak of moments at which nothing is in motion, or of the past of one action; the
invariant says how each thing in motion will end.

- `StoreInv`: about a workspace that nothing disturbed one thing at most is in motion (`Solo`), and it
  brings the store what the server has (`Brings`): a save that was applied, taken from the store, gives
  the server's state; a load that was got, a message on the socket and one that waits for its vertices
  carry it.
- `PageInv`: the last message to the page about a workspace carries what the store has, or the page has it
  already (`Tells`).
- `UndoInv`: the actions on the two stacks take each other back (`TakesBack`): of an action whose save the
  server took, the undo puts back what was there before, and of one on its way, what is there now.
- `AnsweredInv`, `WaitInv`: whatever the page waits for is on its way; `Types`, `AskedInv`, `LoadInv`
  and `ToldInv` say which saves, loads and messages there can be.

The proof attempt showed that `UndoPutsBack` was false of instances larger than the run's when stated
without an exception: a load that got the workspace and then failed leaves the store with a state that the
page is never told of, and an undo made from then on puts back what the page knew. `Halved` names
those workspaces.

`Parts_proofs` holds the theorems about the five parts.

The servers' workspaces, for any servers, calls, entities, expiry and bounds (`StoreAssumption`):
`StoreTypes`, `MutualExclusion`, `NobodyIsWaitedForIdly`, `UpdatesAreListed`, `RevokedAtOnce` and
`RefusedEverywhere`, of `StoreSpec`, with
`StoreInv == StoreTypeOK /\ LockInv /\ UpdateInv /\ RefuseInv /\ RevokeInv`. `StoreIsAPart` is
`Spec => StoreSpec`, so they hold of the whole.

- `LockInv`: a call from its entry into the monitor to its release holds the monitor of its
  server, and unless a session was lost whoever is inside holds the mutex.
- `UpdateInv`: a list of entities that is cached, or that a call has read and is about to cache, has
  what its server updated. The second is where the lock is needed: the reader and the writer of one
  server hold the same monitor, so this survives a lost session.
- `RefuseInv`: whatever still grants is at least as old as the revocation, counted from when it
  was read from the graph; a grant that a cache of users gave adds at most one less than `Expiry`.
- `RevokeInv`: on the revoking server nothing found since says yes, and what was found before is in
  `foundBefore`.

The four panes, each with its own invariant:

- `MarksStayWhole` (`DiffPanel`): `MarksAreWhole` is inductive, but a click on all rows is many clicks in one
  step. `PublishedWhole` and `UndoneWhole` show that one click keeps the marks whole as compared
  with those before the step; the run of clicks follows by the least row at which
  they would not be, as induction over data is out of reach. `NeededIsAbove`, `BelowBelow` and `AboveAbove`
  relate the dependencies.
- `ActivitiesAreListed` (`ActivityList`): `ListInv` says that no task is listed twice and that all are in
  the index; what `indexOf` finds and `splice` leaves, also at -1, are lemmas.
- `SelectionStaysTrue` (`ObjectSelection`): `SelectionInv` adds to the property that of each object which is
  selected, or is in an answer on its way, the page is told later if the worker has heard of its
  deletion (`Known`), unless it was read too early. What the worker has not heard of is in `kept`.
- `SearchIsShown` (`SearchPane`): `SearchInv` adds that what is asked for next is the page after those shown
  (`MoreFollows`), and that what waits for the ontology was submitted before the last
  submission, or is that one (`WaitingInv`). Requests that were cancelled too early are any number
  (`LooseInv`); a search that comes back and was not cancelled is of the query submitted last, unless it was
  overtaken (`RunningInv`); lists render in their order (`ListShape`), so the last one that is still to
  render (`LastUnrendered`) is what the pane will show, and of the query looked for (`UpcomingInv`).

Only model-checked: the properties that need fairness, beyond this prover, namely `EveryMessageSettles`,
`ReadersReleased`, `MessagesSettle`, `EveryReaderEnds`, `LoopEnds`, `EveryProcessFinishes`,
`PollingEntriesGo`, `ThrottledMessagesGo` and `EveryRequestSettles`, and the two runs that end in a violation.

## Findings

- `session_count`: `UserSessionCounterRepository` promises the number of sessions after
  deleting. A disconnect whose node vanishes between the check and the delete catches the
  exception and returns 0, and the user is set OFFLINE with another tab open.
- `session_gone`: after a logout the disconnect returns early, on the assumption that the logout
  cleaned up; but that used the id of the HTTP session, and the entry has the socket's
  uuid. A web socket's entry is never cleaned by age, so it stays for ever.

Met while modelling, and part of the models without a run of their own:

- One property whose processing throws ends the message, and the spout rejects it without
  requeueing: the properties after it reach no worker, although `docs/architecture.md`
  gives every worker the opportunity to inspect a change.
- After the last `close` the cast of `Long.MAX_VALUE - offset` to `int` leaves
  `cyclicBufferOffset` at -1 and the valid size too large. No reader is left to see it, and
  `LoopEnds` holds.
- Data requests: "fulfills or rejects, or times out" (comment in `withDataRequest.js`) is not so for a
  request whose node left the document before it was registered: its event bubbles nowhere, nor does
  its time-out. `StaysOpen` names this and the other cases.
- Workspaces of a tab: a save names no workspace, so one asked for just before a switch may land in the
  workspace switched to. A save that is aborted may have been applied, and nobody then tells the store:
  the server's broadcast leaves out the session that made the change, its other tabs included
  (`MessagingFilter`). A save that fails leaves its timer, so "saving" is shown after it.
  The inverse of an addition is a change of nothing. Redos stay after a new action. An update
  between a switch and its load throws with the timer running, and a save that is answered there
  triggers `workspaceSaved` without data, on which the overlay throws (`overlay.js:210`) before it shows
  "saved": if the load then fails, "saving" stays for a save that succeeded. A workspace that is deleted
  elsewhere takes every tab that knows it to another one.
- Unpublished changes: taking an undo back clears the publication marks of the elements above; taking a
  publication back clears the undo mark of an edge whose other vertex stays undone.
- Search: a request for more results cancels a search that runs, which then shows as loading, and pages of the
  new query are appended to the old list. A list that is gone asks for more with its timer.
  A request that is cancelled before `Promise.require` calls back is sent and answered all the same
  (`withDataRequest.js:86-93`), so of two searches close together the older may replace the list last.
  A list that is torn down before the worker has sent the workspace's vertices has no `scrollNode`, and its
  teardown throws (`list.js:188`): the field stays loading, the new results are not attached, and the old
  list renders after all.
- Activities: the removal of an unknown task removes the last row (`splice` at -1), and reports about
  the removed row's task then replace others.
- Selection: the removal of one of several selected edges is not published; a selection that was changed in
  place equals the one published before and is not published again; what the worker's cache or the
  server returned may have been deleted, and the page told so, by the time it is selected.
- Workspaces of the servers: an update that fails at a missing vertex leaves the edges before it stored,
  unflushed, and caches as they were. Removed entities are listed for up to fifteen seconds, also in the
  broadcast of an update.
- A tab that polls again between the cleaner's check of its age and the background
  deletion loses its fresh entry.

## What is not modelled

- The broadcast exchange losing messages, and the socket: broadcasts arrive.
- Start-up of the runner: preparing workers, the status server; both happen before the
  first message and are sequential.
- Metrics, timers, logging and the pausing of timers in the tee.
- What a worker or a long running process computes, and the content of messages
  beyond what the properties tell apart.
- Weak memory beyond the plain fields `stopped` and `shouldRun`, whose writes may go unseen.
- Process-wide failures of the graph or of the broker. The `IOException`s that the spout's `ack` and
  `fail` catch and log; a channel that is closed throws another exception, which is modelled.
- In the tee, the sign of bytes other than 0xFF: `read()` returns every byte from 0x80 up negative, and
  the model tells only the one apart that is taken for the end.
- In user sessions: `deleteSessions` of a user who is deleted, the broadcast that
  a session expired, the switch of workspaces over the socket, clocks that disagree, and the entry
  of a web socket whose server died, which nothing removes (`Messaging` sets no age for it).
- On the servers: creation, copies, differences, publishing (item by item, in `WorkspaceRepository`) and
  deletion of workspaces; vertices of the graph store that are cached and list their edges later; leader
  election, and the notification scan, whose exception ends the thread while leadership is kept
  (`SystemNotificationRepository`).
- On the page: progress messages and the start of the data worker; sharing and titles of workspaces,
  edges of a workspace and its cached vertices (`ObjectSelection` has those that are selected); the application of marks while a new rendering
  enables the buttons again; the history of selections; saved queries and filters' own fields.
- The graph, map and detail panes and the other rendering code, much the largest part of the page: they draw
  what the store and the selection hold, and what they keep is kept by cytoscape and OpenLayers.
- The components with status `not_modelled`: those of the plan, and those without a
  protocol of their own (ontology loading, plugins, batch tools, the SQL store).
  About half of the lines in the tree's own directories are libraries that come with it (`r.js`,
  moment, underscore, date.js under `formula/libs`) and most of the rest is rendering, form
  fields, ontology loading and tests of single functions. The models follow the code in which steps of several
  actors meet, which is a small share of the lines.
