------------------------------ MODULE ActivityList ------------------------------
(***************************************************************************)
(* The list of the user's tasks in activity/activity.js: long running      *)
(* processes of which the server tells, and what the page itself watches.  *)
(* A message may be about a process the list never had, as it is read once *)
(* and the socket opens later, and a runner may report a process that was  *)
(* deleted (LongRunningProcess).                                           *)
(***************************************************************************)
EXTENDS Naturals, Sequences, SequencesExt

CONSTANTS Tasks, MaxMessages

ASSUME ActivityAssumption == MaxMessages \in Nat

VARIABLES
  tasks,           \* ids in the order of the list
  tasksById,       \* its keys
  removedTasks,
  messages,        \* number of messages so far (history)
  unknownRemoved   \* a task was removed that the list did not have (history)

activityVars == <<tasks, tasksById, removedTasks, messages, unknownRemoved>>

\* Array.indexOf, but 0 for -1
IndexOf(s, t) == SelectInSeq(s, LAMBDA x : x = t)

\* splice(indexOf, 1, ...replacement): at -1 it is the last place that is taken
Splice(s, i, replacement) ==
  LET at == IF i > 0 THEN i ELSE Len(s)
  IN  SubSeq(s, 1, at - 1) \o replacement \o SubSeq(s, at + 1, Len(s))

ActivityInit ==
  /\ tasks \in {<<>>} \cup {<<t>> : t \in Tasks} \cup {<<t, u>> : t \in Tasks, u \in Tasks}
  /\ \A i, j \in DOMAIN tasks : tasks[i] = tasks[j] => i = j
  /\ tasksById = Range(tasks)
  /\ removedTasks = {} /\ messages = 0 /\ unknownRemoved = FALSE

Message == messages < MaxMessages /\ messages' = messages + 1

\* mutant: a report about a removed task adds it again
AddOrUpdateAny(t) ==
  /\ Message
  /\ tasks' = IF t \in tasksById THEN Splice(tasks, IndexOf(tasks, t), <<t>>) ELSE <<t>> \o tasks
  /\ tasksById' = tasksById \cup {t}
  /\ UNCHANGED <<removedTasks, unknownRemoved>>

\* addOrUpdateTask, for longRunningProcessChanged and the start and end of what is watched
AddOrUpdateTask(t) ==
  /\ Message
  /\ IF t \in removedTasks THEN UNCHANGED <<tasks, tasksById>>
     ELSE /\ tasks' = IF t \in tasksById THEN Splice(tasks, IndexOf(tasks, t), <<t>>) ELSE <<t>> \o tasks
          /\ tasksById' = tasksById \cup {t}
  /\ UNCHANGED <<removedTasks, unknownRemoved>>

\* removeTask, for longRunningProcessDeleted
RemoveTask(t) ==
  /\ Message
  /\ removedTasks' = removedTasks \cup {t}
  /\ tasksById' = tasksById \ {t}
  /\ tasks' = Splice(tasks, IndexOf(tasks, t), <<>>)
  /\ unknownRemoved' = (unknownRemoved \/ t \notin tasksById)

ActivityNext == \E t \in Tasks : AddOrUpdateTask(t) \/ RemoveTask(t)
-----------------------------------------------------------------------------
(***************************************************************************)
(* The list and its index name the same tasks, each once, however reports  *)
(* and deletions follow each other, until a task is removed that the list  *)
(* did not have: that removes the last one (splice at -1).                 *)
(***************************************************************************)
ListMatchesIndex ==
  ~unknownRemoved => Range(tasks) = tasksById /\ Len(tasks) = Cardinality(tasksById)

(***************************************************************************)
(* A task that was removed does not come back with a report that is late   *)
(* (removedTasks).                                                         *)
(***************************************************************************)
RemovedStaysAway == removedTasks \cap Range(tasks) = {}

(***************************************************************************)
(* The list is what the reports say, in whatever order they come: it has   *)
(* what its index has, and nothing that was removed.                       *)
(***************************************************************************)
TasksAreListed == ListMatchesIndex /\ RemovedStaysAway
=============================================================================
