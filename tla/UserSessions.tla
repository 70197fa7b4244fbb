----------------------------- MODULE UserSessions -----------------------------
(***************************************************************************)
(* Which users are online.  Each messaging socket of a browser has an      *)
(* entry under its user's node in ZooKeeper; when a socket goes and the    *)
(* user has no entry left, the user's status becomes OFFLINE.  Three       *)
(* parties remove entries: the handler of a socket's disconnect, the       *)
(* deletion of a user's node with everything under it, which ZooKeeper     *)
(* does in the background, and a cleaner, run by one server, that looks    *)
(* for entries nobody has updated for a while.  Each call to ZooKeeper is  *)
(* a step of its own; nothing makes two of them atomic.                    *)
(*                                                                         *)
(* An entry is named by the uuid of its socket.  The id of an HTTP         *)
(* session, which Logout and SessionUser hand to deleteSession, is the     *)
(* name of no entry, so their calls delete nothing and only count.         *)
(***************************************************************************)
EXTENDS Naturals

CONSTANTS
  Users,
  Browsers,                 \* HTTP sessions
  Sockets,                  \* uuids of Atmosphere resources
  WebSockets,               \* those with TRANSPORT.WEBSOCKET; the others poll
  Expiring,                 \* browsers whose HTTP session may time out
  UserOf, BrowserOf,        \* of a browser its user, of a socket its browser
  SESSION_UPDATE_DURATION,
  UNSEEN_SESSION_DURATION,
  MaxOpens,                 \* bound on requests that open a socket
  MaxCrashes                \* bound on crashes and changes of leader

ASSUME ConstantsAssumption ==
  /\ WebSockets \subseteq Sockets
  /\ Expiring \subseteq Browsers
  /\ UserOf \in [Browsers -> Users]
  /\ BrowserOf \in [Sockets -> Browsers]
  /\ {SESSION_UPDATE_DURATION, UNSEEN_SESSION_DURATION, MaxOpens, MaxCrashes} \subseteq Nat
  /\ SESSION_UPDATE_DURATION < UNSEEN_SESSION_DURATION

VARIABLES
  \* the web servers
  session,         \* browsers with a user in their HTTP session
  open,            \* sockets that are suspended: connected, or waiting in a poll
  opening,         \* opening[s]: the next call of onOpen
  closing,         \* closing[s]: the next call of onDisconnectOrClose
  unbinding,       \* unbinding[b]: the next call of Logout or valueUnbound
  \* ZooKeeper
  userNode,        \* users with a node under /ids
  entry,           \* entry[s]: the node of socket s
  background,      \* deletions sent with inBackground and not done yet
  cleaner,         \* what is left of the leader's pass over the entries
  \* what users see
  status,          \* status[u] in the graph
  told,            \* told[u]: status that was broadcast last
  \* bounds and history
  opens, crashes,
  left,            \* sockets whose disconnect was not handled
  mixed            \* users for whom calls of different kinds overlapped

webVars     == <<session, open, opening, closing, unbinding>>
zooVars     == <<userNode, entry>>
statusVars  == <<status, told>>
vars == <<webVars, zooVars, background, cleaner, statusVars, opens, crashes, left, mixed>>

OpenSteps   == {"idle", "active", "announce", "register", "createUser", "create", "write"}
CloseSteps  == {"idle", "exists", "delete", "count", "offline", "announce"}
UnbindSteps == {"idle", "logout", "clear", "count", "offline", "announce"}

\* Curator gives a new node some bytes that are no SessionData.
Absent  == [age |-> 0, data |-> "absent"]
MaxAge  == UNSEEN_SESSION_DURATION + 1
Entries == [age : 0..MaxAge, data : {"default", "keep", "autoDelete"}] \cup {Absent}

User(s)         == UserOf[BrowserOf[s]]
SocketsOf(u)    == {s \in Sockets : User(s) = u}
BrowsersOf(u)   == {b \in Browsers : UserOf[b] = u}
Exists(s)       == entry[s] # Absent
EntriesOf(u)    == {s \in SocketsOf(u) : Exists(s)}
UserPath(u)     == <<"user", u>>
SessionPath(s)  == <<"session", s>>
Paths == {UserPath(u) : u \in Users} \cup {SessionPath(s) : s \in Sockets}

SessionData(s) == [age |-> 0, data |-> IF s \in WebSockets THEN "keep" ELSE "autoDelete"]
Resting == [users |-> {}, sessions |-> {}, reading |-> {}]

Init ==
  /\ session = {}
  /\ open = {}
  /\ opening = [s \in Sockets |-> "idle"]
  /\ closing = [s \in Sockets |-> "idle"]
  /\ unbinding = [b \in Browsers |-> "idle"]
  /\ userNode = {}
  /\ entry = [s \in Sockets |-> Absent]
  /\ background = {}
  /\ cleaner = Resting
  /\ status = [u \in Users |-> "OFFLINE"]
  /\ told = [u \in Users |-> "OFFLINE"]
  /\ opens = 0
  /\ crashes = 0
  /\ left = {}
  /\ mixed = {}

-----------------------------------------------------------------------------
(* Calls of the repository that several handlers make.                     *)

\* Mutant: the last but one counts as the last.
NoneOrOneCounted(u) == \E s \in Sockets : EntriesOf(u) \subseteq {s}

\* countUserSessions < 1
NoneCounted(u) == EntriesOf(u) = {}

\* What deleteSession does when nothing is counted.
CountSessions(u) ==
  background' = background \cup (IF NoneCounted(u) THEN {UserPath(u)} ELSE {})

SetStatus(u, value) == status' = [status EXCEPT ![u] = value]
PushStatus(u, value) == told' = [told EXCEPT ![u] = value]

-----------------------------------------------------------------------------
(* A GET of /messaging: onRequest, onOpen, updateSession.                  *)

Opening(s, from, to) ==
  /\ opening[s] = from
  /\ opening' = [opening EXCEPT ![s] = to]

\* A poll is answered and asked again under the same uuid; a web socket
\* that was lost comes back under it, before or after its loss is noticed.
Get(s) ==
  /\ Opening(s, "idle", "active")
  /\ BrowserOf[s] \in session
  /\ s \notin open \/ s \notin WebSockets
  /\ opens < MaxOpens
  /\ opens' = opens + 1
  /\ open' = open \ {s}
  /\ UNCHANGED <<session, closing, unbinding, zooVars, background, cleaner, statusVars, crashes, left>>

SetActive(s) ==
  /\ Opening(s, "active", IF BrowserOf[s] \in session THEN "announce" ELSE "register")
  /\ IF BrowserOf[s] \in session THEN SetStatus(User(s), "ACTIVE") ELSE UNCHANGED status
  /\ UNCHANGED <<session, open, closing, unbinding, zooVars, background, cleaner, told, opens, crashes, left>>

AnnounceActive(s) ==
  /\ Opening(s, "announce", "register")
  /\ PushStatus(User(s), "ACTIVE")
  /\ UNCHANGED <<session, open, closing, unbinding, zooVars, background, cleaner, status, opens, crashes, left>>

\* The response is suspended only when onOpen returns.
Opened(s) ==
  /\ open' = open \cup {s}
  /\ left' = left \ {s}

Register(s) ==
  /\ \/ /\ BrowserOf[s] \notin session   \* getCurrentUserId throws
        /\ Opening(s, "register", "idle")
        /\ left' = left \cup {s}
        /\ UNCHANGED open
     \/ /\ BrowserOf[s] \in session
        /\ Exists(s) /\ entry[s].age > SESSION_UPDATE_DURATION
        /\ Opening(s, "register", "write")
        /\ UNCHANGED <<open, left>>
     \/ /\ BrowserOf[s] \in session
        /\ Exists(s) /\ ~(entry[s].age > SESSION_UPDATE_DURATION)
        /\ Opening(s, "register", "idle")
        /\ Opened(s)
     \/ /\ BrowserOf[s] \in session
        /\ ~Exists(s)
        /\ Opening(s, "register", "createUser")
        /\ UNCHANGED <<open, left>>
  /\ UNCHANGED <<session, closing, unbinding, zooVars, background, cleaner, statusVars, opens, crashes>>

\* tryCreate does not mind a node that exists.
CreateUser(s) ==
  /\ Opening(s, "createUser", "create")
  /\ userNode' = userNode \cup {User(s)}
  /\ UNCHANGED <<session, open, closing, unbinding, entry, background, cleaner, statusVars, opens, crashes, left>>

\* Without the parent there is an exception and the request fails.
CreateEntry(s) ==
  /\ \/ /\ User(s) \in userNode /\ ~Exists(s)
        /\ Opening(s, "create", "write")
        /\ entry' = [entry EXCEPT ![s] = [age |-> 0, data |-> "default"]]
     \/ /\ ~(User(s) \in userNode /\ ~Exists(s))
        /\ Opening(s, "create", "idle")
        /\ UNCHANGED entry
  /\ UNCHANGED <<session, open, closing, unbinding, userNode, background, cleaner, statusVars, opens, crashes, left>>

SetSessionData(s) ==
  /\ Opening(s, "write", "idle")
  /\ \/ /\ Exists(s)
        /\ entry' = [entry EXCEPT ![s] = SessionData(s)]
        /\ Opened(s)
     \/ /\ ~Exists(s)
        /\ UNCHANGED <<entry, open, left>>
  /\ UNCHANGED <<session, closing, unbinding, userNode, background, cleaner, statusVars, opens, crashes>>

OpenStep(s) ==
  \/ SetActive(s) \/ AnnounceActive(s) \/ Register(s)
  \/ CreateUser(s) \/ CreateEntry(s) \/ SetSessionData(s)

-----------------------------------------------------------------------------
(* The socket goes: onDisconnectOrClose, deleteSession.                    *)

Closing(s, from, to) ==
  /\ closing[s] = from
  /\ closing' = [closing EXCEPT ![s] = to]

\* After a logout there is no session and the handler returns at once.
Disconnect(s) ==
  /\ s \in open
  /\ open' = open \ {s}
  /\ IF BrowserOf[s] \in session
       THEN Closing(s, "idle", "exists") /\ UNCHANGED left
       ELSE Closing(s, "idle", "idle") /\ left' = left \cup {s}
  /\ UNCHANGED <<session, opening, unbinding, zooVars, background, cleaner, statusVars, opens, crashes>>

CheckExists(s) ==
  /\ Closing(s, "exists", IF Exists(s) THEN "delete" ELSE "count")
  /\ UNCHANGED <<session, open, opening, unbinding, zooVars, background, cleaner, statusVars, opens, crashes, left>>

\* Mutant: the entry is deleted in the background.
DeleteEntryLater(s) ==
  /\ Closing(s, "delete", IF Exists(s) THEN "count" ELSE "offline")
  /\ background' = background \cup {SessionPath(s)}
  /\ UNCHANGED <<session, open, opening, unbinding, zooVars, cleaner, statusVars, opens, crashes, left>>

\* When the node has gone since, NoNodeException is caught and the result
\* is the initial value of count, zero.
DeleteEntry(s) ==
  /\ Closing(s, "delete", IF Exists(s) THEN "count" ELSE "offline")
  /\ entry' = [entry EXCEPT ![s] = Absent]
  /\ UNCHANGED <<session, open, opening, unbinding, userNode, background, cleaner, statusVars, opens, crashes, left>>

CountAfterDelete(s) ==
  /\ Closing(s, "count", IF NoneCounted(User(s)) THEN "offline" ELSE "idle")
  /\ CountSessions(User(s))
  /\ UNCHANGED <<session, open, opening, unbinding, zooVars, cleaner, statusVars, opens, crashes, left>>

\* setStatus catches the exception it throws without a user.
SetOffline(s) ==
  /\ \/ /\ BrowserOf[s] \in session
        /\ Closing(s, "offline", "announce")
        /\ SetStatus(User(s), "OFFLINE")
     \/ /\ BrowserOf[s] \notin session
        /\ Closing(s, "offline", "idle")
        /\ UNCHANGED status
  /\ UNCHANGED <<session, open, opening, unbinding, zooVars, background, cleaner, told, opens, crashes, left>>

AnnounceOffline(s) ==
  /\ Closing(s, "announce", "idle")
  /\ PushStatus(User(s), "OFFLINE")
  /\ UNCHANGED <<session, open, opening, unbinding, zooVars, background, cleaner, status, opens, crashes, left>>

CloseStep(s) ==
  \/ CheckExists(s) \/ DeleteEntry(s) \/ CountAfterDelete(s)
  \/ SetOffline(s) \/ AnnounceOffline(s)

-----------------------------------------------------------------------------
(* The HTTP session: login, Logout, expiry, SessionUser.valueUnbound.      *)

Unbinding(b, from, to) ==
  /\ unbinding[b] = from
  /\ unbinding' = [unbinding EXCEPT ![b] = to]

Login(b) ==
  /\ b \notin session
  /\ unbinding[b] = "idle"
  /\ session' = session \cup {b}
  /\ UNCHANGED <<open, opening, closing, unbinding, zooVars, background, cleaner, statusVars, opens, crashes, left>>

Logout(b) ==
  /\ b \in session
  /\ Unbinding(b, "idle", "logout")
  /\ UNCHANGED <<session, open, opening, closing, zooVars, background, cleaner, statusVars, opens, crashes, left>>

LogoutDeleteSession(b) ==
  /\ Unbinding(b, "logout", "clear")
  /\ CountSessions(UserOf[b])
  /\ UNCHANGED <<session, open, opening, closing, zooVars, cleaner, statusVars, opens, crashes, left>>

\* clearUserFromSession; or, with no logout, the container ends the session.
Unbind(b) ==
  /\ b \in session
  /\ Unbinding(b, "clear", "count") \/ (b \in Expiring /\ Unbinding(b, "idle", "count"))
  /\ session' = session \ {b}
  /\ UNCHANGED <<open, opening, closing, zooVars, background, cleaner, statusVars, opens, crashes, left>>

UnboundDeleteSession(b) ==
  /\ Unbinding(b, "count", IF NoneCounted(UserOf[b]) THEN "offline" ELSE "idle")
  /\ CountSessions(UserOf[b])
  /\ UNCHANGED <<session, open, opening, closing, zooVars, cleaner, statusVars, opens, crashes, left>>

UnboundOffline(b) ==
  /\ Unbinding(b, "offline", "announce")
  /\ SetStatus(UserOf[b], "OFFLINE")
  /\ UNCHANGED <<session, open, opening, closing, zooVars, background, cleaner, told, opens, crashes, left>>

AnnounceUnbound(b) ==
  /\ Unbinding(b, "announce", "idle")
  /\ PushStatus(UserOf[b], "OFFLINE")
  /\ UNCHANGED <<session, open, opening, closing, zooVars, background, cleaner, status, opens, crashes, left>>

UnbindStep(b) ==
  \/ LogoutDeleteSession(b) \/ (unbinding[b] = "clear" /\ Unbind(b))
  \/ UnboundDeleteSession(b) \/ UnboundOffline(b) \/ AnnounceUnbound(b)

-----------------------------------------------------------------------------
(* ZooKeeper's background deletions, and the passing of time.              *)

\* deletingChildrenIfNeeded: whatever is under the node by now goes too.
RunBackground(path) ==
  /\ path \in background
  /\ background' = background \ {path}
  /\ userNode' = {u \in userNode : path # UserPath(u)}
  /\ entry' = [s \in Sockets |->
       IF path \in {UserPath(User(s)), SessionPath(s)} THEN Absent ELSE entry[s]]
  /\ UNCHANGED <<webVars, cleaner, statusVars, opens, crashes, left>>

\* It takes less than UNSEEN_SESSION_DURATION from the creation of a node to
\* the call that gives it its data.
Tick ==
  /\ \A s \in Sockets : opening[s] = "write" /\ entry[s].data = "default"
                          => entry[s].age < UNSEEN_SESSION_DURATION
  /\ \E s \in Sockets : Exists(s) /\ entry[s].age < MaxAge
  /\ entry' = [s \in Sockets |->
       IF Exists(s) /\ entry[s].age < MaxAge THEN [entry[s] EXCEPT !.age = @ + 1] ELSE entry[s]]
  /\ UNCHANGED <<webVars, userNode, background, cleaner, statusVars, opens, crashes, left>>

-----------------------------------------------------------------------------
(* The cleaner: deleteOldSessions over and over, on the leader.  A node    *)
(* that has gone since it was listed makes getChildren or getData throw;   *)
(* the exception ends the pass, and the next one begins after the sleep.   *)

BeginPass ==
  /\ cleaner = Resting
  /\ cleaner' = [Resting EXCEPT !.users = userNode]
  /\ UNCHANGED <<webVars, zooVars, background, statusVars, opens, crashes, left>>

ListSessions(u) ==
  /\ u \in cleaner.users
  /\ cleaner.sessions = {} /\ cleaner.reading = {}
  /\ cleaner' = IF u \in userNode
                  THEN [cleaner EXCEPT !.users = @ \ {u}, !.sessions = EntriesOf(u)]
                  ELSE Resting
  /\ UNCHANGED <<webVars, zooVars, background, statusVars, opens, crashes, left>>

CheckAge(s) ==
  /\ s \in cleaner.sessions
  /\ cleaner.reading = {}
  /\ cleaner' = [cleaner EXCEPT
       !.sessions = @ \ {s},
       !.reading = IF Exists(s) /\ entry[s].age > UNSEEN_SESSION_DURATION THEN {s} ELSE {}]
  /\ UNCHANGED <<webVars, zooVars, background, statusVars, opens, crashes, left>>

\* Mutant: an entry whose data was never written is kept.
IsKnownAutoDelete(data) == data = "autoDelete"

\* Data that is no SessionData counts as autoDelete.
IsAutoDelete(data) == data # "keep"

ReadData(s) ==
  /\ s \in cleaner.reading
  /\ \/ /\ Exists(s)
        /\ cleaner' = [cleaner EXCEPT !.reading = {}]
        /\ background' = IF IsAutoDelete(entry[s].data)
                           THEN background \cup {SessionPath(s)}
                           ELSE background
     \/ /\ ~Exists(s)
        /\ cleaner' = Resting
        /\ UNCHANGED background
  /\ UNCHANGED <<webVars, zooVars, statusVars, opens, crashes, left>>

CleanerStep ==
  \/ BeginPass
  \/ \E u \in Users : ListSessions(u)
  \/ \E s \in Sockets : CheckAge(s) \/ ReadData(s)

-----------------------------------------------------------------------------
(* Faults.                                                                 *)

\* The server of a browser dies, and with it the calls and the sockets it
\* has, some deletions not sent yet, and the HTTP session unless replicated.
Crash(b) ==
  LET gone == {s \in Sockets : BrowserOf[s] = b} IN
  /\ crashes < MaxCrashes
  /\ crashes' = crashes + 1
  /\ session' \in {session, session \ {b}}
  /\ open' = open \ gone
  /\ left' = left \cup gone
  /\ opening' = [s \in Sockets |-> IF s \in gone THEN "idle" ELSE opening[s]]
  /\ closing' = [s \in Sockets |-> IF s \in gone THEN "idle" ELSE closing[s]]
  /\ unbinding' = [unbinding EXCEPT ![b] = "idle"]
  /\ background' \in SUBSET background
  /\ UNCHANGED <<zooVars, cleaner, statusVars, opens>>

ChangeLeader ==
  /\ cleaner # Resting
  /\ crashes < MaxCrashes
  /\ crashes' = crashes + 1
  /\ cleaner' = Resting
  /\ UNCHANGED <<webVars, zooVars, background, statusVars, opens, left>>

-----------------------------------------------------------------------------
(* History.                                                                *)

Busy(steps, things) == \E x \in things : steps[x] # "idle"
Opens(u)   == Busy(opening, SocketsOf(u))
Closes(u)  == Busy(closing, SocketsOf(u))
Unbinds(u) == Busy(unbinding, BrowsersOf(u))

\* Calls overlap whose order matters: an open with anything that removes
\* entries, a disconnect with the end of the session, and a cleaning with
\* whatever there is.
Overlap(u) ==
  \/ Opens(u) /\ (Closes(u) \/ Unbinds(u) \/ UserPath(u) \in background)
  \/ Closes(u) /\ Unbinds(u)
  \/ \E s \in SocketsOf(u) : SessionPath(s) \in background

Remember(crashed) ==
  mixed' = mixed \cup {u \in Users : Overlap(u)'} \cup crashed

Next ==
  \/ /\ \/ \E s \in Sockets : Get(s) \/ OpenStep(s) \/ Disconnect(s) \/ CloseStep(s)
        \/ \E b \in Browsers : Login(b) \/ Logout(b) \/ Unbind(b) \/ UnbindStep(b)
        \/ \E path \in Paths : RunBackground(path)
        \/ Tick \/ CleanerStep \/ ChangeLeader
     /\ Remember({})
  \/ \E b \in Browsers : Crash(b) /\ Remember({UserOf[b]})

\* A call to ZooKeeper or to the graph returns, a background deletion is
\* done, the cleaner's loop goes on for as long as there is a leader.
\* Nobody has to open, close, log in or out.
Fairness ==
  /\ \A s \in Sockets : /\ WF_vars(OpenStep(s) /\ Remember({}))
                        /\ WF_vars(CloseStep(s) /\ Remember({}))
  /\ \A b \in Browsers : WF_vars(UnbindStep(b) /\ Remember({}))
  /\ \A path \in Paths : WF_vars(RunBackground(path) /\ Remember({}))
  /\ WF_vars(CleanerStep /\ Remember({}))
  /\ WF_vars(Tick /\ Remember({}))

Spec == Init /\ [][Next]_vars /\ Fairness

-----------------------------------------------------------------------------
(* Every variable has its type.                                            *)
TypeOK ==
  /\ session \subseteq Browsers
  /\ open \subseteq Sockets
  /\ opening \in [Sockets -> OpenSteps]
  /\ closing \in [Sockets -> CloseSteps]
  /\ unbinding \in [Browsers -> UnbindSteps]
  /\ userNode \subseteq Users
  /\ entry \in [Sockets -> Entries]
  /\ background \subseteq Paths
  /\ cleaner \in [users : SUBSET Users, sessions : SUBSET Sockets, reading : SUBSET Sockets]
  /\ status \in [Users -> {"ACTIVE", "OFFLINE"}]
  /\ told \in [Users -> {"ACTIVE", "OFFLINE"}]
  /\ opens \in 0..MaxOpens
  /\ crashes \in 0..MaxCrashes
  /\ left \subseteq Sockets
  /\ mixed \subseteq Users

Closed(s) == s \notin open /\ opening[s] = "idle" /\ closing[s] = "idle"
Quiet(u)  == ~Opens(u) /\ ~Closes(u) /\ ~Unbinds(u)

(* However the opening, the closing and the cleaning of sockets overlap,   *)
(* the entry of a socket that has gone stays behind only if nobody handled *)
(* its disconnect: its server had died or its HTTP session had ended.      *)
ClosedIsUncounted ==
  \A s \in Sockets : Closed(s) /\ Exists(s) => s \in left

(* As long as no open of a user's socket overlaps with a removal of her    *)
(* entries, no disconnect with the end of her session, and nothing was     *)
(* cleaned or lost, then between calls every open socket is counted, the   *)
(* stored status says whether any entry is there, and everybody was told.  *)
StatusFollowsEntries ==
  \A u \in Users : Quiet(u) /\ u \notin mixed =>
    /\ open \cap SocketsOf(u) \subseteq EntriesOf(u)
    /\ (status[u] = "ACTIVE") <=> (EntriesOf(u) # {})
    /\ told[u] = status[u]

(* A polling socket that is not open any more loses its entry in the end,  *)
(* whoever crashed in the middle of whatever, although a node that goes    *)
(* during a pass of the cleaner ends that pass.                            *)
PollingEntriesGo ==
  \A s \in Sockets \ WebSockets : []<>(s \in open \/ ~Exists(s))

(* What UserSessionCounterRepository says of deleteSession: it returns the *)
(* number of sessions after deleting.  So, when a disconnect learns that it *)
(* was the last one, no entry of the user is left at that moment.          *)
CountIsAsDocumented ==
  [][\A s \in Sockets : closing[s] # "offline" /\ closing'[s] = "offline"
       => (EntriesOf(User(s)) = {})']_vars

(* What onDisconnectOrClose relies on when it returns without a session:   *)
(* there is nothing left to do for the socket of a browser that logged     *)
(* out.  So a socket that has gone has no entry.                           *)
GoneLeavesNothing ==
  \A s \in Sockets : Closed(s) => ~Exists(s)
=============================================================================
