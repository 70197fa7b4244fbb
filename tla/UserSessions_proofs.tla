-------------------------- MODULE UserSessions_proofs --------------------------
(***************************************************************************)
(* Proofs about the entries of messaging sockets, for any users, browsers  *)
(* and sockets, and any number of opens and crashes.                       *)
(*                                                                         *)
(* IInv is inductive.  Fresh says that a request between finding no entry  *)
(* and creating one still has none, so that its failure leaves none;       *)
(* Uncounted strengthens ClosedIsUncounted to the moments at which a       *)
(* disconnect has got past its deletion: only a new request of the same    *)
(* socket can have made an entry since, and that request, or the socket it *)
(* opened, is still there.  For the status AllCalm is inductive next to    *)
(* it: it follows a user's calls from one to the next.                     *)
(***************************************************************************)
EXTENDS UserSessions, TLAPS

Fresh ==
  \A s \in Sockets : opening[s] \in {"createUser", "create"} => ~Exists(s)

Uncounted ==
  \A s \in Sockets :
    /\ s \notin open
    /\ opening[s] = "idle"
    /\ closing[s] \notin {"exists", "delete"}
    /\ Exists(s)
    => s \in left

IInv == TypeOK /\ Fresh /\ Uncounted

-----------------------------------------------------------------------------
(* Lemmas about the helpers.                                               *)

LEMMA Owner == \A s \in Sockets : User(s) \in Users /\ BrowserOf[s] \in Browsers
  BY ConstantsAssumption DEF User

LEMMA PathsOfAll ==
  /\ \A u \in Users : UserPath(u) \in Paths
  /\ \A s \in Sockets : SessionPath(s) \in Paths
  BY DEF Paths

\* Data written with an age is an entry, and no entry is Absent.
LEMMA EntryTypes ==
  /\ \A s \in Sockets : SessionData(s) \in Entries
  /\ \A s \in Sockets : SessionData(s) # Absent
  /\ [age |-> 0, data |-> "default"] \in Entries
  /\ [age |-> 0, data |-> "default"] # Absent
  /\ Absent \in Entries
  BY ConstantsAssumption DEF SessionData, Entries, Absent, MaxAge

\* Growing older neither makes nor removes an entry.
LEMMA Older ==
  ASSUME NEW e \in Entries, e # Absent, e.age < MaxAge
  PROVE  /\ [e EXCEPT !.age = @ + 1] \in Entries
         /\ [e EXCEPT !.age = @ + 1] # Absent
  BY ConstantsAssumption DEF Entries, Absent, MaxAge

LEMMA RememberType ==
  ASSUME TypeOK, NEW crashed \in SUBSET Users, Remember(crashed)
  PROVE  mixed' \subseteq Users
  BY DEF TypeOK, Remember

\* The types of everything but mixed, which only Remember changes.
OtherTypes ==
  /\ session \subseteq Browsers
  /\ open \subseteq Sockets
  /\ opening \in [Sockets -> OpenSteps]
  /\ closing \in [Sockets -> CloseSteps]
  /\ unbinding \in [Browsers -> UnbindSteps]
  /\ userNode \subseteq Users
  /\ entry \in [Sockets -> Entries]
  /\ background \subseteq Paths
  /\ cleaner \in [users : SUBSET Users, sessions : SUBSET Sockets, reading : SUBSET Sockets]
  /\ status \in [Users -> {"ACTIVE", "OFFLINE"}]
  /\ told \in [Users -> {"ACTIVE", "OFFLINE"}]
  /\ opens \in 0..MaxOpens
  /\ crashes \in 0..MaxCrashes
  /\ left \subseteq Sockets

-----------------------------------------------------------------------------
(* Type correctness.                                                       *)

LEMMA InitType == Init => TypeOK
  BY ConstantsAssumption, EntryTypes
  DEF Init, TypeOK, OpenSteps, CloseSteps, UnbindSteps, Resting

LEMMA CountType ==
  ASSUME TypeOK, NEW u \in Users, CountSessions(u)
  PROVE  background' \subseteq Paths
  BY PathsOfAll DEF TypeOK, CountSessions

LEMMA OpenTypes ==
  ASSUME TypeOK, NEW s \in Sockets, Get(s) \/ OpenStep(s)
  PROVE  OtherTypes'
<1> USE DEF TypeOK, OtherTypes, OpenSteps, Opening, zooVars, statusVars
<1>1. CASE Get(s)
  BY <1>1, ConstantsAssumption DEF Get
<1>2. CASE SetActive(s)
  BY <1>2 DEF SetActive, SetStatus
<1>3. CASE AnnounceActive(s)
  BY <1>3 DEF AnnounceActive, PushStatus
<1>4. CASE Register(s)
  BY <1>4 DEF Register, Opened
<1>5. CASE CreateUser(s)
  BY <1>5, Owner DEF CreateUser
<1>6. CASE CreateEntry(s)
  BY <1>6, EntryTypes DEF CreateEntry
<1>7. CASE SetSessionData(s)
  BY <1>7, EntryTypes DEF SetSessionData, Opened
<1> QED
  BY <1>1, <1>2, <1>3, <1>4, <1>5, <1>6, <1>7 DEF OpenStep

LEMMA CloseTypes ==
  ASSUME TypeOK, NEW s \in Sockets, Disconnect(s) \/ CloseStep(s)
  PROVE  OtherTypes'
<1> USE DEF TypeOK, OtherTypes, CloseSteps, Closing, zooVars, statusVars
<1>1. CASE Disconnect(s)
  BY <1>1 DEF Disconnect
<1>2. CASE CheckExists(s)
  BY <1>2 DEF CheckExists
<1>3. CASE DeleteEntry(s)
  BY <1>3, EntryTypes DEF DeleteEntry
<1>4. CASE CountAfterDelete(s)
  BY <1>4, CountType, Owner DEF CountAfterDelete
<1>5. CASE SetOffline(s)
  BY <1>5 DEF SetOffline, SetStatus
<1>6. CASE AnnounceOffline(s)
  BY <1>6 DEF AnnounceOffline, PushStatus
<1> QED
  BY <1>1, <1>2, <1>3, <1>4, <1>5, <1>6 DEF CloseStep

LEMMA UnbindTypes ==
  ASSUME TypeOK, NEW b \in Browsers, Login(b) \/ Logout(b) \/ Unbind(b) \/ UnbindStep(b)
  PROVE  OtherTypes'
<1> USE DEF TypeOK, OtherTypes, UnbindSteps, Unbinding, zooVars, statusVars
<1>1. CASE Login(b)
  BY <1>1 DEF Login
<1>2. CASE Logout(b)
  BY <1>2 DEF Logout
<1>3. CASE Unbind(b)
  BY <1>3 DEF Unbind
<1>4. CASE LogoutDeleteSession(b)
  BY <1>4, CountType, ConstantsAssumption DEF LogoutDeleteSession
<1>5. CASE UnboundDeleteSession(b)
  BY <1>5, CountType, ConstantsAssumption DEF UnboundDeleteSession
<1>6. CASE UnboundOffline(b)
  BY <1>6 DEF UnboundOffline, SetStatus
<1>7. CASE AnnounceUnbound(b)
  BY <1>7 DEF AnnounceUnbound, PushStatus
<1> QED
  BY <1>1, <1>2, <1>3, <1>4, <1>5, <1>6, <1>7 DEF UnbindStep

LEMMA ZooTypes ==
  ASSUME TypeOK, (\E path \in Paths : RunBackground(path)) \/ Tick
  PROVE  OtherTypes'
<1> USE DEF TypeOK, OtherTypes, webVars, statusVars
<1>1. ASSUME NEW path \in Paths, RunBackground(path) PROVE OtherTypes'
  BY <1>1, EntryTypes DEF RunBackground
<1>2. CASE Tick
  <2>1. entry' \in [Sockets -> Entries]
    BY <1>2, Older DEF Tick, Exists
  <2> QED
    BY <1>2, <2>1 DEF Tick
<1> QED
  BY <1>1, <1>2

LEMMA CleanerTypes ==
  ASSUME TypeOK, CleanerStep \/ ChangeLeader
  PROVE  OtherTypes'
<1> USE DEF TypeOK, OtherTypes, webVars, zooVars, statusVars, Resting
<1>1. CASE BeginPass
  BY <1>1 DEF BeginPass
<1>2. ASSUME NEW u \in Users, ListSessions(u) PROVE OtherTypes'
  BY <1>2 DEF ListSessions, EntriesOf, SocketsOf
<1>3. ASSUME NEW s \in Sockets, CheckAge(s) PROVE OtherTypes'
  BY <1>3 DEF CheckAge
<1>4. ASSUME NEW s \in Sockets, ReadData(s) PROVE OtherTypes'
  BY <1>4, PathsOfAll DEF ReadData
<1>5. CASE ChangeLeader
  BY <1>5, ConstantsAssumption DEF ChangeLeader
<1> QED
  BY <1>1, <1>2, <1>3, <1>4, <1>5 DEF CleanerStep

LEMMA CrashTypes ==
  ASSUME TypeOK, NEW b \in Browsers, Crash(b)
  PROVE  OtherTypes'
  BY ConstantsAssumption
  DEF TypeOK, OtherTypes, Crash, OpenSteps, CloseSteps, UnbindSteps, zooVars, statusVars

LEMMA StepType == TypeOK /\ [Next]_vars => TypeOK'
<1> SUFFICES ASSUME TypeOK, [Next]_vars PROVE TypeOK'
  OBVIOUS
<1>1. CASE UNCHANGED vars
  BY <1>1 DEF TypeOK, vars, webVars, zooVars, statusVars
<1>2. CASE Next
  <2>1. OtherTypes'
    BY <1>2, OpenTypes, CloseTypes, UnbindTypes, ZooTypes, CleanerTypes, CrashTypes DEF Next
  <2>2. mixed' \subseteq Users
    <3>1. \A b \in Browsers : {UserOf[b]} \in SUBSET Users
      BY ConstantsAssumption
    <3> QED
      BY <1>2, <3>1, RememberType DEF Next
  <2> QED
    BY <2>1, <2>2 DEF TypeOK, OtherTypes
<1> QED
  BY <1>1, <1>2

(* Whatever the interleaving of requests, disconnects, logouts, the        *)
(* cleaner, background deletions and crashes, every variable of the        *)
(* session bookkeeping keeps its type.                                     *)
THEOREM SessionTypes == Spec => []TypeOK
  BY InitType, StepType, PTL DEF Spec

-----------------------------------------------------------------------------
(* The entries of closed sockets.                                          *)

LEMMA InitEntries == Init => Fresh /\ Uncounted
  BY DEF Init, Fresh, Uncounted, Exists

\* A step that makes no entry, and touches neither the requests nor the
\* sockets, keeps both.
LEMMA NoNewEntry ==
  ASSUME Fresh, Uncounted,
         \A s \in Sockets : Exists(s)' => Exists(s),
         UNCHANGED <<open, opening, closing, left>>
  PROVE  Fresh' /\ Uncounted'
  BY DEF Fresh, Uncounted

LEMMA OpenEntries ==
  ASSUME IInv, NEW s \in Sockets, Get(s) \/ OpenStep(s)
  PROVE  Fresh' /\ Uncounted'
<1> USE DEF IInv, TypeOK, Fresh, Uncounted, Opening, Exists, zooVars
<1>1. CASE Get(s)
  BY <1>1 DEF Get
<1>2. CASE SetActive(s)
  BY <1>2 DEF SetActive
<1>3. CASE AnnounceActive(s)
  BY <1>3 DEF AnnounceActive
<1>4. CASE Register(s)
  BY <1>4 DEF Register, Opened
<1>5. CASE CreateUser(s)
  BY <1>5 DEF CreateUser
<1>6. CASE CreateEntry(s)
  BY <1>6 DEF CreateEntry
<1>7. CASE SetSessionData(s)
  BY <1>7 DEF SetSessionData, Opened
<1> QED
  BY <1>1, <1>2, <1>3, <1>4, <1>5, <1>6, <1>7 DEF OpenStep

LEMMA CloseEntries ==
  ASSUME IInv, NEW s \in Sockets, Disconnect(s) \/ CloseStep(s)
  PROVE  Fresh' /\ Uncounted'
<1> USE DEF IInv, TypeOK, Fresh, Uncounted, Closing, Exists, zooVars
<1>1. CASE Disconnect(s)
  BY <1>1 DEF Disconnect
<1>2. CASE CheckExists(s)
  BY <1>2 DEF CheckExists
<1>3. CASE DeleteEntry(s)
  BY <1>3 DEF DeleteEntry
<1>4. CASE CountAfterDelete(s)
  BY <1>4 DEF CountAfterDelete
<1>5. CASE SetOffline(s)
  BY <1>5 DEF SetOffline
<1>6. CASE AnnounceOffline(s)
  BY <1>6 DEF AnnounceOffline
<1> QED
  BY <1>1, <1>2, <1>3, <1>4, <1>5, <1>6 DEF CloseStep

LEMMA UnbindEntries ==
  ASSUME IInv, NEW b \in Browsers, Login(b) \/ Logout(b) \/ Unbind(b) \/ UnbindStep(b)
  PROVE  Fresh' /\ Uncounted'
<1>1. UNCHANGED <<open, opening, closing, left, entry>>
  BY DEF Login, Logout, Unbind, UnbindStep, LogoutDeleteSession, UnboundDeleteSession,
         UnboundOffline, AnnounceUnbound, zooVars
<1> QED
  BY <1>1, NoNewEntry DEF IInv, Exists

LEMMA ZooEntries ==
  ASSUME IInv, (\E path \in Paths : RunBackground(path)) \/ Tick
  PROVE  Fresh' /\ Uncounted'
<1>1. UNCHANGED <<open, opening, closing, left>>
  BY DEF RunBackground, Tick, webVars
<1>2. ASSUME NEW path \in Paths, RunBackground(path), NEW s \in Sockets, Exists(s)'
      PROVE  Exists(s)
  BY <1>2 DEF RunBackground, Exists
<1>3. ASSUME Tick, NEW s \in Sockets, Exists(s)' PROVE Exists(s)
  BY <1>3 DEF Tick, Exists
<1> QED
  BY <1>1, <1>2, <1>3, NoNewEntry DEF IInv

LEMMA CleanerEntries ==
  ASSUME IInv, CleanerStep \/ ChangeLeader
  PROVE  Fresh' /\ Uncounted'
<1>1. UNCHANGED <<open, opening, closing, left, entry>>
  BY DEF CleanerStep, BeginPass, ListSessions, CheckAge, ReadData, ChangeLeader, webVars, zooVars
<1> QED
  BY <1>1, NoNewEntry DEF IInv, Exists

\* Every socket of the crashed server is in left.
LEMMA CrashEntries ==
  ASSUME IInv, NEW b \in Browsers, Crash(b)
  PROVE  Fresh' /\ Uncounted'
  BY DEF IInv, TypeOK, Fresh, Uncounted, Exists, Crash, zooVars

LEMMA StepEntries == IInv /\ [Next]_vars => IInv'
<1> SUFFICES ASSUME IInv, [Next]_vars PROVE Fresh' /\ Uncounted'
  BY StepType DEF IInv
<1>1. CASE UNCHANGED vars
  BY <1>1, NoNewEntry DEF IInv, Exists, vars, webVars, zooVars
<1>2. CASE Next
  BY <1>2, OpenEntries, CloseEntries, UnbindEntries, ZooEntries, CleanerEntries, CrashEntries
  DEF Next
<1> QED
  BY <1>1, <1>2

(* However the opening, the closing and the cleaning of any number of      *)
(* sockets overlap, the entry of a socket that has gone stays behind only  *)
(* if nobody handled its disconnect.                                       *)
THEOREM ClosedSocketsAreUncounted == Spec => []ClosedIsUncounted
<1>1. IInv => ClosedIsUncounted
  BY DEF IInv, Uncounted, ClosedIsUncounted, Closed
<1> QED
  BY InitType, InitEntries, StepEntries, <1>1, PTL DEF Spec, IInv

-----------------------------------------------------------------------------
(* The status of a user.                                                   *)

\* What is true of a user as long as no calls of hers overlap whose order matters: requests have a
\* session and get as far as their entry, disconnects find it, and what is removed in the background
\* is a node without entries.  The status is ACTIVE from the first request to the last count.
Calm(u) ==
  /\ ~Overlap(u)
  /\ \A s \in SocketsOf(u) :
       /\ opening[s] # "idle" => BrowserOf[s] \in session
       /\ opening[s] \in {"announce", "register", "createUser", "create", "write"} => status[u] = "ACTIVE"
       /\ opening[s] = "create" => u \in userNode
       /\ opening[s] = "write" => Exists(s)
       /\ closing[s] # "idle" => BrowserOf[s] \in session /\ s \notin open
       /\ closing[s] \in {"exists", "delete"} => Exists(s)
       /\ closing[s] \in {"offline", "announce"} => EntriesOf(u) = {}
       /\ closing[s] = "announce" => status[u] = "OFFLINE"
       /\ s \in open => Exists(s)
  /\ told[u] # status[u] => \E s \in SocketsOf(u) : opening[s] = "announce" \/ closing[s] = "announce"
  /\ \A b \in BrowsersOf(u) : unbinding[b] \in {"offline", "announce"} => EntriesOf(u) = {}
  /\ UserPath(u) \in background => EntriesOf(u) = {}
  /\ EntriesOf(u) # {} => status[u] = "ACTIVE"
  /\ status[u] = "ACTIVE" /\ EntriesOf(u) = {} =>
       Opens(u) \/ \E s \in SocketsOf(u) : closing[s] \in {"count", "offline"}

AllCalm == \A u \in Users \ mixed : Calm(u)

\* Nothing of u changes, but for deletions that are done
Spared(u) ==
  /\ \A s \in SocketsOf(u) :
       /\ opening'[s] = opening[s] /\ closing'[s] = closing[s]
       /\ s \in open' <=> s \in open
       /\ Exists(s)' <=> Exists(s)
       /\ BrowserOf[s] \in session => BrowserOf[s] \in session'
  /\ \A b \in BrowsersOf(u) : unbinding'[b] = unbinding[b]
  /\ status'[u] = status[u] /\ told'[u] = told[u]
  /\ u \in userNode => u \in userNode'
  /\ UserPath(u) \in background' => UserPath(u) \in background

LEMMA SparedIsCalm ==
  ASSUME NEW u \in Users, Calm(u), Spared(u), ~Overlap(u)'
  PROVE  Calm(u)'
<1>1. EntriesOf(u)' = EntriesOf(u)
  BY DEF Spared, EntriesOf, SocketsOf
<1>2. Opens(u)' <=> Opens(u)
  BY DEF Spared, Opens, Busy
<1>3. QED
  BY <1>1, <1>2 DEF Calm, Spared, SocketsOf, BrowsersOf

LEMMA OpenCalm ==
  ASSUME IInv, NEW s \in Sockets, Get(s) \/ OpenStep(s), NEW u \in Users, Calm(u), ~Overlap(u)'
  PROVE  Calm(u)'
<1> TypeOK /\ Fresh
  BY DEF IInv
<1> USE DEF Opening, zooVars, statusVars
<1>1. CASE u # User(s)
  <2>1. s \notin SocketsOf(u)
    BY <1>1 DEF SocketsOf
  <2>2. Spared(u)
    BY <1>1, <2>1 DEF Spared, SocketsOf, TypeOK, OpenStep, Get, SetActive, AnnounceActive, Register, CreateUser, CreateEntry,
                      SetSessionData, Opened, SetStatus, PushStatus, Exists
  <2>3. QED
    BY <2>2, SparedIsCalm
<1>2. CASE u = User(s)
  <2>1. s \in SocketsOf(u)
    BY <1>2 DEF SocketsOf
  <2>2. /\ \A x \in SocketsOf(u) : closing'[x] = "idle" /\ closing[x] = "idle"
        /\ \A b \in BrowsersOf(u) : unbinding'[b] = "idle" /\ unbinding[b] = "idle"
        /\ UserPath(u) \notin background /\ background' = background
        /\ session' = session
    <3>1. UNCHANGED <<closing, unbinding, background, session>>
      BY DEF OpenStep, Get, SetActive, AnnounceActive, Register, CreateUser, CreateEntry, SetSessionData
    <3>2. Opens(u) \/ Opens(u)'
      BY <2>1 DEF Opens, Busy, OpenStep, Get, SetActive, AnnounceActive, Register, CreateUser, CreateEntry, SetSessionData,
                  TypeOK
    <3>3. QED
      BY <3>1, <3>2 DEF Calm, Overlap, Closes, Unbinds, Busy
  <2> USE DEF Exists, EntriesOf, SocketsOf
  <2>3. CASE Get(s)
    BY <1>2, <2>1, <2>2, <2>3 DEF Calm, Get, Opens, Busy, TypeOK
  <2>4. CASE SetActive(s)
    BY <1>2, <2>1, <2>2, <2>4 DEF Calm, SetActive, SetStatus, Opens, Busy, TypeOK
  <2>5. CASE AnnounceActive(s)
    BY <1>2, <2>1, <2>2, <2>5 DEF Calm, AnnounceActive, PushStatus, Opens, Busy, TypeOK
  <2>6. CASE Register(s)
    BY <1>2, <2>1, <2>2, <2>6 DEF Calm, Register, Opened, Opens, Busy, TypeOK
  <2>7. CASE CreateUser(s)
    BY <1>2, <2>1, <2>2, <2>7 DEF Calm, CreateUser, Opens, Busy, TypeOK
  <2>8. CASE CreateEntry(s)
    BY <1>2, <2>1, <2>2, <2>8, EntryTypes DEF Calm, CreateEntry, Fresh, Opens, Busy, TypeOK
  <2>9. CASE SetSessionData(s)
    BY <1>2, <2>1, <2>2, <2>9, EntryTypes DEF Calm, SetSessionData, Opened, Opens, Busy, TypeOK
  <2>10. QED
    BY <2>3, <2>4, <2>5, <2>6, <2>7, <2>8, <2>9 DEF OpenStep
<1>3. QED
  BY <1>1, <1>2

LEMMA CloseCalm ==
  ASSUME IInv, NEW s \in Sockets, Disconnect(s) \/ CloseStep(s), NEW u \in Users, Calm(u), ~Overlap(u)'
  PROVE  Calm(u)'
<1> TypeOK
  BY DEF IInv
<1> USE DEF Closing, zooVars, statusVars
<1>1. CASE u # User(s)
  <2>1. s \notin SocketsOf(u)
    BY <1>1 DEF SocketsOf
  <2>2. UserPath(u) \in background' => UserPath(u) \in background
    BY <1>1 DEF CloseStep, Disconnect, CheckExists, DeleteEntry, CountAfterDelete, SetOffline, AnnounceOffline,
                CountSessions, UserPath
  <2>3. Spared(u)
    BY <1>1, <2>1, <2>2 DEF Spared, SocketsOf, TypeOK, CloseStep, Disconnect, CheckExists, DeleteEntry, CountAfterDelete,
                            SetOffline, AnnounceOffline, SetStatus, PushStatus, Exists
  <2>4. QED
    BY <2>3, SparedIsCalm
<1>2. CASE u = User(s)
  <2>1. s \in SocketsOf(u)
    BY <1>2 DEF SocketsOf
  <2>2. CASE Disconnect(s) /\ BrowserOf[s] \notin session
    BY <1>2, <2>1, <2>2 DEF Disconnect, Calm, Opens, Busy, TypeOK, Exists, EntriesOf, SocketsOf
  <2>3. CASE ~(Disconnect(s) /\ BrowserOf[s] \notin session)
    <3>1. UNCHANGED <<opening, unbinding, session, userNode>>
      BY DEF CloseStep, Disconnect, CheckExists, DeleteEntry, CountAfterDelete, SetOffline, AnnounceOffline
    <3>2. Closes(u) \/ Closes(u)'
      BY <2>1, <2>3 DEF Closes, Busy, CloseStep, Disconnect, CheckExists, DeleteEntry, CountAfterDelete, SetOffline,
                        AnnounceOffline, TypeOK
    <3>3. /\ \A x \in SocketsOf(u) : opening'[x] = "idle" /\ opening[x] = "idle"
          /\ \A b \in BrowsersOf(u) : unbinding'[b] = "idle" /\ unbinding[b] = "idle"
      BY <3>1, <3>2 DEF Calm, Overlap, Opens, Unbinds, Busy
    <3> USE DEF Exists, EntriesOf, SocketsOf
    <3>4. CASE Disconnect(s)
      BY <1>2, <2>1, <2>3, <3>1, <3>3, <3>4 DEF Calm, Disconnect, Opens, Busy, TypeOK
    <3>5. CASE CheckExists(s)
      BY <1>2, <2>1, <3>1, <3>3, <3>5 DEF Calm, CheckExists, Opens, Busy, TypeOK
    <3>6. CASE DeleteEntry(s)
      BY <1>2, <2>1, <3>1, <3>3, <3>6 DEF Calm, DeleteEntry, Opens, Busy, TypeOK
    <3>7. CASE CountAfterDelete(s)
      BY <1>2, <2>1, <3>1, <3>3, <3>7 DEF Calm, CountAfterDelete, CountSessions, NoneCounted, Opens, Busy, TypeOK
    <3>8. CASE SetOffline(s)
      BY <1>2, <2>1, <3>1, <3>3, <3>8 DEF Calm, SetOffline, SetStatus, Opens, Busy, TypeOK
    <3>9. CASE AnnounceOffline(s)
      BY <1>2, <2>1, <3>1, <3>3, <3>9 DEF Calm, AnnounceOffline, PushStatus, Opens, Busy, TypeOK
    <3>10. QED
      BY <3>4, <3>5, <3>6, <3>7, <3>8, <3>9 DEF CloseStep
  <2>4. QED
    BY <2>2, <2>3
<1>3. QED
  BY <1>1, <1>2

LEMMA UnbindCalm ==
  ASSUME IInv, NEW b \in Browsers, Login(b) \/ Logout(b) \/ Unbind(b) \/ UnbindStep(b), NEW u \in Users, Calm(u),
         ~Overlap(u)'
  PROVE  Calm(u)'
<1> TypeOK
  BY DEF IInv
<1> USE DEF Unbinding, zooVars, statusVars
<1>1. CASE u # UserOf[b]
  <2>1. b \notin BrowsersOf(u) /\ \A s \in SocketsOf(u) : BrowserOf[s] # b
    BY <1>1 DEF BrowsersOf, SocketsOf, User
  <2>2. UserPath(u) \in background' => UserPath(u) \in background
    BY <1>1 DEF UnbindStep, Login, Logout, Unbind, LogoutDeleteSession, UnboundDeleteSession, UnboundOffline,
                AnnounceUnbound, CountSessions, UserPath
  <2>3. Spared(u)
    BY <1>1, <2>1, <2>2 DEF Spared, BrowsersOf, TypeOK, UnbindStep, Login, Logout, Unbind, LogoutDeleteSession,
                            UnboundDeleteSession, UnboundOffline, AnnounceUnbound, SetStatus, PushStatus, Exists
  <2>4. QED
    BY <2>3, SparedIsCalm
<1>2. CASE u = UserOf[b]
  <2>1. b \in BrowsersOf(u)
    BY <1>2 DEF BrowsersOf
  <2>2. CASE Login(b)
    <3>1. Spared(u)
      BY <2>2 DEF Spared, Login, Exists
    <3>2. QED
      BY <3>1, SparedIsCalm
  <2>3. CASE ~Login(b)
    <3>1. UNCHANGED <<opening, closing, open, entry, userNode>>
      BY DEF UnbindStep, Login, Logout, Unbind, LogoutDeleteSession, UnboundDeleteSession, UnboundOffline, AnnounceUnbound
    <3>2. Unbinds(u) \/ Unbinds(u)'
      BY <2>1, <2>3 DEF Unbinds, Busy, UnbindStep, Logout, Unbind, LogoutDeleteSession, UnboundDeleteSession,
                        UnboundOffline, AnnounceUnbound, TypeOK
    <3>3. \A x \in SocketsOf(u) : opening[x] = "idle" /\ closing[x] = "idle"
      BY <3>1, <3>2 DEF Calm, Overlap, Opens, Closes, Busy
    <3>4. EntriesOf(u)' = EntriesOf(u)
      BY <3>1 DEF EntriesOf, Exists, SocketsOf
    <3>5. EntriesOf(u) = {} => status[u] = "OFFLINE" /\ told[u] = "OFFLINE"
      BY <3>3 DEF Calm, Opens, Busy, TypeOK
    <3>6. /\ \A x \in BrowsersOf(u) : unbinding'[x] \in {"offline", "announce"} => EntriesOf(u) = {}
          /\ UserPath(u) \in background' => EntriesOf(u) = {}
          /\ status'[u] = status[u] /\ told'[u] = told[u]
      <4>1. CASE Logout(b) \/ Unbind(b)
        BY <2>1, <4>1 DEF Calm, Logout, Unbind, BrowsersOf, TypeOK
      <4>2. CASE LogoutDeleteSession(b) \/ UnboundDeleteSession(b)
        BY <1>2, <2>1, <4>2 DEF Calm, LogoutDeleteSession, UnboundDeleteSession, CountSessions, NoneCounted, BrowsersOf,
                                TypeOK
      <4>3. CASE UnboundOffline(b) \/ AnnounceUnbound(b)
        BY <1>2, <2>1, <3>5, <4>3 DEF Calm, UnboundOffline, AnnounceUnbound, SetStatus, PushStatus, BrowsersOf, TypeOK
      <4>4. QED
        BY <2>3, <4>1, <4>2, <4>3 DEF UnbindStep
    <3>7. QED
      BY <3>1, <3>3, <3>4, <3>6 DEF Calm, Opens, Busy, Exists
  <2>4. QED
    BY <2>2, <2>3
<1>3. QED
  BY <1>1, <1>2

LEMMA ZooCalm ==
  ASSUME IInv, (\E path \in Paths : RunBackground(path)) \/ Tick, NEW u \in Users, Calm(u), ~Overlap(u)'
  PROVE  Calm(u)'
<1> TypeOK
  BY DEF IInv
<1> USE DEF webVars, statusVars
<1>1. ASSUME NEW path \in Paths, RunBackground(path)
      PROVE  Calm(u)'
  <2>1. \A s \in SocketsOf(u) : path # SessionPath(s)
    BY <1>1 DEF RunBackground, Calm, Overlap
  <2>2. \A s \in SocketsOf(u) : Exists(s)' <=> Exists(s)
    <3>1. CASE path = UserPath(u)
      <4>1. EntriesOf(u) = {}
        BY <1>1, <3>1 DEF RunBackground, Calm
      <4>2. QED
        BY <1>1, <3>1, <4>1 DEF RunBackground, EntriesOf, Exists, SocketsOf
    <3>2. CASE path # UserPath(u)
      BY <1>1, <2>1, <3>2 DEF RunBackground, Exists, SocketsOf
    <3>3. QED
      BY <3>1, <3>2
  <2>3. Opens(u) => path # UserPath(u)
    BY <1>1 DEF Calm, Overlap, RunBackground
  <2>4. EntriesOf(u)' = EntriesOf(u)
    BY <2>2 DEF EntriesOf, SocketsOf
  <2>5. \A s \in SocketsOf(u) : opening'[s] = "create" => u \in userNode'
    BY <1>1, <2>3 DEF RunBackground, Calm, Opens, Busy
  <2>6. UNCHANGED <<session, open, opening, closing, unbinding, status, told>> /\ background' \subseteq background
    BY <1>1 DEF RunBackground
  <2>7. QED
    BY <2>2, <2>4, <2>5, <2>6 DEF Calm, Opens, Busy
<1>2. CASE Tick
  <2>1. \A s \in SocketsOf(u) : Exists(s)' <=> Exists(s)
    BY <1>2, Older DEF Tick, Exists, SocketsOf, TypeOK
  <2>2. Spared(u)
    BY <1>2, <2>1 DEF Tick, Spared
  <2>3. QED
    BY <2>2, SparedIsCalm
<1>3. QED
  BY <1>1, <1>2

LEMMA CleanerCalm ==
  ASSUME CleanerStep \/ ChangeLeader, NEW u \in Users, Calm(u), ~Overlap(u)'
  PROVE  Calm(u)'
<1>1. UserPath(u) \in background' => UserPath(u) \in background
  BY DEF CleanerStep, BeginPass, ListSessions, CheckAge, ReadData, ChangeLeader, UserPath, SessionPath
<1>2. Spared(u)
  BY <1>1 DEF CleanerStep, BeginPass, ListSessions, CheckAge, ReadData, ChangeLeader, webVars, zooVars, statusVars, Spared,
              Exists
<1>3. QED
  BY <1>2, SparedIsCalm

\* A server that dies takes none of the calls of another user with it.
LEMMA CrashCalm ==
  ASSUME IInv, NEW b \in Browsers, Crash(b), NEW u \in Users, u # UserOf[b], Calm(u), ~Overlap(u)'
  PROVE  Calm(u)'
<1>1. b \notin BrowsersOf(u) /\ \A s \in SocketsOf(u) : BrowserOf[s] # b
  BY DEF BrowsersOf, SocketsOf, User
<1>2. Spared(u)
  BY <1>1 DEF IInv, TypeOK, Crash, Spared, zooVars, statusVars, Exists, SocketsOf, BrowsersOf
<1>3. QED
  BY <1>2, SparedIsCalm

LEMMA InitCalm == Init => AllCalm
<1> SUFFICES ASSUME Init, NEW u \in Users
             PROVE  Calm(u)
  BY DEF AllCalm
<1>1. EntriesOf(u) = {}
  BY DEF Init, EntriesOf, Exists, SocketsOf
<1>2. ~Opens(u) /\ ~Closes(u) /\ ~Unbinds(u)
  BY DEF Init, Opens, Closes, Unbinds, Busy, SocketsOf, BrowsersOf
<1>3. QED
  BY <1>1, <1>2 DEF Init, Calm, Overlap, SocketsOf, BrowsersOf

LEMMA StepCalm == IInv /\ AllCalm /\ [Next]_vars => AllCalm'
<1> SUFFICES ASSUME IInv, AllCalm, [Next]_vars, NEW u \in Users, u \notin mixed'
             PROVE  Calm(u)'
  BY DEF AllCalm
<1>1. CASE UNCHANGED vars
  <2>1. Spared(u) /\ Calm(u)
    BY <1>1 DEF vars, webVars, zooVars, statusVars, Spared, Exists, AllCalm
  <2>2. ~Overlap(u)'
    BY <1>1, <2>1 DEF vars, webVars, zooVars, Calm, Overlap, Opens, Closes, Unbinds, Busy, SocketsOf, BrowsersOf
  <2>3. QED
    BY <2>1, <2>2, SparedIsCalm
<1>2. CASE Next
  <2>1. u \notin mixed /\ ~Overlap(u)'
    BY <1>2 DEF Next, Remember
  <2>2. Calm(u)
    BY <2>1 DEF AllCalm
  <2>3. \A b \in Browsers : Crash(b) /\ Remember({UserOf[b]}) => u # UserOf[b]
    BY DEF Remember
  <2>4. QED
    BY <1>2, <2>1, <2>2, <2>3, OpenCalm, CloseCalm, UnbindCalm, ZooCalm, CleanerCalm, CrashCalm DEF Next
<1>3. QED
  BY <1>1, <1>2

(* Whatever the number of browsers and sockets of a user: as long as no    *)
(* open of hers overlaps with a removal of her entries, no disconnect with *)
(* the end of a session, and nothing was cleaned or lost, then between     *)
(* calls her open sockets are counted, her stored status says whether any  *)
(* entry is there, and everybody was told.                                 *)
THEOREM StatusIsTrue == Spec => []StatusFollowsEntries
<1>1. IInv /\ AllCalm => StatusFollowsEntries
  <2> SUFFICES ASSUME IInv, AllCalm, NEW u \in Users, Quiet(u), u \notin mixed
               PROVE  /\ open \cap SocketsOf(u) \subseteq EntriesOf(u)
                      /\ (status[u] = "ACTIVE") <=> (EntriesOf(u) # {})
                      /\ told[u] = status[u]
    BY DEF StatusFollowsEntries
  <2>1. Calm(u)
    BY DEF AllCalm
  <2>2. \A s \in SocketsOf(u) : opening[s] = "idle" /\ closing[s] = "idle"
    BY DEF Quiet, Opens, Closes, Busy
  <2>3. QED
    BY <2>1, <2>2 DEF Calm, Quiet, EntriesOf
<1>2. QED
  BY InitType, InitEntries, InitCalm, StepEntries, StepCalm, <1>1, PTL DEF Spec, IInv
=============================================================================
