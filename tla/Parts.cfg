SPECIFICATION Spec
CONSTANTS
  v1 = v1 v2 = v2 e1 = e1 p1 = p1 p2 = p2
  VertexRows = {v1, v2} EdgeRows = {e1} PropertyRows = {p1, p2}
  OutVertex <- MCOutVertex InVertex <- MCInVertex ElementOf <- MCElementOf RowOrder <- MCRowOrder
  MaxRows = 5 MaxChanges = 1
  Tasks = {t1, t2, t3} MaxMessages = 5
  SelectableVertices = {s1, s2} SelectableEdges = {l1, l2} MaxSelects = 2 MaxFaults = 2
  Queries = {q1, star} Empty = empty Star = star PageCount = 3 MaxSearchEvents = 3 MaxLoose = 1
  server1 = server1 server2 = server2 c1 = c1 c2 = c2 c3 = c3
  Servers = {server1, server2} Calls = {c1, c2, c3} ServerOf <- MCServerOf
  NoCall = NoCall NoServer = NoServer Entities = {x1}
  Expiry = 2 MaxStarted = 4 MaxTicks = 3 MaxStoreFaults = 1
INVARIANTS MarksAreWhole TasksAreListed  ShowsTheSearch OneInside OwnUpdatesSeen RevokedWhereRevoked HoldersGoOn
PROPERTIES RefusedInTime
SYMMETRY SameServer
CHECK_DEADLOCK FALSE
