SPECIFICATION Spec
CONSTANTS
  u1 = u1  b1 = b1  w = w  p = p
  Users = {u1}
  Browsers = {b1}
  Sockets = {p}
  WebSockets = {}
  UserOf <- Alone
  BrowserOf <- OneTab
  Expiring = {b1}
  SESSION_UPDATE_DURATION = 0
  UNSEEN_SESSION_DURATION = 1
  MaxOpens = 2
  MaxCrashes = 2
PROPERTY PollingEntriesGo
