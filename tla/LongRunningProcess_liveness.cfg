SPECIFICATION FairSpec
CONSTANTS
  NoProcess = NoProcess
  Processes = {p1, p2}
  Handled = {p1}
  Runners = {r1, r2}
  Cancelable = {p1}
  Deletable = {}
  MaxReports = 1
  MaxFaults = 1
CHECK_DEADLOCK FALSE
PROPERTY EveryProcessFinishes
