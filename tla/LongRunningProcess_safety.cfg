SPECIFICATION Spec
CONSTANTS
  NoProcess = NoProcess
  Processes = {p1}
  Handled = {p1}
  Runners = {r1, r2}
  Cancelable = {p1}
  Deletable = {p1}
  MaxReports = 1
  MaxFaults = 1
SYMMETRY Symmetry
CHECK_DEADLOCK FALSE
INVARIANTS RowsFollow NothingLooksRunning
PROPERTIES UsesQueue ResultsKept CancelLostOnlyToRunner
