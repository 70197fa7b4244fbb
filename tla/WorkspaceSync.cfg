SPECIFICATION Spec
CONSTANTS
  w1 = w1 w2 = w2
  Workspaces = {w1, w2}
  Vertices = {v1}
  Positions = {1}
  NoWorkspace = NoWorkspace
  Home = w1
  Stored <- MCStored
  MaxEvents = 3
  MaxFaults = 1
CHECK_DEADLOCK FALSE
INVARIANTS TabFollowsServer UndoPutsBack WaitingEnds
