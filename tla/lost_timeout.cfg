SPECIFICATION TimedSpec
CONSTANTS
  N = 2
  g = g
  b1 = b1
  b2 = b2
  Blocks <- LineBlocks
  Genesis = g
  Ancestors <- LineAncestors
  EmptyHash = EmptyHash
  None = None
  Offline = {}
  Observers = {}
  Restarting = {}
  MaxView = 4
  TimerViews = {0, 1, 2, 3, 4}
  ImportViews = {0, 1, 2, 3, 4}
  Period = 2
  Starts = {0}
  LostTypes = {"Timeout"}
  MaxLosses = 1
  EventViews = {1}
PROPERTY
  ReplicasMeet
