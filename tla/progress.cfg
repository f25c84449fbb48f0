SPECIFICATION TimedSpec
CONSTANTS
  N = 2
  g = g
  b1 = b1
  b2 = b2
  Blocks <- LineBlocks
  Genesis = g
  Ancestors <- LineAncestors
  EmptyHash = EmptyHash
  None = None
  Offline = {}
  Observers = {}
  Restarting = {}
  MaxView = 10
  TimerViews = {0, 1, 2, 3, 4, 5, 6, 7, 8, 9, 10}
  ImportViews = {0, 1, 2, 3, 4, 5, 6, 7, 8, 9, 10}
  Period = 2
  Starts = {0, 1, 2}
  LostTypes = {"Propose", "Vote", "TC"}
  MaxLosses = 2
  EventViews = {0, 1, 2, 3}
PROPERTIES
  BlocksFinalized
  ReplicasMeet
