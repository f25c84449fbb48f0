SPECIFICATION Spec
CONSTANTS
  N = 2
  g = g
  b1 = b1
  c1 = c1
  b2 = b2
  Blocks <- TwoBlocks
  Genesis = g
  Ancestors <- TwoAncestors
  EmptyHash = EmptyHash
  None = None
  Offline = {}
  Observers = {}
  Restarting = {}
  MaxView = 5
  TimerViews = {0, 1, 2, 3}
  ImportViews = {0, 1, 2, 3, 4, 5}
INVARIANTS
  TypeOK
  FinalizedByTwoChain
  VotersHaveBlock
PROPERTIES
  ViewMonotone
  NoVoteAfterTimeout
