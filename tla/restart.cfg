SPECIFICATION Spec
CONSTANTS
  N = 2
  g = g
  b1 = b1
  c1 = c1
  b2 = b2
  Blocks <- LineBlocks
  Genesis = g
  Ancestors <- LineAncestors
  EmptyHash = EmptyHash
  None = None
  Offline = {}
  Observers = {}
  Restarting = {0}
  MaxView = 3
  TimerViews = {0, 1}
  ImportViews = {0}
INVARIANTS
  VoteOncePerView
  CertifiedUnique
PROPERTY ImplementsFinality
