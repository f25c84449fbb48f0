SPECIFICATION Spec
CONSTANTS
  N = 4
  g = g
  b1 = b1
  c1 = c1
  b2 = b2
  Blocks <- OneBlocks
  Genesis = g
  Ancestors <- OneAncestors
  EmptyHash = EmptyHash
  None = None
  Offline = {0}
  Observers = {}
  Restarting = {}
  MaxView = 3
  TimerViews = {0, 1}
  ImportViews = {0}
INVARIANTS
  KnownQCsVerify
  ViewJustified
