SPECIFICATION Spec
CONSTANTS
  N = 2
  g = g
  b1 = b1
  c1 = c1
  b2 = b2
  Blocks <- OneBlocks
  Genesis = g
  Ancestors <- OneAncestors
  EmptyHash = EmptyHash
  None = None
  Offline = {}
  Observers = {}
  Restarting = {}
  MaxView = 2
  TimerViews = {0, 1}
  ImportViews = {0}
INVARIANT BroadcastTCsVerify
