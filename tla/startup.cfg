SPECIFICATION StartupSpec
CONSTANTS
  a = a
  b = b
  c = c
  n1 = n1
  n2 = n2
  n3 = n3
  AuthorityId = {a, b, c}
  GenesisAuthorities <- TwoAuthorities
  MaxAuthorities = 2
  Configs <- SomeConfigs
  MinimumPeriod = 1
  MaxU64 = 3
  Digests <- SomeDigests
  SessionKeys <- Lists
  None = None
  Nodes = {n1, n2, n3}
  Validators = {n1, n2}
  Keystore <- Keys
  Views = {0, 1, 2, 3}
INVARIANTS
  TypeOK
  AnnouncedAuthorities
  SlotsAscend
  AuthorKnown
  SameAuthorities
  OneLeader
