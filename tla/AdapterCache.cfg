SPECIFICATION FairSpec
CONSTANTS
  Requests = {r1, r2}
  Conns = {c1, c2}
  Pools = {p1, p2}
  Dsns = {d1}
  Nothing = Nothing
  Capacity = 1
  TTL = 1
INVARIANTS
  TypeOK
  PoolsBounded
  NoPoolLost
  EntriesUsable
PROPERTIES
  IdlePoolsAreClosed
