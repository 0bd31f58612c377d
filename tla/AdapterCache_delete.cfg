SPECIFICATION Spec
CONSTANTS
  Requests = {r1, r2}
  Conns = {c1}
  Pools = {p1, p2, p3}
  Dsns = {d1, d2}
  Nothing = Nothing
  Capacity = 1
  TTL = 1
INVARIANTS
  DeletedHaveNoPool
