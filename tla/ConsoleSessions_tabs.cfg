SPECIFICATION Spec
SYMMETRY Symmetry
CONSTANTS
  Calls = {c1, c2}
  Owners = {u1}
  Tabs = {t1, t2, t3}
  Ids = {i1, i2, i3}
  Janitor = Janitor
  Closer = Closer
  Nobody = Nobody
  PerUser = 2
  Total = 2
  Idle = 2
INVARIANTS
  TypeOK
  PoolsAccountedFor
  ClosedOwnsNothing
  CapsBoundPools
  OneSessionPerTab
PROPERTIES
  SerializedWithCleanup
  LedgerSpec
