SPECIFICATION FairSpec
CONSTANTS
  Calls = {c1, c2}
  Owners = {u1}
  Tabs = {t1}
  Ids = {i1}
  Janitor = Janitor
  Closer = Closer
  Nobody = Nobody
  PerUser = 1
  Total = 1
  Idle = 1
PROPERTIES
  EveryCallAnswered
  AbandonedIsRolledBack
  ShutdownEndsAll
