SPECIFICATION Spec
CONSTANTS
    t1 = t1
    t2 = t2
    s1 = s1
    s2 = s2
    MaxEvents = 5
    Null = Null
    Tabs <- MCTabs
    Tab1 = t1
    Sids <- MCSids
    Runs <- MCRuns
INVARIANTS TypeOK NoSessionForgotten PendingIsOfSession
PROPERTIES StatementsGoWhereShown LeavingClosesAll
CHECK_DEADLOCK FALSE
