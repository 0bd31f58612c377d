SPECIFICATION Spec
CONSTANTS
    c1 = c1
    c2 = c2
    r1 = r1
    Null = Null
    MaxSearches = 2
    MaxEvents = 4
    Conns <- MCConns
    Scoped <- MCScoped
    Inexact <- MCInexact
    Refs <- MCRefs
INVARIANTS TypeOK EverySourceAnswered TimedOutMeansCutShort
PROPERTIES LateAnswersIgnored WorkersEnd LookupsEnd
CHECK_DEADLOCK FALSE
