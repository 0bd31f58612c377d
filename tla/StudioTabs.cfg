CONSTANTS
    c1 = c1
    c2 = c2
    Conns <- MCConns
    Tables = {t}
    Erds <- MCErds
    Diffs <- MCDiffs
    All = All
    Null = Null
    Cells = {x}
    NavLimit = 3
    MaxTabs = 3
    MaxFresh = 1
    MaxMoves = 2
    MaxEvents = 4
    MaxStill = 5
SPECIFICATION MCSpec
INVARIANTS TypeOK EditorConsistent ReloadKeepsTabs
PROPERTIES HistoryFollowsEditor OtherScopesUntouched NoSilentDiscard
