CONSTANTS
    Keys <- MCKeys
    News = {n}
    Cols = {x, y}
    u = u
    v = v
    Vals <- MCVals
    None = None
    Gone = Gone
    Importing = Importing
    MaxEvents = 5
SPECIFICATION MCSpec
INVARIANTS TypeOK SavedOnce ReadsOwnWrites
PROPERTIES LeavesOnlyCommitted OthersCellsKept SubmissionEnds
