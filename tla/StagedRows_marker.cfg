CONSTANTS
    Keys <- MCKeys
    News = {n}
    Cols = {x, y}
    u = u
    v = v
    Vals <- MCVals
    None = None
    Gone = Gone
    Importing = Importing
    MaxEvents = 4
SPECIFICATION MCSpec
PROPERTIES MarkerGoesWhenSaved
