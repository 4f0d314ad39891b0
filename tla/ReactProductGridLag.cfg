\* FlatList may call back before an outstanding render; two calls may overlap
\* and leave up to four runs of setters for one render.
SPECIFICATION FairSpec
CONSTANTS
    PageSize = 2
    Total = 5
    Calls = {c1, c2}
    MaxPending = 4
    CommitLag = TRUE
    NetworkFails = TRUE
INVARIANTS
    NoSpinnerAtRest
    NoLostTrigger
PROPERTIES
    SpinnerStops
\* The grid stops when an empty list has been declared complete: nothing
\* can scroll, and FlatList reports nothing new.
CHECK_DEADLOCK FALSE
