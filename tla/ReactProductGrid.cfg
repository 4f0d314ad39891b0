\* Every callback sees the latest render; five pages, the last one short.
SPECIFICATION Spec
CONSTANTS
    PageSize = 2
    Total = 9
    Calls = {c1, c2, c3}
    MaxPending = 2
    CommitLag = FALSE
    NetworkFails = TRUE
INVARIANTS
    TypeOK
    SingleCall
    ShowsWholePages
PROPERTIES
    ImplementsFeed
\* The grid stops when an empty list has been declared complete: nothing
\* can scroll, and FlatList reports nothing new.
CHECK_DEADLOCK FALSE
