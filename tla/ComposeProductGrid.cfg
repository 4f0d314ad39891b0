\* Three pages, the last one short; the screen holds more than one page, so
\* that the first page does not fill it.
SPECIFICATION FairSpec
CONSTANTS
    PageSize = 2
    Total = 5
    Viewport = 3
    Coroutines = {c1, c2}
INVARIANTS
    TypeOK
    SingleFlight
    SpinnerShowsLoad
    ShowsWholePages
    NoLostTrigger
PROPERTIES
    ImplementsFeed
    NeverHeldAtBottom
\* The application stops when a request fails.
CHECK_DEADLOCK FALSE
