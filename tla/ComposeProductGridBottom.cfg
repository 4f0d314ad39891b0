\* The smallest screen, so that a page more is a page out of sight.
SPECIFICATION Spec
CONSTANTS
    PageSize = 2
    Total = 5
    Viewport = 1
    Coroutines = {c1, c2}
PROPERTIES
    LoadsOnlyAtBottom
\* The application stops when a request fails.
CHECK_DEADLOCK FALSE
