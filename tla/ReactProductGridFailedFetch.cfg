\* Every callback sees the latest render; requests may fail.
SPECIFICATION Spec
CONSTANTS
    PageSize = 2
    Total = 5
    Calls = {c1, c2}
    MaxPending = 2
    CommitLag = FALSE
    NetworkFails = TRUE
INVARIANTS
    EndMeansAll
