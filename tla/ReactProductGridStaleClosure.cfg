\* No request fails, but FlatList may call back before an outstanding render.
SPECIFICATION Spec
CONSTANTS
    PageSize = 2
    Total = 5
    Calls = {c1, c2}
    MaxPending = 4
    CommitLag = TRUE
    NetworkFails = FALSE
INVARIANTS
    EndMeansAll
