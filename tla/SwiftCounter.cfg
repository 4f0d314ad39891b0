\* Two identities, each used for two ViewStores in turn; four increments.
SPECIFICATION Spec
CONSTANTS
    Ids = {i1, i2}
    MaxCount = 4
    MaxOpens = 2
INVARIANTS
    LiveViewIsSubscribed
    FreshWhenDrained
    OneLinkWhileAttached
    MissesNoState
PROPERTIES
    ImplementsCounter
\* The bounds stop the system.
CHECK_DEADLOCK FALSE
