\* Two full pages and a short one; two Task identities, so that a second
\* request could overlap the first.
SPECIFICATION FairSpec
CONSTANTS
    PageSize = 3
    Total = 8
    Tasks = {t1, t2}
INVARIANTS
    TypeOK
    SingleRequest
    ShowsWholePages
    NoLostAppearance
PROPERTIES
    BlankIsRetried
    ImplementsFeed
    SpinnerStops
    PatienceIsRewarded
