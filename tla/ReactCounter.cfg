\* Two screens of two Counters on one store.
SPECIFICATION FairSpec
CONSTANTS
    Screens = {s1, s2}
    Instances = {a1, a2}
    MaxCount = 3
INVARIANTS
    CountsOnceOnScreen
PROPERTIES
    ImplementsCounter
    DrawsCatchUp
