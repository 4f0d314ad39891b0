\* Two screens of two CounterApps that share the store; the bound lets several
\* frames pass.
SPECIFICATION FairSpec
CONSTANTS
    Screens = {s1, s2}
    Instances = {a1, a2}
    MaxCount = 7
INVARIANTS
    PulseAlive
    AllInstancesAgree
    OneIncrementPerInstance
PROPERTIES
    ImplementsCounter
    KeepsCounting
\* The bound on the counter stops the system.
CHECK_DEADLOCK FALSE
