\* A clock of more than two windows that jumps and is set back; increments may
\* share a time.
SPECIFICATION RatesSpec
CONSTANTS
    Window = 3
    MaxTime = 7
    MaxIncrements = 4
INVARIANTS
    KeepsWindow
    RatesOfHistory
