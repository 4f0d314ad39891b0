\* Both platforms; three home pages, so that a Platform can outlive two of them,
\* and two screens, so that a double tap can open both.
SPECIFICATION Spec
CONSTANTS
    MaxHomes = 3
    MaxScreens = 2
INVARIANTS
    TypeOK
    HandlerServesHome
    ShowsTappedUseCase
\* The bound on the home pages stops the system.
CHECK_DEADLOCK FALSE
