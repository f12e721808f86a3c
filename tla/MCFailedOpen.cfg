SPECIFICATION Spec
CONSTANTS
    Goroutines = {g1, g2, g3}
INVARIANT
    FailedOpenHoldsNothing
CHECK_DEADLOCK FALSE
