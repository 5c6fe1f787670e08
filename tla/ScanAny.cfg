\* Failing calls and doRingATile.
SPECIFICATION Spec
CONSTANTS
    MaxRuntime = 1
    MaxDowntime = 2
    LimitTurns = 2
    CallsFail = TRUE
    Rings = TRUE
INVARIANTS TypeOK NeverAbandoned
