\* The back-off, two RPC threads, a clock that may be set back.
SPECIFICATION FairSpec
CONSTANTS
    c1 = c1  c2 = c2
    MaxDelay = 5
    Minute = 1
    Caller = {c1, c2}
    CallsFail = TRUE
    ClockMoves = TRUE
INVARIANTS TypeOK OneLateAttempt AgreesUnlessMissed
PROPERTIES NoEagerRetry IsBeaconThread BackoffEnds
