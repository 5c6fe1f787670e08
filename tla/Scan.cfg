\* Calls succeed; other programs use the radio.
SPECIFICATION FairSpec
CONSTANTS
    MaxRuntime = 1
    MaxDowntime = 2
    LimitTurns = 2
    CallsFail = FALSE
    Rings = FALSE
INVARIANTS PausedIsOff DoneIsOff
PROPERTIES ScanResumes ScanPauses LimitStopsScan ExitIsReached
