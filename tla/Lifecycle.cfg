\* Two calls, which may both come before main has its tile manager.
SPECIFICATION FairSpec
CONSTANTS
    Caller <- MCCaller
    MaxCalls = 2
    MaxEvents = 1
    MaxManagers = 3
    TermWaits = TRUE
    StrayCallbacks = FALSE
CONSTRAINT EarlyRace
INVARIANTS TypeOK NothingOnReleased OneManager
PROPERTIES ProcessEnds RequestsTaken
\* The process ends.
CHECK_DEADLOCK FALSE
