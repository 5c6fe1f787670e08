\* Two tiles with changing service data.
SPECIFICATION FairSpec
CONSTANTS
    v1 = v1  v2 = v2  vs = vs  h1 = h1  h2 = h2
    NoData = NoData  NoEntry = NoEntry
    Device = {1, 2}
    Data = {v1, v2, vs}
    Short = {vs}
    Hash <- MCHash
    HashOf <- MCHashOf
    NotifyInterval = 1
    ScrubLimit = 1
    FreshAges <- AnyAge
INVARIANTS TypeOK
PROPERTIES AddedIsTold NotToldTwice IsTileTable SilentGoes
\* A null entry ends the process.
CHECK_DEADLOCK FALSE
