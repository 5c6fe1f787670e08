\* The listener uses an entry that was scrubbed.
SPECIFICATION Spec
CONSTANTS
    v1 = v1  v2 = v2  vs = vs  h1 = h1  h2 = h2
    NoData = NoData  NoEntry = NoEntry
    Device = {1}
    Data = {v1, v2}
    Short = {}
    Hash <- MCHash
    HashOf <- MCHashOf
    NotifyInterval = 2
    ScrubLimit = 3
    FreshAges <- NoAge
INVARIANTS NoNullEntry
\* A null entry ends the process.
CHECK_DEADLOCK FALSE
