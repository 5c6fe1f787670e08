\* Odd requests, an old tile, a limit on beacon detection, garbage at start.
SPECIFICATION Spec
CONSTANTS
    d1 = d1  d2 = d2  t1 = t1  t2 = t2  h1 = h1  h2 = h2  c1 = c1  c2 = c2
    NoDev = NoDev  NoTile = NoTile  NoReq = NoReq
    Device = {d1, d2}
    ServData = {d1}
    Tile <- MCTile
    Hash <- MCHash
    TileOf <- MCTileOf
    HashOf <- MCHashOf
    Messages <- OddMessages
    Caller = {c1}
    BootRing = {"NO", "PLAY_RESPONSE"}
    LimitValues = {FALSE, TRUE}
    Orderly = FALSE
    MaxReq = 2
    MaxEvents = 1
INVARIANTS TypeOK BoundDeviceRequested
\* The self-deadlock of the listener ends everything.
CHECK_DEADLOCK FALSE
