\* The uuid of an old tile ends the listener.
SPECIFICATION FairSpec
CONSTANTS
    d1 = d1  d2 = d2  t1 = t1  t2 = t2  h1 = h1  h2 = h2  c1 = c1  c2 = c2
    NoDev = NoDev  NoTile = NoTile  NoReq = NoReq
    Device = {d1}
    ServData = {}
    Tile <- MCTile
    Hash <- MCHash
    TileOf <- MCTileOf
    HashOf <- MCHashOf
    Messages <- OneTileMessages
    Caller = {c1}
    BootRing = {"NO"}
    LimitValues = {FALSE}
    Orderly = FALSE
    MaxReq = 1
    MaxEvents = 1
PROPERTIES OldTileHandled
\* The self-deadlock of the listener ends everything.
CHECK_DEADLOCK FALSE
