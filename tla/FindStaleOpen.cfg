\* The re-check after the OPEN write takes a newer request for the old one.
SPECIFICATION Spec
CONSTANTS
    d1 = d1  d2 = d2  t1 = t1  t2 = t2  h1 = h1  h2 = h2  c1 = c1  c2 = c2
    NoDev = NoDev  NoTile = NoTile  NoReq = NoReq
    Device = {d1}
    ServData = {d1}
    Tile <- MCTile
    Hash <- MCHash
    TileOf <- MCTileOf
    HashOf <- MCHashOf
    Messages <- OneTileMessages
    Caller = {c1, c2}
    BootRing = {"NO"}
    LimitValues = {FALSE}
    Orderly = FALSE
    MaxReq = 3
    MaxEvents = 2
PROPERTIES OpenFollowUpIsCurrent
