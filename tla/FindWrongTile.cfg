\* Hashed ids of an earlier request choose the device of a later one.
SPECIFICATION Spec
CONSTANTS
    d1 = d1  d2 = d2  t1 = t1  t2 = t2  h1 = h1  h2 = h2  c1 = c1  c2 = c2
    NoDev = NoDev  NoTile = NoTile  NoReq = NoReq
    Device = {d1, d2}
    ServData = {d1, d2}
    Tile <- MCTile
    Hash <- MCHash
    TileOf <- MCTileOf
    HashOf <- MCHashOf
    Messages <- UuidMessages
    Caller = {c1}
    BootRing = {"NO"}
    LimitValues = {FALSE}
    Orderly = TRUE
    MaxReq = 2
    MaxEvents = 2
INVARIANTS RightTile
