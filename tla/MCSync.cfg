\* Two concurrent requests, of every kind that changes resources, against a
\* client that polls and may lose any REPORT.  Liveness: no symmetry.
CONSTANTS
    Uris = {a, b}
    Fresh = {g1}
    x1 = x1
    x2 = x2
    Bodies <- MCBodies
    NoBody = NoBody
    NoName = NoName
    UidOf <- MCUidOf
    Workers = {w1, w2}
    Clients = {c1}
    Ops = {"put", "delete", "restore"}
    Conds <- MCConds
    IfLists <- NoIf
    MaxToken = 2
SPECIFICATION FairSyncSpec
INVARIANTS NothingMissed NoSpuriousResync
PROPERTIES ImplementsFeed Converges
CHECK_DEADLOCK FALSE
