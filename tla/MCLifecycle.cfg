\* Every kind of request against one collection that comes and goes, beside a
\* client that syncs it.
CONSTANTS
    Uris = {a}
    Fresh = {g1}
    x1 = x1
    y1 = y1
    Bodies <- MCBodies
    NoBody = NoBody
    NoName = NoName
    UidOf <- MCUidOf
    Workers = {w1, w2}
    Clients = {c1}
    Ops = {"put", "delete", "create", "proppatch", "drop"}
    Conds <- MCUnconditional
    IfLists <- NoIf
    MaxToken = 2
SPECIFICATION CollectionSyncSpec
SYMMETRY Symmetry
INVARIANTS NoOrphans TokensUnique AcceptedTokensMissNothing
PROPERTY LoggedWhilePresent
CHECK_DEADLOCK FALSE
