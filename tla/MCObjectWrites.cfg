\* Two concurrent requests of every kind, with every kind of condition.
CONSTANTS
    Uris = {a, b}
    Fresh = {g1, g2}
    x1 = x1
    x2 = x2
    y1 = y1
    Bodies <- MCBodies
    NoBody = NoBody
    NoName = NoName
    UidOf <- MCUidOf
    Workers = {w1, w2}
    Ops = {"put", "delete", "restore", "purge"}
    Conds <- MCConds
    IfLists <- MCIfLists
    MaxToken = 4
SPECIFICATION Spec
SYMMETRY Symmetry
INVARIANTS LogContiguous LiveIsLogged UidsUnique
PROPERTIES EveryChangeLogged NoLostUpdate SuccessIsTrue GhostsSurvive
CHECK_DEADLOCK FALSE
