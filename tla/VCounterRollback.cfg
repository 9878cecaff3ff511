\* A write between a PROPPATCH's read and its save.
CONSTANTS
    Uris = {a}
    Fresh = {g1}
    x1 = x1
    y1 = y1
    Bodies <- MCBodies
    NoBody = NoBody
    NoName = NoName
    UidOf <- MCUidOf
    Workers = {w1, w2}
    Ops = {"put", "proppatch"}
    Conds <- MCUnconditional
    IfLists <- NoIf
    MaxToken = 2
SPECIFICATION LifecycleSpec
SYMMETRY Symmetry
PROPERTY CounterNeverRollsBack
CHECK_DEADLOCK FALSE
