CONSTANTS
    w1 = w1  w2 = w2
    tasks = tasks  other = other  todo = todo  ios = ios
    noBody = noBody  noName = noName
    Workers = {w1, w2}
    Collections <- MCCollections
    Task = todo
    Edits = {1}
    LastOcc = 2
    MaxOcc = 5
    Mixes <- MCMixes
    Uris <- MCUris
    Fresh = {g1, g2}
    g1 = g1  g2 = g2
    Bodies <- MCBodies
    NoBody = noBody
    UidOf <- MCUidOf
    Ops = {}
    Conds = {}
    IfLists = {}
    NoName = noName
    MaxToken = 4
SPECIFICATION ToolSpec
INVARIANTS MovedTaskExists EditsSurvive NoOccurrenceSkipped
CHECK_DEADLOCK FALSE
SYMMETRY Symmetry
