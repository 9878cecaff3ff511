\* Three requests at either door, on the calendars of one owner.
CONSTANTS
    Ids <- MCIds
    Labels <- MCLabels
    Colors = {"red"}
    Places = {"shop"}
    DavUris <- MCDavUris
    DavBodies <- MCDavBodies
    Preconditions <- MCPreconditions
    Mixes <- MCMixes
    QueryShapes <- MCQueryShapes
    SlugOf <- MCSlugOf
    Suffixed <- MCSuffixed
    MaxSuffix = 2
    MonthlyLimit = 2
    LastMonth = 2
    Normalized <- MCNormalized
    NewUids <- MCNewUids
    Starts <- MCStarts
    MaxRequests = 3
SPECIFICATION Spec
INVARIANTS ObjectsFitTheirCalendar QuotaHolds
PROPERTIES RefusalsChangeNothing ReadersDoNotWrite
CHECK_DEADLOCK FALSE
