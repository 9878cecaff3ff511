SPECIFICATION ObjectSpec
CONSTANTS
    DaySlots = 4
    Zones <- MCZones
    Before <- MCBefore
    After <- MCAfter
    Switch = 18
    MaxOccurrences = 4
    Forever = 60
    Steps = 6
    Slack = 4
    ClientEvents <- MCClientEvents
    Dates <- MCDates
    Rules <- MCRules
    Patches <- MCPatches
    ClientTodos <- MCClientTodos
    TodoPatches <- MCTodoPatches
    Now = 16
    MaxEdits = 2
    Ranges <- MCRanges
    Readers <- MCReaders
INVARIANTS
    RangesAgree
    QueryFindsOccurrences
    BusyTimeIsExact
    EditsKeepZonesWhole
    CompletionTakesOneOccurrence
    AlarmsFollowTheDate
    TheQueryFindsWhatIsListed
