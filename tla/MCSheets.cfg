SPECIFICATION SheetSpec
CONSTANTS
    DaySlots = 4
    Zones <- MCZones
    Before <- MCBefore
    After <- MCAfter
    Switch = 22
    MaxOccurrences = 4
    Forever = 60
    Steps = 6
    Slack = 4
    ClientEvents <- MCClientEvents
    Dates = {}
    Rules = {}
    Patches <- MCEventPatches
    ClientTodos <- MCClientTodos
    TodoPatches <- MCTodoPatches
    Now = 16
    MaxEdits = 1
    Ranges = {}
    Readers = {}
    SheetWindow <- MCSheetWindow
    Device = "east"
    Presets = {1}
    Today = 16
    SheetDays = {20}
    SheetTimes = {1}
    MaxSheetEdits = 3
    MaxPages = 1
    MaxElsewhere = 1
PROPERTIES
    UntouchedFieldsStay
    PagesAreSavedAsShown
CHECK_DEADLOCK FALSE
