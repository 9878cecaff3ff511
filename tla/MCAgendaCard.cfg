SPECIFICATION Spec
CONSTANTS
  e1 = e1  e2 = e2  e3 = e3  new1 = new1  new2 = new2  home = home  work = work
  Events <- EventsDef
  Temps <- TempsDef
  Recurring <- RecurringDef
  Calendars <- CalendarsDef
  Days <- DaysDef
  MonthGrid <- MonthGridDef
  Default <- DefaultDef
  Gestures <- GesturesDef
  MaxGestures = 3
  MaxFailures = 1
INVARIANT KnowsTheList
INVARIANT EditsArrive
INVARIANT NothingStaysOptimistic
INVARIANT DrawsWhatItKnows
CHECK_DEADLOCK FALSE
