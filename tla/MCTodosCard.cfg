SPECIFICATION Spec
CONSTANTS
  t1 = t1  t2 = t2  new1 = new1  new2 = new2
  Tasks <- TasksDef
  Temps <- TempsDef
  Gestures <- GesturesDef
  MaxGestures = 3
  MaxOutside = 1
  MaxFailures = 1
INVARIANT LastWishWins
INVARIANT WishIsShown
INVARIANT OverlaysEnd
INVARIANT SuppressedRendersAreMadeUp
INVARIANT ShowsTruth
CHECK_DEADLOCK FALSE
