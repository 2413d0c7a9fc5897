SPECIFICATION Spec
CONSTANTS
  Sessions <- Calendar
  WindowDays = 2
  RefreshSlots = 3
  Widths = {0, 2, 3}
  FileWidth = 2
  MaxRevisions = 1
INVARIANTS DerivedIsExact MissingIsWarned IncrementalIsFull
CHECK_DEADLOCK FALSE
