SPECIFICATION FairSpec
CONSTANTS
  Fallible = {"close_func_", "open_func_", "is_closed_func_", "is_opened_func_"}
INVARIANTS
  AnnouncedTwice
  RestTrue
PROPERTIES
  MotionEnds
CHECK_DEADLOCK FALSE
