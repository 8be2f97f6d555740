\* Two runs in any overlap, and the one stop a page has on its way at a time.
\* Nobody has to press Run again: the system may come to rest.
CONSTANTS
  Runs = {1, 2}
  Stops = {s}
  None = None
SPECIFICATION Spec
INVARIANTS TypeOK CleanStart WithinReach
PROPERTIES StopStops RequestsAnswered RunEnds
CHECK_DEADLOCK FALSE
