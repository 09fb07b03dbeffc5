\* A 2 x 4 grid, 8-bit words, 5-bit division, a backspace or two.
CONSTANTS
    BITS = 8
    DIV_BITS = 5
    FB_COLS = 4
    FB_ROWS = 2
    MAX_ARGC = 2
    Jobs <- MCJobs
SPECIFICATION Spec
INVARIANTS
  CursorOK
  PrintsExact
  ScreenExact
  RoutinesExact
CHECK_DEADLOCK FALSE
