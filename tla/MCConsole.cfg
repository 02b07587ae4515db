SPECIFICATION Spec
CONSTANTS
  Chars = {a, b}
  Blank = blank
  Newline = nl
  Return = cr
  cols = 2
  rows = 3
  MAX_LINES = 5
INVARIANTS TypeOK ShowsLogTail
CHECK_DEADLOCK FALSE
