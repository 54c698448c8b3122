\* All collectors, with a restart and no line; and the live collector alone, with
\* three lines in three logs, the last of which gives no times.
SPECIFICATION Spec
CONSTANTS
  Modes = {{"full", "light", "live"}, {"live"}}
  Logs = {1, 2, 3}
  Timeless = {3}
  Limit = 2
  MaxLines = 3
  MaxFaults = 1
  LinesIn <- MCLines
  RestartsIn <- MCRestarts
  None = None
INVARIANTS
  TypeOK  StoredOnce
PROPERTIES
  QuietAfterStop CollectsForever 
