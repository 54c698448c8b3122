\* One log of timed lines and one of lines without a time; nothing fails.
SPECIFICATION Spec
CONSTANTS
  Modes = {{"live"}}
  Logs = {1, 2}
  Timeless = {2}
  Limit = 2
  MaxLines = 2
  MaxFaults = 0
  LinesIn <- MCLines
  RestartsIn <- MCRestarts
  None = None
PROPERTY
  RecentLinesIngested
