CONSTANTS
  Old = old
  Operator = operator
  Console = console
  Other = {other}
  Session = session
  Timer = {t1, t2}
  MaxCommands = 3
  MaxFaults = 0
  NoFile = NoFile
  NoTimer = NoTimer
SPECIFICATION Spec
PROPERTY
  ConfirmInTime
