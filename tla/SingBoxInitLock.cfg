\* Nothing is killed and nothing fails: three callers are enough.
CONSTANTS
  Caller = {c1, c2, c3}
  Daemon = {d1, d2}
  MaxFaults = 0
  NoLock = NoLock
SPECIFICATION Spec
INVARIANT LiveLockPreserved
