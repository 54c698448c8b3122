\* Three callers: one in the lock, one giving up on it, one arriving. A third
\* daemon would need two takeovers.
CONSTANTS
  Caller = {c1, c2, c3}
  Daemon = {d1, d2}
  MaxFaults = 1
  NoLock = NoLock
SPECIFICATION Spec
SYMMETRY Symmetry
CONSTRAINT Untaken
INVARIANTS
  TypeOK
  OneDaemon
  RunningIsNamed
PROPERTY
  ImplementsService
