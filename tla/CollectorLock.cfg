\* Three pids are a holder, a pruner between two of its looks and a third
\* collector that takes the lock meanwhile. One crash or restart, after which
\* the web server has pid p1, and one failed write.
CONSTANTS
  Pid = {p1, p2, p3}
  MaxCrashes = 1
  MaxFailures = 1
  ServerPid = p1
  NoPid = NoPid
  NoFile = NoFile
SPECIFICATION FairSpec
INVARIANTS
  TypeOK
  SharedOnlyAfterForeignUnlink
PROPERTIES
  JudgedLockIsDead
  DeadLockRecovered
